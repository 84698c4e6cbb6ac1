--------------------------- MODULE WiFiListProofs ---------------------------
(***************************************************************************)
(* Proofs about WiFiList, for every size of the array, all three threads   *)
(* or some of them, scans refused or not, and however many networks a scan *)
(* finds, more than the array holds included.                              *)
(***************************************************************************)
EXTENDS WiFiList, TLAPS

IInv == TypeOK /\ MarkInRows

LEMMA InitIInv == Init => IInv
<1> SUFFICES ASSUME Init PROVE IInv
  OBVIOUS
<1>1. scanning \in BOOLEAN /\ onAir \in BOOLEAN
  BY Zenon DEF Init
<1>2. MaxWifiList \in Nat
  BY MaxAssumption
<1> QED
  BY <1>1, <1>2 DEF Init, IInv, TypeOK, MarkInRows, Listing, Names, Threads, Copiers

\* A result is a sequence of names.
LEMMA ResultsNames == TypeOK => results \in Seq(Networks)
<1>1. <<>> \in Seq(Networks)
  OBVIOUS
<1> QED
  BY <1>1, FindingsAssumption, Zenon DEF TypeOK

\* SSID(k) is a name or the empty String.
LEMMA SSIDName ==
  ASSUME TypeOK, NEW k \in Nat
  PROVE  SSID(k) \in Names
BY ResultsNames DEF SSID, Names

\* Moving the mark takes the window with it, however the count has changed
\* since the mark was set.
LEMMA MoveInRows ==
  ASSUME NEW sel \in Nat, NEW top \in Nat, sel \in top..top + Rows - 1, NEW n \in Int
  PROVE  /\ SelUp(sel) \in Nat /\ TopUp(sel, top) \in Nat
         /\ SelUp(sel) \in TopUp(sel, top)..TopUp(sel, top) + Rows - 1
         /\ SelDown(sel, n) \in Nat /\ TopDown(sel, top, n) \in Nat
         /\ SelDown(sel, n) \in TopDown(sel, top, n)..TopDown(sel, top, n) + Rows - 1
BY DEF SelUp, TopUp, SelDown, TopDown, Rows

\* The list opens with its first entry marked and in the top row.
LEMMA OpenListIInv ==
  ASSUME IInv, OpenList
  PROVE  IInv'
<1>1. "loop" \in Threads
  BY DEF Threads, Copiers
<1>2. scanning' \in BOOLEAN /\ onAir' \in BOOLEAN
  BY Zenon DEF OpenList, lib, IInv, TypeOK
<1>3. TypeOK'
  BY <1>1, <1>2 DEF IInv, OpenList, Goto, TypeOK, lib, list, Names
<1>4. MarkInRows'
  BY <1>1 DEF IInv, OpenList, MarkInRows, Rows, list
<1> QED
  BY <1>3, <1>4 DEF IInv

LEMMA NextIInv ==
  ASSUME IInv, [Next]_vars
  PROVE  IInv'
<1> USE DEF IInv
<1>1. ASSUME NEW t \in Threads, ScanStart(t) PROVE IInv'
  <2>1. scanning' \in BOOLEAN /\ onAir' \in BOOLEAN
    BY <1>1, Zenon DEF ScanStart
  <2> QED
    BY <1>1, <2>1 DEF ScanStart, Goto, TypeOK, MarkInRows, Listing, list, keys
<1>2. ASSUME NEW t \in Copiers, ScanRunning(t) PROVE IInv'
  <2>1. scanning' \in BOOLEAN /\ onAir' \in BOOLEAN
    BY <1>2, Zenon DEF ScanRunning, lib, TypeOK
  <2> QED
    BY <1>2, <2>1 DEF ScanRunning, TypeOK, MarkInRows, Listing, lib, keys
<1>3. ASSUME NEW t \in Copiers, ScanRefused(t) PROVE IInv'
  BY <1>3 DEF ScanRefused, TypeOK, MarkInRows, Listing, keys
<1>4. ASSUME NEW t \in Copiers, Found(t) PROVE IInv'
  <2>1. Len(results) \in Nat
    BY ResultsNames
  <2>2. t \in Threads /\ wifiCount' \in Nat
    BY <1>4, <2>1 DEF Found, Threads
  <2>3. i' \in [Copiers -> 0..MaxWifiList]
    BY <1>4, MaxAssumption DEF Found, TypeOK
  <2> QED
    BY <1>4, <2>2, <2>3 DEF Found, Goto, TypeOK, MarkInRows, Listing, lib, keys
<1>5. ASSUME NEW t \in Copiers, CopyName(t) PROVE IInv'
  <2>1. t \in Threads /\ i[t] \in 0..MaxWifiList /\ MaxWifiList \in Nat /\ SSID(i[t]) \in Names
    BY SSIDName, MaxAssumption DEF TypeOK, Threads
  <2>2. scanning' \in BOOLEAN /\ onAir' \in BOOLEAN
    BY <1>5 DEF CopyName, lib, TypeOK
  <2>3. wifiList' \in [Slots -> Names] /\ i' \in [Copiers -> 0..MaxWifiList]
    <3>1. wifiList \in [Slots -> Names] /\ i \in [Copiers -> 0..MaxWifiList]
      BY DEF TypeOK
    <3>2. wifiList' = [wifiList EXCEPT ![i[t]] = SSID(i[t])] \/ wifiList' = wifiList
      BY <1>5 DEF CopyName
    <3>3. \/ i[t] < MaxWifiList /\ i' = [i EXCEPT ![t] = @ + 1]
          \/ i' = [i EXCEPT ![t] = 0]
      BY <1>5 DEF CopyName
    <3>4. wifiList' \in [Slots -> Names]
      BY <2>1, <3>1, <3>2
    <3>5. i' \in [Copiers -> 0..MaxWifiList]
      BY <2>1, <3>1, <3>3
    <3> QED
      BY <3>4, <3>5
  <2>4. /\ pc' \in [Threads -> {"idle", "waiting", "woken", "copying", "draw", "key", "password"}]
        /\ pc'["loop"] \in {"draw", "key", "password"} => pc["loop"] = pc'["loop"]
    <3>1. CASE UNCHANGED pc
      BY <3>1 DEF TypeOK
    <3>2. CASE Goto(t, "idle")
      BY <3>2, <2>1 DEF Goto, TypeOK, Threads, Copiers
    <3> QED
      BY <1>5, <3>1, <3>2, Zenon DEF CopyName
  <2>5. UNCHANGED <<results, wifiCount, selectedWiFi, wifiMenuIndex, rows, chosen>>
    BY <1>5 DEF CopyName, lib, keys
  <2> QED
    BY <2>2, <2>3, <2>4, <2>5 DEF TypeOK, MarkInRows, Listing
<1>6. CASE ScanDone
  <2>1. scanning' \in BOOLEAN /\ onAir' \in BOOLEAN
    BY <1>6, Zenon DEF ScanDone
  <2>2. "loop" \in Threads
    BY DEF Threads, Copiers
  <2>3. pc'["loop"] \in {"draw", "key", "password"} => Listing
    BY <1>6, <2>2 DEF ScanDone, Listing
  <2>4. pc' \in [Threads -> {"idle", "waiting", "woken", "copying", "draw", "key", "password"}]
    BY <1>6 DEF ScanDone, TypeOK
  <2>5. UNCHANGED <<wifiCount, wifiList, i, selectedWiFi, wifiMenuIndex, rows, chosen>>
    BY <1>6 DEF ScanDone, list, keys
  <2>6. results' \in Findings
    BY <1>6 DEF ScanDone
  <2>7. TypeOK'
    BY <2>1, <2>4, <2>5, <2>6 DEF TypeOK
  <2>8. MarkInRows'
    BY <2>3, <2>5 DEF MarkInRows, Listing
  <2> QED
    BY <2>5, <2>7, <2>8
<1>7. CASE AutoDone
  <2>1. scanning' \in BOOLEAN /\ onAir' \in BOOLEAN
    BY <1>7, Zenon DEF AutoDone, TypeOK
  <2> QED
    BY <1>7, <2>1 DEF AutoDone, Goto, TypeOK, MarkInRows, Listing, list, keys, Threads
<1>8. CASE AutoRefused
  <2>1. scanning' \in BOOLEAN /\ onAir' \in BOOLEAN
    BY <1>8, Zenon DEF AutoRefused, TypeOK
  <2> QED
    BY <1>8, <2>1 DEF AutoRefused, TypeOK, MarkInRows, Listing, list, keys
<1>9. CASE ShowWiFiList \/ BackToList
  BY <1>9, OpenListIInv DEF ShowWiFiList, BackToList
<1>10. CASE Draw
  <2>1. \A k : NameAt(k) \in Names \cup {Outside}
    BY DEF NameAt, TypeOK
  <2> QED
    BY <1>10, <2>1 DEF Draw, Goto, TypeOK, MarkInRows, Listing, lib, list
<1>11. CASE NoKey
  BY <1>11 DEF NoKey, Goto, TypeOK, MarkInRows, Listing, lib, list, keys
<1>12. CASE MoveMark
  <2>1. Listing /\ selectedWiFi \in Nat /\ wifiMenuIndex \in Nat /\ wifiCount \in Int
        /\ selectedWiFi \in wifiMenuIndex..wifiMenuIndex + Rows - 1
    BY <1>12 DEF MoveMark, Listing, MarkInRows, TypeOK
  <2>2. selectedWiFi' \in Nat /\ wifiMenuIndex' \in Nat
        /\ selectedWiFi' \in wifiMenuIndex'..wifiMenuIndex' + Rows - 1
    <3>1. /\ SelUp(selectedWiFi) \in Nat /\ TopUp(selectedWiFi, wifiMenuIndex) \in Nat
          /\ SelUp(selectedWiFi) \in TopUp(selectedWiFi, wifiMenuIndex)
                                       ..TopUp(selectedWiFi, wifiMenuIndex) + Rows - 1
          /\ SelDown(selectedWiFi, wifiCount) \in Nat
          /\ TopDown(selectedWiFi, wifiMenuIndex, wifiCount) \in Nat
          /\ SelDown(selectedWiFi, wifiCount)
               \in TopDown(selectedWiFi, wifiMenuIndex, wifiCount)
                     ..TopDown(selectedWiFi, wifiMenuIndex, wifiCount) + Rows - 1
      BY <2>1, MoveInRows
    <3> QED
      BY <1>12, <3>1, Zenon DEF MoveMark
  <2> QED
    BY <1>12, <2>2 DEF MoveMark, Goto, TypeOK, MarkInRows, lib, list
<1>13. CASE Choose
  <2>1. NameAt(selectedWiFi) \in Names \cup {Outside}
    BY DEF NameAt, TypeOK
  <2> QED
    BY <1>13, <2>1 DEF Choose, Goto, TypeOK, MarkInRows, Listing, lib, list
<1>14. CASE LeaveList
  BY <1>14 DEF LeaveList, Goto, TypeOK, MarkInRows, Listing, lib, list, Names
<1>15. CASE UNCHANGED vars
  BY <1>15 DEF vars, lib, list, keys, TypeOK, MarkInRows, Listing
<1> QED
  BY <1>1, <1>2, <1>3, <1>4, <1>5, <1>6, <1>7, <1>8, <1>9, <1>10, <1>11, <1>12,
     <1>13, <1>14, <1>15 DEF Next

-----------------------------------------------------------------------------
(* The names in the list.                                                  *)

\* t has the name k still to write: it waits for a result, or copies and has
\* not come to k.
Owes(t, k) == pc[t] \in {"waiting", "woken"} \/ (pc[t] = "copying" /\ i[t] <= k)

\* Without the reconnecting task, a name that is not that of the last result is
\* owed by a thread; and a scan on air has somebody who waits for it.
NamesOwed ==
  "auto" \notin session.scanners =>
    /\ pc["auto"] = "idle"
    /\ onAir => \E t \in Copiers : pc[t] = "waiting"
    /\ \A k \in Slots : k < wifiCount =>
         wifiList[k] = SSID(k) \/ \E t \in Copiers : Owes(t, k)

LEMMA NextNamesOwed ==
  ASSUME TypeOK, NamesOwed, [Next]_vars
  PROVE  NamesOwed'
<1> SUFFICES ASSUME "auto" \notin session'.scanners
             PROVE  /\ pc'["auto"] = "idle"
                    /\ onAir' => \E t \in Copiers : pc'[t] = "waiting"
                    /\ \A k \in Slots : k < wifiCount' =>
                         wifiList'[k] = SSID(k)' \/ \E t \in Copiers : Owes(t, k)'
  BY DEF NamesOwed
<1>1. UNCHANGED session
  BY DEF Next, vars
<1>2. /\ "auto" \notin session.scanners /\ pc["auto"] = "idle"
      /\ onAir => \E t \in Copiers : pc[t] = "waiting"
      /\ \A k \in Slots : k < wifiCount =>
           wifiList[k] = SSID(k) \/ \E t \in Copiers : Owes(t, k)
  BY <1>1 DEF NamesOwed
<1>3. /\ DOMAIN pc = Threads /\ Threads = Copiers \cup {"auto"} /\ "auto" \notin Copiers
      /\ wifiCount \in Int /\ Slots \subseteq Nat
      /\ i \in [Copiers -> Nat]
  BY MaxAssumption DEF TypeOK, Threads, Copiers, Slots
<1>4. ASSUME NEW t \in Threads, ScanStart(t) PROVE NamesOwed'
  <2>1. t \in Copiers
    BY <1>2, <1>3, <1>4 DEF ScanStart
  <2>2. pc' = [pc EXCEPT ![t] = "waiting"]
    BY <1>4 DEF ScanStart, Goto
  <2>3. pc'["auto"] = "idle" /\ pc'[t] = "waiting"
    BY <1>2, <1>3, <2>1, <2>2
  <2> QED
    BY <2>1, <2>3 DEF NamesOwed, Owes
<1>5. ASSUME NEW t \in Copiers, ScanRunning(t) \/ ScanRefused(t) PROVE NamesOwed'
  <2>1. wifiCount' \in {-1, -2} /\ UNCHANGED <<pc, onAir>>
    BY <1>5 DEF ScanRunning, ScanRefused, lib
  <2>2. ASSUME NEW k \in Slots PROVE ~(k < wifiCount')
    <3>1. k \in Nat
      BY <1>3
    <3>2. wifiCount' = -1 \/ wifiCount' = -2
      BY <2>1
    <3>3. (k < -1) = FALSE /\ (k < -2) = FALSE
      BY <3>1
    <3> QED
      BY <3>2, <3>3, Zenon
  <2> QED
    BY <1>2, <2>1, <2>2 DEF NamesOwed
<1>6. ASSUME NEW t \in Copiers, Found(t) PROVE NamesOwed'
  <2>1. /\ pc' = [pc EXCEPT ![t] = IF results = <<>> THEN "idle" ELSE "copying"]
        /\ wifiCount' = Len(results) /\ UNCHANGED onAir /\ pc[t] = "woken"
        /\ i' = [i EXCEPT ![t] = 0]
    BY <1>6 DEF Found, Goto, lib
  <2>2. pc'["auto"] = "idle"
    BY <1>2, <1>3, <2>1
  <2>3. onAir' => \E u \in Copiers : pc'[u] = "waiting"
    BY <1>2, <1>3, <2>1
  <2>4. CASE results = <<>>
    <3>1. wifiCount' = 0
      BY <2>1, <2>4
    <3> QED
      BY <1>3, <2>2, <2>3, <3>1 DEF NamesOwed
  <2>5. CASE results # <<>>
    <3>1. pc'[t] = "copying" /\ i'[t] = 0
      BY <1>3, <2>1, <2>5
    <3>2. \A k \in Slots : Owes(t, k)'
      BY <1>3, <3>1 DEF Owes
    <3> QED
      BY <2>2, <2>3, <3>2 DEF NamesOwed
  <2> QED
    BY <2>4, <2>5
<1>7. ASSUME NEW t \in Copiers, CopyName(t) PROVE NamesOwed'
  <2>1. /\ pc[t] = "copying" /\ UNCHANGED <<onAir, results, wifiCount>>
        /\ \A k \in Nat : SSID(k)' = SSID(k)
    BY <1>7 DEF CopyName, lib, SSID
  <2>2. CASE /\ i[t] < wifiCount /\ i[t] < MaxWifiList
             /\ wifiList' = [wifiList EXCEPT ![i[t]] = SSID(i[t])]
             /\ i' = [i EXCEPT ![t] = @ + 1]
             /\ UNCHANGED pc
    <3>1. ASSUME NEW k \in Slots, k < wifiCount'
          PROVE  wifiList'[k] = SSID(k)' \/ \E u \in Copiers : Owes(u, k)'
      <4>1. CASE k = i[t]
        BY <1>3, <2>1, <2>2, <4>1 DEF TypeOK
      <4>2. CASE k > i[t]
        <5>1. i'[t] <= k /\ pc'[t] = "copying"
          BY <1>3, <2>1, <2>2, <4>2
        <5> QED
          BY <5>1 DEF Owes
      <4>3. CASE k < i[t]
        <5>1. wifiList'[k] = wifiList[k]
          BY <1>3, <2>2, <4>3 DEF TypeOK
        <5>2. \A u \in Copiers : Owes(u, k) => u # t /\ Owes(u, k)'
          BY <1>3, <2>1, <2>2, <4>3 DEF Owes
        <5> QED
          BY <1>2, <1>3, <2>1, <3>1, <5>1, <5>2
      <4> QED
        BY <1>3, <4>1, <4>2, <4>3
    <3> QED
      BY <1>2, <2>1, <2>2, <3>1 DEF NamesOwed
  <2>3. CASE /\ i[t] >= wifiCount \/ i[t] >= MaxWifiList
             /\ pc' = [pc EXCEPT ![t] = "idle"]
             /\ i' = [i EXCEPT ![t] = 0]
             /\ UNCHANGED wifiList
    <3>1. ASSUME NEW k \in Slots, k < wifiCount', NEW u \in Copiers, Owes(u, k)
          PROVE  Owes(u, k)'
      <4>1. k < i[t]
        BY <1>3, <2>1, <2>3, <3>1, MaxAssumption DEF Slots
      <4>2. u # t
        BY <1>3, <2>1, <3>1, <4>1 DEF Owes
      <4> QED
        BY <1>3, <2>3, <3>1, <4>2 DEF Owes
    <3>2. pc'["auto"] = "idle"
      BY <1>2, <1>3, <2>3
    <3>3. onAir' => \E u \in Copiers : pc'[u] = "waiting"
      BY <1>2, <1>3, <2>1, <2>3
    <3>4. ASSUME NEW k \in Slots, k < wifiCount'
          PROVE  wifiList'[k] = SSID(k)' \/ \E u \in Copiers : Owes(u, k)'
      <4>1. wifiList[k] = SSID(k) \/ \E u \in Copiers : Owes(u, k)
        BY <1>2, <2>1, <3>4
      <4>2. SSID(k)' = SSID(k) /\ wifiList'[k] = wifiList[k]
        BY <1>3, <2>1, <2>3
      <4> QED
        BY <3>1, <3>4, <4>1, <4>2
    <3> QED
      BY <3>2, <3>3, <3>4 DEF NamesOwed
  <2> QED
    BY <1>7, <2>2, <2>3 DEF CopyName, Goto
<1>8. CASE ScanDone
  <2>1. PICK t \in Copiers : pc[t] = "waiting"
    BY <1>2, <1>8 DEF ScanDone
  <2>2. pc'[t] = "woken" /\ pc'["auto"] = "idle" /\ ~onAir'
    BY <1>2, <1>3, <1>8, <2>1 DEF ScanDone
  <2> QED
    BY <2>1, <2>2 DEF NamesOwed, Owes
<1>9. ~AutoDone /\ ~AutoRefused
  BY <1>2 DEF AutoDone, AutoRefused
\* The list's own steps: the loop neither waits nor copies before or after them.
<1>10. ASSUME UNCHANGED <<lib, list, i>>,
              \A t \in Threads \ {"loop"} : pc'[t] = pc[t],
              pc'["loop"] = pc["loop"]
                \/ {pc["loop"], pc'["loop"]} \cap {"waiting", "woken", "copying"} = {}
       PROVE  NamesOwed'
  <2>1. \A t \in Copiers : \A k \in Slots : Owes(t, k) => Owes(t, k)'
    BY <1>3, <1>10 DEF Owes, Copiers
  <2>2. pc'["auto"] = "idle"
    BY <1>2, <1>3, <1>10
  <2>3. onAir' => \E t \in Copiers : pc'[t] = "waiting"
    BY <1>2, <1>3, <1>10 DEF lib, Copiers
  <2>4. \A k \in Slots : SSID(k)' = SSID(k) /\ wifiList'[k] = wifiList[k]
    BY <1>10 DEF lib, list, SSID
  <2>5. wifiCount' = wifiCount
    BY <1>10 DEF list
  <2> QED
    BY <1>2, <2>1, <2>2, <2>3, <2>4, <2>5 DEF NamesOwed
<1>11. CASE ShowWiFiList \/ Draw \/ NoKey \/ MoveMark \/ Choose \/ LeaveList \/ BackToList
  <2>1. UNCHANGED <<lib, list, i>>
    BY <1>11 DEF ShowWiFiList, Draw, NoKey, MoveMark, Choose, LeaveList, BackToList, OpenList
  <2>2. /\ pc["loop"] \in {"idle", "draw", "key", "password"}
        /\ \E l \in {"idle", "draw", "key", "password"} : pc' = [pc EXCEPT !["loop"] = l]
    BY <1>11 DEF ShowWiFiList, Draw, NoKey, MoveMark, Choose, LeaveList, BackToList,
                 OpenList, Goto
  <2>3. "loop" \in Threads
    BY DEF Threads, Copiers
  <2>4. /\ \A t \in Threads \ {"loop"} : pc'[t] = pc[t]
        /\ {pc["loop"], pc'["loop"]} \cap {"waiting", "woken", "copying"} = {}
    BY <1>3, <2>2, <2>3
  <2> QED
    BY <1>10, <2>1, <2>4 DEF NamesOwed
<1>12. CASE UNCHANGED vars
  BY <1>10, <1>12 DEF vars, NamesOwed
<1> QED
  BY <1>1, <1>2, <1>4, <1>5, <1>6, <1>7, <1>8, <1>9, <1>11, <1>12 DEF Next, NamesOwed

-----------------------------------------------------------------------------
(* The network that was chosen.                                            *)

LoopAlone == session.scanners = {"loop"} /\ ~session.mayFail

\* With the loop alone, the list is open over at least the marked entry, and
\* the row of the mark shows it from the frame to the password.
AloneOwnsList ==
  LoopAlone =>
    /\ pc["web"] = "idle" /\ pc["auto"] = "idle"
    /\ scanning => pc["loop"] = "waiting"
    /\ Listing => selectedWiFi < wifiCount
    /\ pc["loop"] = "key" => rows[selectedWiFi - wifiMenuIndex] = NameAt(selectedWiFi)
    /\ wifiCount >= 0
    /\ ChosenMarked

LEMMA NextAlone ==
  ASSUME TypeOK, MarkInRows, AloneOwnsList, [Next]_vars
  PROVE  AloneOwnsList'
<1> SUFFICES ASSUME LoopAlone'
             PROVE  AloneOwnsList'
  BY DEF AloneOwnsList
<1>1. /\ LoopAlone /\ pc["web"] = "idle" /\ pc["auto"] = "idle" /\ wifiCount >= 0
      /\ scanning => pc["loop"] = "waiting"
      /\ Listing => selectedWiFi < wifiCount
      /\ pc["loop"] = "key" => rows[selectedWiFi - wifiMenuIndex] = NameAt(selectedWiFi)
      /\ ChosenMarked
  BY DEF Next, vars, LoopAlone, AloneOwnsList
<1>2. /\ DOMAIN pc = Threads /\ Threads = {"loop", "web", "auto"} /\ Copiers = {"loop", "web"}
      /\ wifiCount \in Int /\ selectedWiFi \in Nat /\ wifiMenuIndex \in Nat
  BY DEF TypeOK, Threads, Copiers
<1>3. ASSUME NEW t \in Threads, ScanStart(t) PROVE AloneOwnsList'
  <2>1. t = "loop" /\ pc' = [pc EXCEPT !["loop"] = "waiting"]
    BY <1>1, <1>3 DEF ScanStart, LoopAlone, Goto
  <2>2. pc'["loop"] = "waiting" /\ pc'["web"] = "idle" /\ pc'["auto"] = "idle"
    BY <1>1, <1>2, <2>1
  <2> QED
    BY <1>1, <1>3, <2>2 DEF ScanStart, AloneOwnsList, Listing, ChosenMarked, list
<1>4. ASSUME NEW t \in Copiers PROVE ~ScanRunning(t) /\ ~ScanRefused(t)
  BY <1>1 DEF ScanRunning, ScanRefused, LoopAlone
<1>5. ASSUME NEW t \in Copiers, Found(t) PROVE AloneOwnsList'
  <2>1. /\ t = "loop" /\ pc["loop"] = "woken"
        /\ \E l \in {"idle", "copying"} : pc' = [pc EXCEPT !["loop"] = l]
    BY <1>1, <1>2, <1>5 DEF Found, Goto
  <2>2. /\ pc'["loop"] \in {"idle", "copying"}
        /\ pc'["web"] = "idle" /\ pc'["auto"] = "idle"
    BY <1>1, <1>2, <2>1
  <2>3. wifiCount' >= 0
    <3>1. results \in Seq(Networks)
      <4>1. <<>> \in Seq(Networks)
        OBVIOUS
      <4> QED
        BY <4>1, FindingsAssumption, Zenon DEF TypeOK
    <3> QED
      BY <1>5, <3>1 DEF Found
  <2>4. ~scanning'
    BY <1>1, <1>5, <2>1 DEF Found, lib
  <2> QED
    BY <2>2, <2>3, <2>4 DEF AloneOwnsList, Listing, ChosenMarked
<1>6. ASSUME NEW t \in Copiers, CopyName(t) PROVE AloneOwnsList'
  <2>1. t = "loop" /\ pc["loop"] = "copying"
    BY <1>1, <1>2, <1>6 DEF CopyName
  <2>2. UNCHANGED pc \/ pc' = [pc EXCEPT !["loop"] = "idle"]
    BY <1>6, <2>1 DEF CopyName, Goto
  <2>3. /\ pc'["loop"] \in {"idle", "copying"}
        /\ pc'["web"] = "idle" /\ pc'["auto"] = "idle"
    BY <1>1, <1>2, <2>1, <2>2
  <2>4. ~scanning' /\ wifiCount' = wifiCount
    BY <1>1, <1>6, <2>1 DEF CopyName, lib
  <2> QED
    BY <1>1, <2>3, <2>4 DEF AloneOwnsList, Listing, ChosenMarked
<1>7. CASE ScanDone
  <2>1. /\ pc'["loop"] = (IF pc["loop"] = "waiting" THEN "woken" ELSE pc["loop"])
        /\ pc'["web"] = "idle" /\ pc'["auto"] = "idle"
    BY <1>1, <1>2, <1>7 DEF ScanDone
  <2>2. ~scanning' /\ UNCHANGED <<list, keys>>
    BY <1>7 DEF ScanDone
  <2>3. \A k : NameAt(k)' = NameAt(k)
    BY <2>2 DEF NameAt, list
  <2> QED
    BY <1>1, <2>1, <2>2, <2>3 DEF AloneOwnsList, Listing, ChosenMarked, list, keys
<1>8. ~AutoDone /\ ~AutoRefused
  BY <1>1 DEF AutoDone, AutoRefused, LoopAlone
<1>9. CASE ShowWiFiList \/ BackToList
  <2>1. /\ pc["loop"] \in {"idle", "password"} /\ UNCHANGED <<lib, list>> /\ selectedWiFi' = 0
        /\ pc' = [pc EXCEPT !["loop"] = IF wifiCount = 0 THEN "idle" ELSE "draw"]
    BY <1>9 DEF ShowWiFiList, BackToList, OpenList, Goto
  <2>2. /\ pc'["loop"] = (IF wifiCount = 0 THEN "idle" ELSE "draw")
        /\ pc'["web"] = "idle" /\ pc'["auto"] = "idle"
    BY <1>1, <1>2, <2>1
  <2>3. ~scanning' /\ wifiCount' = wifiCount
    BY <1>1, <2>1 DEF lib, list
  <2> QED
    BY <1>1, <1>2, <2>1, <2>2, <2>3 DEF AloneOwnsList, Listing, ChosenMarked
<1>10. CASE Draw
  <2>1. /\ pc["loop"] = "draw" /\ pc' = [pc EXCEPT !["loop"] = "key"]
        /\ UNCHANGED <<lib, list, selectedWiFi, wifiMenuIndex>>
    BY <1>10 DEF Draw, Goto
  <2>2. pc'["loop"] = "key" /\ pc'["web"] = "idle" /\ pc'["auto"] = "idle"
    BY <1>1, <1>2, <2>1
  <2>3. /\ selectedWiFi < wifiCount
        /\ selectedWiFi \in wifiMenuIndex..wifiMenuIndex + Rows - 1
    BY <1>1, <2>1 DEF Listing, MarkInRows
  <2>4. rows'[selectedWiFi - wifiMenuIndex] = NameAt(selectedWiFi)
    <3> DEFINE r == selectedWiFi - wifiMenuIndex
    <3>1. r \in 0..Rows - 1 /\ wifiMenuIndex + r = selectedWiFi
      BY <1>2, <2>3 DEF Rows
    <3>2. selectedWiFi \in Shown(wifiMenuIndex, wifiCount)
      BY <2>3 DEF Shown
    <3> QED
      BY <1>10, <3>1, <3>2 DEF Draw
  <2>5. NameAt(selectedWiFi)' = NameAt(selectedWiFi)
    BY <2>1 DEF NameAt, list
  <2>6. ~scanning' /\ wifiCount' = wifiCount
    BY <1>1, <2>1 DEF lib, list
  <2> QED
    BY <1>1, <2>1, <2>2, <2>3, <2>4, <2>5, <2>6 DEF AloneOwnsList, Listing, ChosenMarked
<1>11. CASE NoKey \/ MoveMark
  <2>1. /\ pc["loop"] = "key" /\ pc' = [pc EXCEPT !["loop"] = "draw"]
        /\ UNCHANGED <<lib, list>>
    BY <1>11 DEF NoKey, MoveMark, Goto
  <2>2. pc'["loop"] = "draw" /\ pc'["web"] = "idle" /\ pc'["auto"] = "idle"
    BY <1>1, <1>2, <2>1
  <2>3. selectedWiFi < wifiCount /\ selectedWiFi \in Nat
    BY <1>1, <1>2, <2>1 DEF Listing
  <2>4. selectedWiFi' < wifiCount
    BY <1>2, <1>11, <2>3 DEF NoKey, MoveMark, keys, SelUp, SelDown
  <2>5. ~scanning' /\ wifiCount' = wifiCount
    BY <1>1, <2>1 DEF lib, list
  <2> QED
    BY <1>1, <2>2, <2>4, <2>5 DEF AloneOwnsList, Listing, ChosenMarked
<1>12. CASE Choose
  <2>1. /\ pc["loop"] = "key" /\ pc' = [pc EXCEPT !["loop"] = "password"]
        /\ UNCHANGED <<lib, list, rows, selectedWiFi, wifiMenuIndex>>
        /\ chosen' = NameAt(selectedWiFi)
    BY <1>12 DEF Choose, Goto
  <2>2. pc'["loop"] = "password" /\ pc'["web"] = "idle" /\ pc'["auto"] = "idle"
    BY <1>1, <1>2, <2>1
  <2>3. ~scanning' /\ wifiCount' = wifiCount /\ selectedWiFi' < wifiCount
    BY <1>1, <2>1 DEF lib, list, Listing
  <2> QED
    BY <1>1, <2>1, <2>2, <2>3 DEF AloneOwnsList, ChosenMarked
<1>13. CASE LeaveList
  <2>1. /\ pc["loop"] \in {"key", "password"} /\ pc' = [pc EXCEPT !["loop"] = "idle"]
        /\ UNCHANGED <<lib, list>>
    BY <1>13 DEF LeaveList, Goto
  <2>2. pc'["loop"] = "idle" /\ pc'["web"] = "idle" /\ pc'["auto"] = "idle"
    BY <1>1, <1>2, <2>1
  <2>3. ~scanning' /\ wifiCount' = wifiCount
    BY <1>1, <2>1 DEF lib, list
  <2> QED
    BY <1>1, <2>2, <2>3 DEF AloneOwnsList, Listing, ChosenMarked
<1>14. CASE UNCHANGED vars
  BY <1>1, <1>14 DEF vars, lib, list, keys, AloneOwnsList, Listing, ChosenMarked, NameAt
<1> QED
  BY <1>3, <1>4, <1>5, <1>6, <1>7, <1>8, <1>9, <1>10, <1>11, <1>12, <1>13, <1>14 DEF Next

-----------------------------------------------------------------------------
\* Whatever scans find, and whatever the threads that scan do while the list is
\* open, the types hold and the marked entry is in one of the rows.
THEOREM WiFiListInvariant == Spec => []IInv
<1>1. Init => IInv
  BY InitIInv
<1>2. IInv /\ [Next]_vars => IInv'
  BY NextIInv
<1> QED
  BY <1>1, <1>2, PTL DEF Spec

\* The type invariant.
THEOREM WiFiListTyped == Spec => []TypeOK
BY WiFiListInvariant, PTL DEF IInv

\* The entry that key B takes is in one of the rows, whatever the threads make
\* of the count while the list is open, and however many networks are found.
THEOREM WiFiListMarkInRows == Spec => []MarkInRows
BY WiFiListInvariant, PTL DEF IInv

\* Without the reconnecting task, the loop and the console, scanning and
\* copying at the same time in any order, leave the names of the last scan in
\* the list, as many as it holds.
THEOREM WiFiListIsLastScan == Spec => []ListIsLastScan
<1>1. Init => NamesOwed
  BY MaxAssumption DEF Init, NamesOwed, Threads, Copiers, Slots
<1>2. IInv /\ NamesOwed /\ [Next]_vars => NamesOwed'
  BY NextNamesOwed DEF IInv
<1>3. NamesOwed => ListIsLastScan
  BY DEF NamesOwed, ListIsLastScan, Owes
<1> QED
  BY <1>1, <1>2, <1>3, WiFiListInvariant, PTL DEF Spec

\* With the loop alone and no refused scan, the password is asked for the
\* network that was marked in the last frame.
THEOREM WiFiListChosenMarked == Spec => []ChosenMarkedAlone
<1>1. Init => AloneOwnsList
  BY DEF Init, AloneOwnsList, Threads, Copiers, Listing, ChosenMarked
<1>2. IInv /\ AloneOwnsList /\ [Next]_vars => AloneOwnsList'
  BY NextAlone DEF IInv
<1>3. AloneOwnsList => ChosenMarkedAlone
  BY DEF AloneOwnsList, LoopAlone, ChosenMarkedAlone
<1> QED
  BY <1>1, <1>2, <1>3, WiFiListInvariant, PTL DEF Spec

-----------------------------------------------------------------------------
(* One scanner.                                                            *)
(*                                                                         *)
(* NamesSaved is violated when another thread scans (WiFiListAuto).  It    *)
(* holds while at most one thread scans, whichever it is, and whether or   *)
(* not its scans are refused.                                              *)

OneScanner == \E t \in Threads : session.scanners \subseteq {t}

Busy(t) == pc[t] \in {"waiting", "woken", "copying"}

\* Only the scanner is busy, a scan on air is its own, and so the result that it
\* copies stays as it was counted: what it has copied so far are names.
OwnResult ==
  OneScanner =>
    /\ \A t \in Threads : Busy(t) => t \in session.scanners
    /\ onAir => \E t \in session.scanners : t = "auto" \/ pc[t] = "waiting"
    /\ \A t \in Copiers : pc[t] = "copying" =>
         /\ wifiCount = Len(results)
         /\ \A k \in Slots : k < i[t] => wifiList[k] # NoName
    /\ (\A t \in Copiers : pc[t] # "copying")
         => \A k \in Slots : k < wifiCount => wifiList[k] # NoName

LEMMA NextOwnResult ==
  ASSUME NoName \notin Networks, TypeOK, OwnResult, [Next]_vars
  PROVE  OwnResult'
<1> SUFFICES ASSUME OneScanner' PROVE OwnResult'
  BY DEF OwnResult
<1>0. UNCHANGED session
  BY DEF Next, vars
<1>1. /\ OneScanner
      /\ \A t \in Threads : Busy(t) => t \in session.scanners
      /\ onAir => \E t \in session.scanners : t = "auto" \/ pc[t] = "waiting"
      /\ \A t \in Copiers : pc[t] = "copying" =>
           /\ wifiCount = Len(results)
           /\ \A k \in Slots : k < i[t] => wifiList[k] # NoName
      /\ (\A t \in Copiers : pc[t] # "copying")
           => \A k \in Slots : k < wifiCount => wifiList[k] # NoName
  BY <1>0 DEF OwnResult, OneScanner
<1>2. /\ DOMAIN pc = Threads /\ Threads = Copiers \cup {"auto"} /\ "auto" \notin Copiers
      /\ wifiCount \in Int /\ Slots \subseteq Nat /\ i \in [Copiers -> Nat]
      /\ wifiList \in [Slots -> Names] /\ results \in Seq(Networks)
      /\ "loop" \in Copiers
  BY MaxAssumption, ResultsNames DEF TypeOK, Threads, Copiers, Slots
<1>3. ASSUME NEW t \in session.scanners, NEW u \in Threads, Busy(u) PROVE u = t
  BY <1>1, <1>3 DEF OneScanner
\* Steps of the scanner, or the radio's, while it does not copy, and which leave
\* it so; steps of the list.
<1>4. ASSUME \A t \in Copiers : pc'[t] = "copying" => pc[t] = "copying",
             \A t \in Copiers : pc[t] = "copying" =>
                 UNCHANGED <<pc[t], results, i, wifiCount>>,
             wifiList' = wifiList,
             wifiCount' \in {wifiCount, -1, -2},
             \A t \in Threads : Busy(t)' => t \in session.scanners,
             onAir' => \E t \in session.scanners : t = "auto" \/ pc'[t] = "waiting"
      PROVE  OwnResult'
  <2>1. \A t \in Copiers : pc'[t] = "copying" =>
           /\ wifiCount' = Len(results')
           /\ \A k \in Slots : k < i'[t] => wifiList'[k] # NoName
    BY <1>1, <1>4
  <2>2. ASSUME \A t \in Copiers : pc'[t] # "copying", NEW k \in Slots, k < wifiCount'
        PROVE  wifiList'[k] # NoName
    <3>1. \A t \in Copiers : pc[t] # "copying"
      BY <1>4, <2>2
    <3>2. wifiCount' = wifiCount
      <4>1. k \in Nat
        BY <1>2
      <4>2. wifiCount' # -1 /\ wifiCount' # -2
        <5>1. (k < -1) = FALSE /\ (k < -2) = FALSE
          BY <4>1
        <5> QED
          BY <2>2, <5>1, Zenon
      <4> QED
        BY <1>4, <4>2
    <3> QED
      BY <1>1, <1>4, <2>2, <3>1, <3>2
  <2> QED
    BY <1>0, <1>4, <2>1, <2>2 DEF OwnResult
<1>5. ASSUME NEW t \in Threads, ScanStart(t) PROVE OwnResult'
  <2>1. /\ t \in session.scanners /\ pc[t] = "idle" /\ pc' = [pc EXCEPT ![t] = "waiting"]
        /\ UNCHANGED list
    BY <1>5 DEF ScanStart, Goto
  <2>2. \A u \in Threads : ~Busy(u)
    BY <1>3, <2>1 DEF Busy
  <2>3. /\ \A u \in Threads : u # t => pc'[u] = pc[u]
        /\ pc'[t] = "waiting"
    BY <1>2, <2>1
  <2> QED
    BY <1>2, <1>4, <2>1, <2>2, <2>3 DEF Busy, list
<1>6. ASSUME NEW t \in Copiers, ScanRunning(t) \/ ScanRefused(t) PROVE OwnResult'
  <2>1. /\ t \in session.scanners /\ pc[t] = "idle"
        /\ wifiCount' \in {-1, -2} /\ UNCHANGED <<pc, onAir, wifiList>>
    BY <1>6 DEF ScanRunning, ScanRefused, lib
  <2>2. \A u \in Threads : ~Busy(u)
    BY <1>3, <2>1 DEF Busy
  <2> QED
    BY <1>1, <1>2, <1>4, <2>1, <2>2 DEF Busy
<1>7. ASSUME NEW t \in Copiers, Busy(t), pc[t] # "waiting",
             UNCHANGED onAir,
             \A u \in Threads : u # t => pc'[u] = pc[u]
      PROVE  /\ \A u \in Threads : Busy(u)' => u \in session.scanners
             /\ ~onAir'
             /\ \A u \in Copiers : u # t => pc'[u] # "copying"
  <2>1. t \in session.scanners /\ \A u \in session.scanners : u = t
    BY <1>1, <1>2, <1>7, <1>3
  <2>2. \A u \in Threads : u # t => ~Busy(u)
    BY <1>3, <2>1
  <2> QED
    BY <1>1, <1>2, <1>7, <2>1, <2>2 DEF Busy
<1>8. ASSUME NEW t \in Copiers, Found(t) PROVE OwnResult'
  <2>1. /\ pc[t] = "woken" /\ UNCHANGED <<onAir, results, wifiList>> /\ wifiCount' = Len(results)
        /\ i' = [i EXCEPT ![t] = 0]
        /\ pc' = [pc EXCEPT ![t] = IF results = <<>> THEN "idle" ELSE "copying"]
    BY <1>8 DEF Found, Goto, lib
  <2>2. \A u \in Threads : u # t => pc'[u] = pc[u]
    BY <1>2, <2>1
  <2>3. /\ \A u \in Threads : Busy(u)' => u \in session.scanners
        /\ ~onAir'
        /\ \A u \in Copiers : u # t => pc'[u] # "copying"
    BY <1>7, <2>1, <2>2 DEF Busy
  <2>4. i'[t] = 0
    BY <1>2, <2>1
  <2>5. pc'[t] # "copying" => wifiCount' = 0
    BY <1>2, <2>1
  <2>6. \A k \in Slots : ~(k < 0)
    BY <1>2
  <2> QED
    BY <1>0, <2>1, <2>3, <2>4, <2>5, <2>6 DEF OwnResult
<1>9. ASSUME NEW t \in Copiers, CopyName(t) PROVE OwnResult'
  <2>1. /\ pc[t] = "copying" /\ UNCHANGED <<onAir, results, wifiCount>>
        /\ wifiCount = Len(results) /\ \A k \in Slots : k < i[t] => wifiList[k] # NoName
        /\ i[t] \in Nat
    BY <1>1, <1>2, <1>9 DEF CopyName, lib
  <2>2. UNCHANGED pc \/ pc' = [pc EXCEPT ![t] = "idle"]
    BY <1>9 DEF CopyName, Goto
  <2>3. \A u \in Threads : u # t => pc'[u] = pc[u]
    BY <1>2, <2>2
  <2>4. /\ \A u \in Threads : Busy(u)' => u \in session.scanners
        /\ ~onAir'
        /\ \A u \in Copiers : u # t => pc'[u] # "copying"
    BY <1>7, <2>1, <2>3 DEF Busy
  <2>5. CASE /\ i[t] < wifiCount /\ i[t] < MaxWifiList
             /\ wifiList' = [wifiList EXCEPT ![i[t]] = SSID(i[t])]
             /\ i' = [i EXCEPT ![t] = @ + 1]
             /\ UNCHANGED pc
    <3>1. SSID(i[t]) \in Networks
      BY <1>2, <2>1, <2>5 DEF SSID
    <3>2. \A k \in Slots : k < i'[t] => wifiList'[k] # NoName
      <4> SUFFICES ASSUME NEW k \in Slots, k < i'[t] PROVE wifiList'[k] # NoName
        OBVIOUS
      <4>1. i'[t] = i[t] + 1 /\ k \in Nat
        BY <1>2, <2>5
      <4>2. wifiList'[k] = IF k = i[t] THEN SSID(i[t]) ELSE wifiList[k]
        BY <1>2, <2>5
      <4>3. k # i[t] => k < i[t]
        BY <2>1, <4>1
      <4> QED
        BY <2>1, <3>1, <4>2, <4>3
    <3>3. pc'[t] = "copying"
      BY <2>1, <2>5
    <3> QED
      BY <1>0, <2>1, <2>4, <3>2, <3>3 DEF OwnResult
  <2>6. CASE /\ i[t] >= wifiCount \/ i[t] >= MaxWifiList
             /\ pc' = [pc EXCEPT ![t] = "idle"]
             /\ UNCHANGED wifiList
    <3>1. \A k \in Slots : k < wifiCount' => wifiList'[k] # NoName
      BY <1>2, <2>1, <2>6, MaxAssumption DEF Slots
    <3>2. pc'[t] # "copying"
      BY <1>2, <2>6
    <3> QED
      BY <1>0, <2>4, <3>1, <3>2 DEF OwnResult
  <2> QED
    BY <1>9, <2>5, <2>6 DEF CopyName, Goto
<1>10. CASE ScanDone
  <2>1. PICK t \in session.scanners : t = "auto" \/ pc[t] = "waiting"
    BY <1>1, <1>10 DEF ScanDone
  <2>2. \A u \in Copiers : pc[u] # "copying"
    BY <1>2, <1>3, <2>1 DEF Busy
  <2>3. /\ ~onAir' /\ UNCHANGED list
        /\ \A u \in Threads : pc'[u] = IF pc[u] = "waiting" THEN "woken" ELSE pc[u]
    BY <1>10 DEF ScanDone
  <2> QED
    BY <1>1, <1>2, <1>4, <2>2, <2>3 DEF Busy, list
<1>11. CASE AutoDone \/ AutoRefused
  <2>1. /\ "auto" \in session.scanners /\ UNCHANGED list
        /\ pc' \in {pc, [pc EXCEPT !["auto"] = "idle"]}
    BY <1>1, <1>2, <1>11 DEF AutoDone, AutoRefused, Goto, Busy
  <2>2. \A u \in Copiers : pc[u] # "copying"
    BY <1>2, <1>3, <2>1 DEF Busy
  <2>3. \A u \in Threads : pc'[u] = pc[u] \/ pc'[u] = "idle"
    BY <1>2, <2>1
  <2> QED
    BY <1>1, <1>2, <1>4, <2>1, <2>2, <2>3 DEF Busy, list
\* The list's own steps: the loop neither waits nor copies before or after them.
<1>12. CASE ShowWiFiList \/ Draw \/ NoKey \/ MoveMark \/ Choose \/ LeaveList \/ BackToList
  <2>1. UNCHANGED <<lib, list, i>>
    BY <1>12 DEF ShowWiFiList, Draw, NoKey, MoveMark, Choose, LeaveList, BackToList, OpenList
  <2>2. /\ pc["loop"] \in {"idle", "draw", "key", "password"}
        /\ \E l \in {"idle", "draw", "key", "password"} : pc' = [pc EXCEPT !["loop"] = l]
    BY <1>12 DEF ShowWiFiList, Draw, NoKey, MoveMark, Choose, LeaveList, BackToList,
                 OpenList, Goto
  <2>3. /\ \A t \in Threads \ {"loop"} : pc'[t] = pc[t]
        /\ pc'["loop"] \in {"idle", "draw", "key", "password"}
    BY <1>2, <2>2
  <2>4. \A t \in Threads : Busy(t)' => Busy(t)
    BY <2>3 DEF Busy
  <2>5. onAir' => \E t \in session.scanners : t = "auto" \/ pc'[t] = "waiting"
    <3>1. session.scanners \subseteq Threads
      BY <1>1, SessionsAssumption DEF OneScanner
    <3> QED
      BY <1>1, <2>1, <2>2, <2>3, <3>1 DEF lib
  <2> QED
    BY <1>1, <1>2, <1>4, <2>1, <2>2, <2>3, <2>4, <2>5 DEF lib, list
<1>13. CASE UNCHANGED vars
  BY <1>1, <1>13 DEF vars, lib, list, OwnResult, OneScanner, Busy
<1> QED
  BY <1>5, <1>6, <1>8, <1>9, <1>10, <1>11, <1>12, <1>13 DEF Next

\* What a finished scan has put in the list are names of networks, if at most
\* one thread scans: it is the scan of another that empties the result while the
\* names are copied, and violates NamesSaved.
THEOREM WiFiListNamesSaved ==
  ASSUME NoName \notin Networks
  PROVE  Spec /\ []OneScanner => []NamesSaved
<1>1. Init => OwnResult
  BY MaxAssumption DEF Init, OwnResult, Busy, Threads, Copiers, Slots
<1>2. IInv /\ OwnResult /\ [Next]_vars => OwnResult'
  BY NextOwnResult DEF IInv
<1>3. OwnResult /\ OneScanner => NamesSaved
  BY DEF OwnResult, NamesSaved, Copiers
<1> QED
  BY <1>1, <1>2, <1>3, WiFiListInvariant, PTL DEF Spec
=============================================================================
