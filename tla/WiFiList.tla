------------------------------ MODULE WiFiList ------------------------------
(***************************************************************************)
(* Scanning for networks, by three threads, and choosing one of them with  *)
(* the keys: scanWiFi(), showWiFiList(), enterWiFiPassword()               *)
(* (src/main/SettingWifi.h), the command "scan wifi" of the web console    *)
(* (src/main/deviceServer.h), and the scans that WiFiMulti makes for the   *)
(* task WiFiAutoConnect.                                                   *)
(*                                                                         *)
(* The library keeps one result for all of them (_scanResult) and refuses  *)
(* a scan while another runs; the loop and the web command then copy the   *)
(* names one by one into the global wifiList, up to the global wifiCount,  *)
(* with no lock.  A scan and its answer are one step: nothing can scan     *)
(* again between the return of scanNetworks and the assignment.            *)
(***************************************************************************)
EXTENDS ListWindow, Sequences

CONSTANTS
  Networks,     \* names of networks
  Findings,     \* what a scan may find: sequences of names
  MaxWifiList,  \* MAX_WIFI_LIST, the size of wifiList
  Sessions,     \* what may be going on: which threads scan, whether scans fail
  NoName,       \* the empty String
  Blank,        \* a row with nothing drawn
  Outside       \* what is read behind the array

Copiers == {"loop", "web"}
Threads == Copiers \cup {"auto"}

ASSUME FindingsAssumption == Findings \subseteq Seq(Networks)
ASSUME MaxAssumption == MaxWifiList \in Nat \ {0}
ASSUME SessionsAssumption == Sessions \subseteq [scanners : SUBSET Threads, mayFail : BOOLEAN]

VARIABLES
  session,        \* one of Sessions, for good: the threads that scan, and
                  \* whether esp_wifi_scan_start may refuse (as it does while
                  \* the station connects)
  scanning,       \* WIFI_SCANNING_BIT
  onAir,          \* the radio scans, whatever the bit says
  results,        \* _scanResult
  wifiCount,      \* networks found; -1 "running" and -2 "failed" included
  wifiList,       \* their names
  pc,             \* where each thread is
  i,              \* loop variable of the thread that copies the names
  selectedWiFi,   \* the marked entry of the list
  wifiMenuIndex,  \* the entry in the top row
  rows,           \* the names in the rows of the last frame
  chosen          \* parameter of enterWiFiPassword, NoName when not called

lib  == <<scanning, onAir, results>>
list == <<wifiCount, wifiList>>
keys == <<selectedWiFi, wifiMenuIndex, rows, chosen>>
vars == <<session, lib, list, pc, i, keys>>

Slots == 0..MaxWifiList - 1

Init ==
  /\ session \in Sessions
  /\ scanning = FALSE /\ onAir = FALSE /\ results = <<>>
  /\ wifiCount = 0
  /\ wifiList = [k \in Slots |-> NoName]
  /\ pc = [t \in Threads |-> "idle"]
  /\ i = [t \in Copiers |-> 0]
  /\ selectedWiFi = 0 /\ wifiMenuIndex = 0
  /\ rows = [r \in 0..Rows - 1 |-> Blank]
  /\ chosen = NoName

-----------------------------------------------------------------------------
(* WiFiScanClass, called by the three threads.                             *)

\* SSID(k): no String when there is no such result, or no result any more.
SSID(k) == IF k < Len(results) THEN results[k + 1] ELSE NoName

Goto(t, label) == pc' = [pc EXCEPT ![t] = label]

\* scanNetworks while another scan runs returns -1 at once.
ScanRunning(t) ==
  /\ t \in session.scanners \cap Copiers /\ pc[t] = "idle"
  /\ scanning
  /\ wifiCount' = -1
  /\ UNCHANGED <<lib, wifiList, pc, i, keys>>

\* scanDelete() and the start of the scan.
ScanStart(t) ==
  /\ t \in session.scanners /\ pc[t] = "idle"
  /\ ~scanning
  /\ results' = <<>> /\ scanning' = TRUE /\ onAir' = TRUE
  /\ Goto(t, "waiting")
  /\ UNCHANGED <<list, i, keys>>

\* The start is refused: -2, with the old result deleted.
ScanRefused(t) ==
  /\ session.mayFail
  /\ t \in session.scanners \cap Copiers /\ pc[t] = "idle"
  /\ ~scanning
  /\ results' = <<>>
  /\ wifiCount' = -2
  /\ UNCHANGED <<scanning, onAir, wifiList, pc, i, keys>>

\* _scanDone(): the result is kept and whoever waits for it is woken.
ScanDone ==
  /\ onAir
  /\ onAir' = FALSE /\ scanning' = FALSE
  /\ results' \in Findings
  /\ pc' = [t \in Threads |-> IF pc[t] = "waiting" THEN "woken" ELSE pc[t]]
  /\ UNCHANGED <<list, i, keys>>

\* wifiCount = scanNetworks(), for the loop and for the web command.
Found(t) ==
  /\ t \in Copiers /\ pc[t] = "woken"
  /\ wifiCount' = Len(results)
  /\ i' = [i EXCEPT ![t] = 0]
  /\ Goto(t, IF results = <<>> THEN "idle" ELSE "copying")
  /\ UNCHANGED <<lib, wifiList, keys>>

\* Mutant of CopyName: the bound of the array is taken for its last index.
CopyNamePast(t) ==
  /\ pc[t] = "copying"
  /\ \/ /\ i[t] < wifiCount /\ i[t] <= MaxWifiList
        /\ wifiList' = [wifiList EXCEPT ![i[t]] = SSID(i[t])]
        /\ i' = [i EXCEPT ![t] = @ + 1]
        /\ UNCHANGED pc
     \/ /\ i[t] >= wifiCount \/ i[t] > MaxWifiList
        /\ Goto(t, "idle")
        /\ i' = [i EXCEPT ![t] = 0]
        /\ UNCHANGED wifiList
  /\ UNCHANGED <<lib, wifiCount, keys>>

\* Mutant of CopyName: the loop ends one name early.
CopyNameShort(t) ==
  /\ pc[t] = "copying"
  /\ \/ /\ i[t] < wifiCount - 1 /\ i[t] < MaxWifiList
        /\ wifiList' = [wifiList EXCEPT ![i[t]] = SSID(i[t])]
        /\ i' = [i EXCEPT ![t] = @ + 1]
        /\ UNCHANGED pc
     \/ /\ i[t] >= wifiCount - 1 \/ i[t] >= MaxWifiList
        /\ Goto(t, "idle")
        /\ i' = [i EXCEPT ![t] = 0]
        /\ UNCHANGED wifiList
  /\ UNCHANGED <<lib, wifiCount, keys>>

\* One turn of for (i = 0; i < wifiCount && i < MAX_WIFI_LIST; i++).
CopyName(t) ==
  /\ pc[t] = "copying"
  /\ \/ /\ i[t] < wifiCount /\ i[t] < MaxWifiList
        /\ wifiList' = [wifiList EXCEPT ![i[t]] = SSID(i[t])]
        /\ i' = [i EXCEPT ![t] = @ + 1]
        /\ UNCHANGED pc
     \/ /\ i[t] >= wifiCount \/ i[t] >= MaxWifiList
        /\ Goto(t, "idle")
        /\ i' = [i EXCEPT ![t] = 0]
        /\ UNCHANGED wifiList
  /\ UNCHANGED <<lib, wifiCount, keys>>

\* WiFiMulti::run() has looked through its result: scanDelete(), which clears
\* the bit of a scan that another thread has started meanwhile.
AutoDone ==
  /\ pc["auto"] = "woken"
  /\ results' = <<>> /\ scanning' = FALSE
  /\ Goto("auto", "idle")
  /\ UNCHANGED <<onAir, list, i, keys>>

\* Its scan is refused: it disconnects and starts one that nobody waits for.
AutoRefused ==
  /\ session.mayFail
  /\ "auto" \in session.scanners /\ pc["auto"] = "idle"
  /\ ~scanning
  /\ results' = <<>>
  /\ \/ scanning' = TRUE /\ onAir' = TRUE
     \/ UNCHANGED <<scanning, onAir>>
  /\ UNCHANGED <<list, pc, i, keys>>

-----------------------------------------------------------------------------
(* The list, on the loop.                                                  *)

OpenList ==
  /\ selectedWiFi' = 0 /\ wifiMenuIndex' = 0 /\ chosen' = NoName
  /\ Goto("loop", IF wifiCount = 0 THEN "idle" ELSE "draw")
  /\ UNCHANGED <<lib, list, i, rows>>

\* WiFi / Connect in the menu; "No network found." with wifiCount = 0.
ShowWiFiList == pc["loop"] = "idle" /\ OpenList

NameAt(k) == IF k \in Slots THEN wifiList[k] ELSE Outside

\* A frame: the rows up to wifiCount.
Draw ==
  /\ pc["loop"] = "draw"
  /\ rows' = [r \in 0..Rows - 1 |->
                IF wifiMenuIndex + r \in Shown(wifiMenuIndex, wifiCount)
                THEN NameAt(wifiMenuIndex + r) ELSE Blank]
  /\ Goto("loop", "key")
  /\ UNCHANGED <<lib, list, i, selectedWiFi, wifiMenuIndex, chosen>>

\* No key, or one that does nothing: the next frame.
NoKey ==
  /\ pc["loop"] = "key"
  /\ Goto("loop", "draw")
  /\ UNCHANGED <<lib, list, i, keys>>

MoveMark ==
  /\ pc["loop"] = "key"
  /\ \/ /\ selectedWiFi' = SelUp(selectedWiFi)
        /\ wifiMenuIndex' = TopUp(selectedWiFi, wifiMenuIndex)
     \/ /\ selectedWiFi' = SelDown(selectedWiFi, wifiCount)
        /\ wifiMenuIndex' = TopDown(selectedWiFi, wifiMenuIndex, wifiCount)
  /\ Goto("loop", "draw")
  /\ UNCHANGED <<lib, list, i, rows, chosen>>

\* Mutant of Choose: the row is taken for the entry.
ChooseRow ==
  /\ pc["loop"] = "key"
  /\ chosen' = NameAt(selectedWiFi - wifiMenuIndex)
  /\ Goto("loop", "password")
  /\ UNCHANGED <<lib, list, i, selectedWiFi, wifiMenuIndex, rows>>

\* Key B: enterWiFiPassword(wifiList[selectedWiFi]).
Choose ==
  /\ pc["loop"] = "key"
  /\ chosen' = NameAt(selectedWiFi)
  /\ Goto("loop", "password")
  /\ UNCHANGED <<lib, list, i, selectedWiFi, wifiMenuIndex, rows>>

\* Key D in the list, or a password was given and connectWifi has returned.
LeaveList ==
  /\ pc["loop"] \in {"key", "password"}
  /\ chosen' = NoName
  /\ Goto("loop", "idle")
  /\ UNCHANGED <<lib, list, i, selectedWiFi, wifiMenuIndex, rows>>

\* "EXIT" from the prompt: a new list; the old one ends when it returns.
BackToList == pc["loop"] = "password" /\ OpenList

Next ==
  /\ \/ \E t \in Threads : ScanStart(t)
     \/ \E t \in Copiers : ScanRunning(t) \/ ScanRefused(t) \/ Found(t) \/ CopyName(t)
     \/ ScanDone \/ AutoDone \/ AutoRefused
     \/ ShowWiFiList \/ Draw \/ NoKey \/ MoveMark \/ Choose \/ LeaveList \/ BackToList
  /\ UNCHANGED session

Spec == Init /\ [][Next]_vars

-----------------------------------------------------------------------------
(* Properties.                                                             *)

Names == Networks \cup {NoName}

\* The variables keep to their types: whatever another thread makes of
\* wifiCount while a thread copies, its index stays within the array or just
\* behind it.
TypeOK ==
  /\ scanning \in BOOLEAN /\ onAir \in BOOLEAN
  /\ results \in Findings \cup {<<>>}
  /\ wifiCount \in Nat \cup {-1, -2}
  /\ wifiList \in [Slots -> Names]
  /\ pc \in [Threads -> {"idle", "waiting", "woken", "copying", "draw", "key", "password"}]
  /\ i \in [Copiers -> 0..MaxWifiList]
  /\ selectedWiFi \in Nat /\ wifiMenuIndex \in Nat
  /\ rows \in [0..Rows - 1 -> Names \cup {Blank, Outside}]
  /\ chosen \in Names \cup {Outside}

Listing == pc["loop"] \in {"draw", "key", "password"}

\* Whatever the other threads make of wifiCount while the list is open, and
\* however many networks a scan finds, the entry that B takes is in one of the
\* three rows.
MarkInRows == Listing => selectedWiFi \in wifiMenuIndex..wifiMenuIndex + Rows - 1

\* Without the reconnecting task, once no thread scans or copies, the names
\* that are listed are those of one scan, the last: the loop and the web
\* command, copying at the same time, leave no mixture.
ListIsLastScan ==
  "auto" \notin session.scanners
    /\ (\A t \in Copiers : pc[t] \notin {"waiting", "woken", "copying"})
      => \A k \in Slots : k < wifiCount => wifiList[k] = SSID(k)

\* SettingWifi.h:169 "show the WiFi list, choose and enter the password": the
\* password that is asked for is that of the network marked in the last frame.
ChosenMarked ==
  pc["loop"] = "password" => rows[selectedWiFi - wifiMenuIndex] = chosen

\* It is, when nobody else scans and no scan is refused.
ChosenMarkedAlone ==
  session.scanners = {"loop"} /\ ~session.mayFail => ChosenMarked

\* SettingWifi.h:157 "save the SSID": what a finished scan has put in the list
\* are names of networks.
NamesSaved ==
  pc["loop"] # "copying" /\ pc["web"] # "copying"
    => \A k \in Slots : k < wifiCount => wifiList[k] # NoName
=============================================================================
