------------------------- MODULE ConnectivityProofs -------------------------
(***************************************************************************)
(* Proofs about Connectivity, for any number of tasks that connect, any    *)
(* number of retries and every world.                                      *)
(*                                                                         *)
(* ServesWhenOnline speaks of the moments when every thread is idle.  It   *)
(* holds because, as long as the server is down and the device believes it *)
(* is on line, some thread is still bound either to begin the server or to *)
(* take the belief back: that is the inductive invariant.                  *)
(***************************************************************************)
EXTENDS Connectivity, TLAPS

\* The labels from which a thread goes on to check the link.
Connecting == {"run", "scan", "refused", "begin", "wait", "check", "serve"}

\* Without a web console its thread never moves.
WebRests == "web" \notin world => ~client /\ pc[Web] = "idle"

\* With the server down, the flag set and the station linked or about to be,
\* a thread is connecting: it will serve, or clear the flag.
StationServed ==
  "web" \notin world /\ ~listening /\ WifiStatus /\ sta \in {"joining", "linked"}
    => \E t \in Threads \ {Web} : pc[t] \in Connecting

\* With the server down in AP mode, the loop is about to serve, or to end the
\* access point.
AccessPointServed ==
  /\ world \cap {"web", "ap"} = {}
  /\ ~listening /\ isAPMode /\ ap
  => pc[Loop] \in {"begin", "softAP", "serveAP"}

IInv == TypeOK /\ WebRests /\ StationServed /\ AccessPointServed

-----------------------------------------------------------------------------
LEMMA ThreadFacts ==
  /\ Loop \in Threads /\ Web \in Threads /\ Loop # Web
  /\ Autos \subseteq Threads /\ Loop \notin Autos /\ Web \notin Autos
  /\ bootTask \in Autos /\ MaxRetry \in Nat
BY AutosAssumption, RetryAssumption DEF Threads, Loop, Web

\* A boot leaves everything off and one task about to connect.
LEMMA BootedIInv ==
  ASSUME world \in SUBSET Hardships,
         Booted(left, sta, ap, listening, client, WifiStatus, isAPMode, pc, retry,
                allFailed)
  PROVE  IInv
<1> USE ThreadFacts
<1>1. pc \in [Threads -> Labels] /\ retry \in [Autos -> 0..MaxRetry]
  BY DEF Booted, Labels
<1>2. \A t \in Threads : /\ pc[t] \in {"run", "scan", "refused"} => t \in Autos
                         /\ pc[t] \in {"softAP", "serveAP"} => t = Loop
  BY DEF Booted
<1>3. TypeOK
  BY <1>1, <1>2 DEF Booted, TypeOK
<1>4. WebRests
  BY DEF Booted, WebRests
<1>5. StationServed /\ AccessPointServed
  BY DEF Booted, StationServed, AccessPointServed
<1> QED
  BY <1>3, <1>4, <1>5 DEF IInv

\* The flags, as far as their type is concerned.
Bools ==
  /\ left \in BOOLEAN /\ ap \in BOOLEAN /\ listening \in BOOLEAN
  /\ client \in BOOLEAN /\ WifiStatus \in BOOLEAN /\ isAPMode \in BOOLEAN
  /\ allFailed \in BOOLEAN

\* A thread that goes to a label of its own keeps pc typed.
LEMMA GotoTyped ==
  ASSUME TypeOK, NEW t \in Threads, NEW label \in Labels, Goto(t, label),
         label \in {"run", "scan", "refused"} => t \in Autos,
         label \in {"softAP", "serveAP"} => t = Loop
  PROVE  /\ pc' \in [Threads -> Labels]
         /\ \A u \in Threads : /\ pc'[u] \in {"run", "scan", "refused"} => u \in Autos
                               /\ pc'[u] \in {"softAP", "serveAP"} => u = Loop
         /\ pc'[t] = label
         /\ \A u \in Threads \ {t} : pc'[u] = pc[u]
BY DEF TypeOK, Goto

\* Steps of the radio: no thread moves.
LEMMA RadioIInv ==
  ASSUME IInv, UNCHANGED world, LinkUp \/ JoinFails \/ LinkDrops
  PROVE  IInv'
<1>1. UNCHANGED <<world, left, ap, server, flags, pc, retry, allFailed>>
  BY DEF LinkUp, JoinFails, LinkDrops
<1>2. /\ sta' \in {"idle", "joining", "linked"}
      /\ sta' \in {"joining", "linked"} => sta \in {"joining", "linked"}
  BY DEF LinkUp, JoinFails, LinkDrops
<1>3. Bools'
  BY <1>1, Zenon DEF IInv, TypeOK, Bools, server, flags
<1>4. TypeOK'
  BY <1>1, <1>2, <1>3 DEF IInv, TypeOK, Bools
<1>5. WebRests' /\ AccessPointServed'
  BY <1>1 DEF IInv, WebRests, AccessPointServed, server, flags
<1>6. StationServed'
  BY <1>1, <1>2 DEF IInv, StationServed, server, flags
<1> QED
  BY <1>4, <1>5, <1>6 DEF IInv

\* A thread that connects and goes on connecting, whatever it does to the
\* station: it remains the one that will serve or clear the flag.
LEMMA AdvanceIInv ==
  ASSUME IInv, NEW t \in Threads, NEW label \in Connecting,
         pc[t] \in Connecting, Goto(t, label), label \in {"run", "scan", "refused"} => t \in Autos,
         UNCHANGED <<world, left, server, flags>>,
         sta' \in {"off", "idle", "joining", "linked"},
         ap' = ap \/ ap' = FALSE,
         t = Loop /\ pc[t] = "begin" => ~ap',
         retry' \in [Autos -> 0..MaxRetry],
         allFailed' \in BOOLEAN
  PROVE  IInv'
<1> USE ThreadFacts
<1>1. Bools'
  <2>1. ap' \in BOOLEAN
    BY DEF IInv, TypeOK
  <2> QED
    BY <2>1, Zenon DEF IInv, TypeOK, Bools, server, flags
<1>2. /\ pc' \in [Threads -> Labels]
      /\ \A u \in Threads : /\ pc'[u] \in {"run", "scan", "refused"} => u \in Autos
                            /\ pc'[u] \in {"softAP", "serveAP"} => u = Loop
      /\ pc'[t] = label
      /\ \A u \in Threads \ {t} : pc'[u] = pc[u]
  BY GotoTyped DEF IInv, Labels, Connecting
<1>3. TypeOK'
  BY <1>1, <1>2 DEF IInv, TypeOK, Bools
<1>4. "web" \notin world => t # Web
  BY DEF IInv, WebRests, Connecting
<1>5. WebRests'
  BY <1>2, <1>4 DEF IInv, WebRests, server
<1>6. StationServed'
  BY <1>2, <1>4 DEF StationServed
<1>7. AccessPointServed'
  BY <1>2 DEF IInv, AccessPointServed, server, flags, Connecting
<1> QED
  BY <1>3, <1>5, <1>6, <1>7 DEF IInv

\* while (...) another run(), or the end of the tries.
LEMMA AgainTyped ==
  ASSUME TypeOK, NEW t \in Autos, Again(t)
  PROVE  /\ Goto(t, "run") \/ Goto(t, "check")
         /\ retry' \in [Autos -> 0..MaxRetry]
<1>1. CASE retry[t] < MaxRetry
  <2>1. retry' = [retry EXCEPT ![t] = @ + 1] /\ Goto(t, "run")
    BY <1>1 DEF Again
  <2>2. retry[t] + 1 \in 0..MaxRetry
    BY <1>1, ThreadFacts DEF TypeOK
  <2> QED
    BY <2>1, <2>2 DEF TypeOK
<1>2. CASE ~(retry[t] < MaxRetry)
  BY <1>2 DEF Again, TypeOK
<1> QED
  BY <1>1, <1>2

\* The steps that lead from one label of Connecting to another.
LEMMA ConnectingIInv ==
  ASSUME IInv, UNCHANGED world, NEW t \in Threads,
         \/ Join(t) \/ WaitOver(t)
         \/ t \in Autos /\ AutoStep(t)
  PROVE  IInv'
<1> USE ThreadFacts DEF Connecting
<1>1. CASE Join(t)
  <2>1. ap' = (t # Loop /\ ap) /\ ap \in BOOLEAN
    BY <1>1, Zenon DEF Join, IInv, TypeOK
  <2>2. (ap' = ap \/ ap' = FALSE) /\ (t = Loop => ~ap')
    BY <2>1
  <2> QED
    BY <1>1, <2>2, AdvanceIInv DEF Join, IInv, TypeOK
<1>2. CASE WaitOver(t)
  BY <1>2, AdvanceIInv DEF WaitOver, radio, IInv, TypeOK
<1>3. StaOn \in {"off", "idle", "joining", "linked"} /\ allFailed \in BOOLEAN
  BY DEF StaOn, IInv, TypeOK
<1>4. CASE t \in Autos /\ AutoRun(t)
  <2>1. Goto(t, "check") \/ Goto(t, "scan")
    BY <1>4 DEF AutoRun
  <2>2. sta' \in {sta, StaOn} /\ pc[t] = "run"
        /\ UNCHANGED <<left, ap, server, flags, retry, allFailed>>
    BY <1>4 DEF AutoRun
  <2> QED
    BY <1>3, <1>4, <2>1, <2>2, AdvanceIInv DEF IInv, TypeOK
<1>5. CASE t \in Autos /\ AutoRefused(t)
  BY <1>3, <1>5, AdvanceIInv DEF AutoRefused, IInv, TypeOK
<1>6. CASE t \in Autos /\ (AutoBusy(t) \/ AutoDisconnect(t))
  <2>1. (Goto(t, "run") \/ Goto(t, "check")) /\ retry' \in [Autos -> 0..MaxRetry]
    BY <1>6, AgainTyped DEF AutoBusy, AutoDisconnect, IInv
  <2>2. /\ pc[t] \in {"run", "refused"} /\ sta' \in {"off", "idle", "joining", "linked"}
        /\ UNCHANGED <<left, ap, server, flags, allFailed>>
    BY <1>6 DEF AutoBusy, AutoDisconnect, radio, IInv, TypeOK
  <2> QED
    BY <1>3, <1>6, <2>1, <2>2, AdvanceIInv
<1>7. CASE t \in Autos /\ (AutoScanned(t) \/ AutoWaitOver(t))
  <2>1. Again(t) \/ (Goto(t, "begin") /\ UNCHANGED retry)
          \/ (Goto(t, "refused") /\ UNCHANGED retry)
          \/ (Goto(t, "check") /\ UNCHANGED retry)
    BY <1>7 DEF AutoScanned, AutoWaitOver
  <2>2. \E label \in Connecting : Goto(t, label)
    BY <1>7, <2>1, AgainTyped DEF IInv
  <2>3. retry' \in [Autos -> 0..MaxRetry]
    BY <1>7, <2>1, AgainTyped DEF IInv, TypeOK
  <2>4. pc[t] \in {"scan", "wait"} /\ UNCHANGED <<left, radio, server, flags>>
    BY <1>7 DEF AutoScanned, AutoWaitOver
  <2>5. allFailed' \in {allFailed, TRUE, FALSE}
    BY <1>7, Zenon DEF AutoScanned, AutoWaitOver
  <2>6. allFailed' \in BOOLEAN
    BY <1>3, <2>5
  <2> QED
    BY <1>7, <2>2, <2>3, <2>4, <2>6, AdvanceIInv DEF radio, IInv, TypeOK
<1> QED
  BY <1>1, <1>2, <1>4, <1>5, <1>6, <1>7 DEF AutoStep

\* A thread that has waited serves, or clears the flag: the web command never
\* runs in a world where this matters.
LEMMA CheckLinkIInv ==
  ASSUME IInv, UNCHANGED world, NEW t \in Threads, CheckLink(t)
  PROVE  IInv'
<1> USE ThreadFacts
<1> DEFINE next == IF sta = "linked" THEN "serve" ELSE "idle"
<1>1. /\ pc[t] = "check" /\ Goto(t, next)
      /\ WifiStatus' = IF t = Web THEN WifiStatus ELSE sta = "linked"
      /\ UNCHANGED <<world, left, radio, server, isAPMode, retry, allFailed>>
  BY DEF CheckLink
<1>2. WifiStatus' \in BOOLEAN
  BY <1>1, Zenon DEF IInv, TypeOK
<1>3. Bools'
  BY <1>1, <1>2, Zenon DEF IInv, TypeOK, Bools, radio, server
<1>4. /\ pc' \in [Threads -> Labels]
      /\ \A u \in Threads : /\ pc'[u] \in {"run", "scan", "refused"} => u \in Autos
                            /\ pc'[u] \in {"softAP", "serveAP"} => u = Loop
      /\ pc'[t] = next
      /\ \A u \in Threads \ {t} : pc'[u] = pc[u]
  BY <1>1, GotoTyped DEF IInv, Labels
<1>5. TypeOK'
  BY <1>1, <1>3, <1>4 DEF IInv, TypeOK, Bools, radio
<1>6. "web" \notin world => t # Web
  BY <1>1 DEF IInv, WebRests
<1>7. WebRests'
  BY <1>1, <1>4, <1>6 DEF IInv, WebRests, server
<1>8. StationServed'
  <2>1. CASE sta = "linked"
    BY <1>1, <1>4, <1>6, <2>1 DEF StationServed, Connecting
  <2>2. CASE sta # "linked" /\ t # Web
    BY <1>1, <2>2 DEF StationServed
  <2>3. CASE t = Web
    BY <1>1, <1>6, <2>3 DEF StationServed
  <2> QED
    BY <2>1, <2>2, <2>3
<1>9. AccessPointServed'
  BY <1>1, <1>4 DEF IInv, AccessPointServed, radio, server
<1> QED
  BY <1>5, <1>7, <1>8, <1>9 DEF IInv

\* The server begins: nothing is left to be promised.
LEMMA ServeIInv ==
  ASSUME IInv, UNCHANGED world, NEW t \in Threads,
         Serve(t) \/ (t = Loop /\ ServeAP)
  PROVE  IInv'
<1> USE ThreadFacts
<1>1. /\ pc[t] \in {"serve", "serveAP"} /\ Goto(t, "idle") /\ listening' = TRUE
      /\ UNCHANGED <<world, left, radio, client, WifiStatus, retry, allFailed>>
      /\ isAPMode' = isAPMode \/ isAPMode' = TRUE
  BY DEF Serve, ServeAP, flags
<1>2. isAPMode' \in BOOLEAN
  BY <1>1 DEF IInv, TypeOK
<1>3. Bools'
  BY <1>1, <1>2, Zenon DEF IInv, TypeOK, Bools, radio
<1>4. /\ pc' \in [Threads -> Labels]
      /\ \A u \in Threads : /\ pc'[u] \in {"run", "scan", "refused"} => u \in Autos
                            /\ pc'[u] \in {"softAP", "serveAP"} => u = Loop
      /\ pc'[t] = "idle"
      /\ \A u \in Threads \ {t} : pc'[u] = pc[u]
  BY <1>1, GotoTyped DEF IInv, Labels
<1>5. TypeOK'
  BY <1>1, <1>3, <1>4 DEF IInv, TypeOK, Bools, radio
<1>6. WebRests' /\ StationServed' /\ AccessPointServed'
  BY <1>1, <1>4 DEF IInv, WebRests, StationServed, AccessPointServed
<1> QED
  BY <1>5, <1>6 DEF IInv

\* connectWifi() ends the server and goes on to connect.
LEMMA ConnectWifiIInv ==
  ASSUME IInv, UNCHANGED world, ConnectWifi
  PROVE  IInv'
<1> USE ThreadFacts
<1>1. /\ pc[Loop] = "idle" /\ Goto(Loop, "begin")
      /\ listening' = (listening /\ sta # "linked")
      /\ UNCHANGED <<world, left, radio, client, flags, retry, allFailed>>
  BY DEF ConnectWifi, Free
<1>2. listening' \in BOOLEAN
  BY <1>1, Zenon
<1>3. Bools'
  BY <1>1, <1>2, Zenon DEF IInv, TypeOK, Bools, radio, flags
<1>4. /\ pc' \in [Threads -> Labels]
      /\ \A u \in Threads : /\ pc'[u] \in {"run", "scan", "refused"} => u \in Autos
                            /\ pc'[u] \in {"softAP", "serveAP"} => u = Loop
      /\ pc'[Loop] = "begin"
      /\ \A u \in Threads \ {Loop} : pc'[u] = pc[u]
  BY <1>1, GotoTyped DEF IInv, Labels
<1>5. TypeOK'
  BY <1>1, <1>3, <1>4 DEF IInv, TypeOK, Bools, radio
<1>6. WebRests' /\ StationServed' /\ AccessPointServed'
  BY <1>1, <1>4 DEF IInv, WebRests, StationServed, AccessPointServed, Connecting
<1> QED
  BY <1>5, <1>6 DEF IInv

\* AP Mode / On: the station is off until somebody joins, and the loop serves
\* next, unless the access point may fail.
LEMMA APModeOnIInv ==
  ASSUME IInv, UNCHANGED world, APModeOn \/ SoftAP
  PROVE  IInv'
<1> USE ThreadFacts
<1>1. CASE APModeOn
  <2>1. /\ pc[Loop] = "idle" /\ Goto(Loop, "softAP") /\ listening' = FALSE
        /\ sta' = "off" /\ ap' = TRUE
        /\ UNCHANGED <<world, left, client, flags, retry, allFailed>>
    BY <1>1 DEF APModeOn, Free
  <2>2. Bools'
    BY <2>1, Zenon DEF IInv, TypeOK, Bools, flags
  <2>3. /\ pc' \in [Threads -> Labels]
        /\ \A u \in Threads : /\ pc'[u] \in {"run", "scan", "refused"} => u \in Autos
                              /\ pc'[u] \in {"softAP", "serveAP"} => u = Loop
        /\ pc'[Loop] = "softAP"
        /\ \A u \in Threads \ {Loop} : pc'[u] = pc[u]
    BY <2>1, GotoTyped DEF IInv, Labels
  <2>4. TypeOK'
    BY <2>1, <2>2, <2>3 DEF IInv, TypeOK, Bools
  <2>5. WebRests' /\ StationServed' /\ AccessPointServed'
    BY <2>1, <2>3 DEF IInv, WebRests, StationServed, AccessPointServed
  <2> QED
    BY <2>4, <2>5 DEF IInv
<1>2. ASSUME SoftAP, NEW label \in {"serveAP", "idle"}, Goto(Loop, label),
             label = "idle" => "ap" \in world, ap' = TRUE \/ ap' = ap
      PROVE  IInv'
  <2>1. /\ pc[Loop] = "softAP" /\ UNCHANGED <<world, left, sta, server, flags, retry, allFailed>>
    BY <1>2 DEF SoftAP
  <2>2. Bools'
    <3>1. ap' \in BOOLEAN
      BY <1>2 DEF IInv, TypeOK
    <3> QED
      BY <2>1, <3>1, Zenon DEF IInv, TypeOK, Bools, server, flags
  <2>3. /\ pc' \in [Threads -> Labels]
        /\ \A u \in Threads : /\ pc'[u] \in {"run", "scan", "refused"} => u \in Autos
                              /\ pc'[u] \in {"softAP", "serveAP"} => u = Loop
        /\ pc'[Loop] = label
        /\ \A u \in Threads \ {Loop} : pc'[u] = pc[u]
    BY <1>2, GotoTyped DEF IInv, Labels
  <2>4. TypeOK'
    BY <2>1, <2>2, <2>3 DEF IInv, TypeOK, Bools
  <2>5. WebRests' /\ StationServed'
    BY <2>1, <2>3 DEF IInv, WebRests, StationServed, Connecting, server, flags
  <2>6. AccessPointServed'
    BY <1>2, <2>1, <2>3 DEF AccessPointServed
  <2> QED
    BY <2>4, <2>5, <2>6 DEF IInv
<1>3. CASE SoftAP
  BY <1>2, <1>3 DEF SoftAP
<1> QED
  BY <1>1, <1>3

\* AP Mode / Off: the new task connects.
LEMMA APModeOffIInv ==
  ASSUME IInv, UNCHANGED world, APModeOff
  PROVE  IInv'
<1> USE ThreadFacts
<1>1. PICK t \in Autos :
        pc[t] = "idle" /\ Goto(t, "run") /\ retry' = [retry EXCEPT ![t] = 0]
  BY DEF APModeOff
<1>2. /\ sta' = StaOn /\ ap' = FALSE /\ listening' = FALSE /\ isAPMode' = FALSE
      /\ allFailed' = FALSE
      /\ UNCHANGED <<world, left, client, WifiStatus>>
  BY DEF APModeOff
<1>3. Bools'
  BY <1>2, Zenon DEF IInv, TypeOK, Bools
<1>4. /\ pc' \in [Threads -> Labels]
      /\ \A u \in Threads : /\ pc'[u] \in {"run", "scan", "refused"} => u \in Autos
                            /\ pc'[u] \in {"softAP", "serveAP"} => u = Loop
      /\ pc'[t] = "run"
      /\ \A u \in Threads \ {t} : pc'[u] = pc[u]
  BY <1>1, GotoTyped DEF IInv, Labels
<1>5. retry' \in [Autos -> 0..MaxRetry]
  BY <1>1 DEF IInv, TypeOK
<1>6. TypeOK'
  BY <1>2, <1>3, <1>4, <1>5 DEF IInv, TypeOK, Bools, StaOn
<1>7. WebRests' /\ StationServed' /\ AccessPointServed'
  BY <1>2, <1>4 DEF IInv, WebRests, StationServed, AccessPointServed, Connecting
<1> QED
  BY <1>6, <1>7 DEF IInv

\* A scan sets the mode: it never links the station.
LEMMA ScanIInv ==
  ASSUME IInv, UNCHANGED world, ScanMode
  PROVE  IInv'
<1>1. /\ sta' = StaOn /\ ap' = FALSE
      /\ UNCHANGED <<world, left, server, flags, pc, retry, allFailed>>
  BY DEF ScanMode
<1>2. Bools'
  BY <1>1, Zenon DEF IInv, TypeOK, Bools, server, flags
<1>3. TypeOK'
  BY <1>1, <1>2 DEF IInv, TypeOK, Bools, StaOn
<1>4. WebRests' /\ AccessPointServed'
  BY <1>1 DEF IInv, WebRests, AccessPointServed, server
<1>5. StationServed'
  BY <1>1 DEF IInv, StationServed, StaOn, server, flags
<1> QED
  BY <1>3, <1>4, <1>5 DEF IInv

\* The web console, in the worlds that have one, and the user's leaving.
LEMMA ConsoleIInv ==
  ASSUME IInv, UNCHANGED world, ClientOpens \/ WebWifi \/ Leave
  PROVE  IInv'
<1> USE ThreadFacts
<1>1. CASE ClientOpens
  <2>1. /\ "web" \in world /\ client' = TRUE
        /\ UNCHANGED <<world, left, radio, listening, flags, pc, retry, allFailed>>
    BY <1>1 DEF ClientOpens
  <2>2. Bools'
    BY <2>1, Zenon DEF IInv, TypeOK, Bools, radio, flags
  <2>3. TypeOK'
    BY <2>1, <2>2 DEF IInv, TypeOK, Bools, radio
  <2> QED
    BY <2>1, <2>3 DEF IInv, WebRests, StationServed, AccessPointServed
<1>2. CASE WebWifi
  <2>1. /\ client /\ listening' = FALSE /\ UNCHANGED <<world, left, radio, client, flags, retry, allFailed>>
        /\ Goto(Web, "begin") \/ UNCHANGED pc
    BY <1>2 DEF WebWifi, Command
  <2>2. "web" \in world
    BY <2>1 DEF IInv, WebRests
  <2>3. Bools'
    BY <2>1, Zenon DEF IInv, TypeOK, Bools, radio, flags
  <2>4. /\ pc' \in [Threads -> Labels]
        /\ \A u \in Threads : /\ pc'[u] \in {"run", "scan", "refused"} => u \in Autos
                              /\ pc'[u] \in {"softAP", "serveAP"} => u = Loop
    BY <2>1, GotoTyped DEF IInv, TypeOK, Labels
  <2>5. TypeOK'
    BY <2>1, <2>3, <2>4 DEF IInv, TypeOK, Bools, radio
  <2> QED
    BY <2>1, <2>2, <2>5 DEF IInv, WebRests, StationServed, AccessPointServed
<1>3. CASE Leave
  <2>1. left' = TRUE /\ UNCHANGED <<world, radio, server, flags, pc, retry, allFailed>>
    BY <1>3 DEF Leave
  <2>2. Bools'
    BY <2>1, Zenon DEF IInv, TypeOK, Bools, radio, server, flags
  <2>3. TypeOK'
    BY <2>1, <2>2 DEF IInv, TypeOK, Bools, radio
  <2> QED
    BY <2>1, <2>3 DEF IInv, WebRests, StationServed, AccessPointServed, radio, server, flags
<1> QED
  BY <1>1, <1>2, <1>3

\* A restart is a boot.
LEMMA RestartIInv ==
  ASSUME IInv, UNCHANGED world, Restart
  PROVE  IInv'
<1>1. /\ left' = FALSE /\ sta' = "off" /\ ap' = FALSE /\ listening' = FALSE
      /\ client' = FALSE /\ WifiStatus' = FALSE /\ isAPMode' = FALSE
      /\ pc' = [t \in Threads |-> IF t = bootTask THEN "run" ELSE "idle"]
      /\ retry' = [t \in Autos |-> 0] /\ allFailed' = FALSE
  BY DEF Restart, Booted
<1>2. pc' \in [Threads -> Labels] /\ retry' \in [Autos -> 0..MaxRetry]
  BY <1>1, ThreadFacts DEF Labels
<1>3. \A t \in Threads : /\ pc'[t] \in {"run", "scan", "refused"} => t \in Autos
                         /\ pc'[t] \in {"softAP", "serveAP"} => t = Loop
  BY <1>1, ThreadFacts
<1>4. TypeOK'
  BY <1>1, <1>2, <1>3 DEF IInv, TypeOK
<1>5. WebRests' /\ StationServed' /\ AccessPointServed'
  BY <1>1, ThreadFacts DEF WebRests, StationServed, AccessPointServed
<1> QED
  BY <1>4, <1>5 DEF IInv

-----------------------------------------------------------------------------
LEMMA InitIInv == Init => IInv
BY BootedIInv, WorldsAssumption DEF Init

LEMMA NextIInv == IInv /\ [Next]_vars => IInv'
<1> SUFFICES ASSUME IInv, [Next]_vars PROVE IInv'
  OBVIOUS
<1>1. CASE Next
  <2>1. UNCHANGED world
    BY <1>1 DEF Next
  <2>2. CASE LinkUp \/ JoinFails \/ LinkDrops
    BY <2>1, <2>2, RadioIInv
  <2>3. ASSUME NEW t \in Threads, Step(t) PROVE IInv'
    BY <2>1, <2>3, ConnectingIInv, CheckLinkIInv, ServeIInv DEF Step
  <2>4. ASSUME NEW t \in Autos, AutoStep(t) PROVE IInv'
    BY <2>1, <2>4, ConnectingIInv, ThreadFacts
  <2>5. CASE SoftAP \/ ServeAP
    BY <2>1, <2>5, APModeOnIInv, ServeIInv, ThreadFacts
  <2>6. CASE UserStep
    BY <2>1, <2>6, ConnectWifiIInv, APModeOnIInv, APModeOffIInv, ScanIInv, ConsoleIInv,
       RestartIInv DEF UserStep, ScanWiFi, WebScan
  <2>7. CASE ClientOpens
    BY <2>1, <2>7, ConsoleIInv
  <2> QED
    BY <1>1, <2>2, <2>3, <2>4, <2>5, <2>6, <2>7 DEF Next
<1>2. CASE UNCHANGED vars
  <2>1. Bools'
    BY <1>2, Zenon DEF IInv, TypeOK, Bools, vars, radio, server, flags
  <2>2. TypeOK'
    BY <1>2, <2>1 DEF IInv, TypeOK, Bools, vars, radio
  <2> QED
    BY <1>2, <2>2 DEF IInv, WebRests, StationServed, AccessPointServed, vars, radio, server, flags
<1> QED
  BY <1>1, <1>2

\* Every reachable state satisfies the inductive invariant.
THEOREM ConnectivityInvariant == Spec => []IInv
BY InitIInv, NextIInv, PTL DEF Spec

\* The type invariant.
THEOREM ConnectivityTyped == Spec => []TypeOK
BY ConnectivityInvariant, PTL DEF IInv

\* With every thread idle and no web console, a device that believes itself on
\* line, and is, serves its pages, however the threads were interleaved.
THEOREM ConnectivityServes == Spec => []ServesWhenOnline
<1>1. IInv => ServesWhenOnline
  <2> SUFFICES ASSUME IInv, AllIdle, "web" \notin world
               PROVE  /\ WifiStatus /\ sta = "linked" => listening
                      /\ isAPMode /\ ap /\ "ap" \notin world => listening
    BY DEF ServesWhenOnline
  <2>1. WifiStatus /\ sta = "linked" => listening
    BY DEF IInv, StationServed, AllIdle, Connecting
  <2>2. isAPMode /\ ap /\ "ap" \notin world => listening
    BY ThreadFacts DEF IInv, AccessPointServed, AllIdle
  <2> QED
    BY <2>1, <2>2
<1> QED
  BY <1>1, ConnectivityInvariant, PTL
-----------------------------------------------------------------------------
(* What Quiesces rests on.  Once nobody gives commands, every thread has a *)
(* number of steps left that only its own steps change, and each of them   *)
(* makes it less.                                                          *)

Tries(t) == IF t \in Autos THEN MaxRetry - retry[t] ELSE 0

StepsLeft(t) ==
  CASE pc[t] = "idle" -> 0
    [] pc[t] \in {"serve", "serveAP"} -> 1
    [] pc[t] \in {"check", "softAP"} -> 2
    [] pc[t] = "wait" -> 3 + 4 * Tries(t)
    [] pc[t] \in {"begin", "refused"} -> 4 + 4 * Tries(t)
    [] pc[t] = "scan" -> 5 + 4 * Tries(t)
    [] pc[t] = "run" -> 6 + 4 * Tries(t)

OwnStep(t) ==
  \/ Step(t)
  \/ t \in Autos /\ AutoStep(t)
  \/ t = Loop /\ (SoftAP \/ ServeAP)

\* Whatever the radio does, no thread gets new work; what it does is bounded.
WorkRunsOut ==
  [][left => \A t \in Threads :
       /\ StepsLeft(t) \in 0 .. 6 + 4 * MaxRetry
       /\ StepsLeft(t)' <= StepsLeft(t)
       /\ OwnStep(t) => StepsLeft(t)' < StepsLeft(t)]_vars

LEMMA StepsLeftTyped ==
  ASSUME TypeOK, NEW t \in Threads
  PROVE  Tries(t) \in 0 .. MaxRetry /\ StepsLeft(t) \in 0 .. 6 + 4 * MaxRetry
<1>1. Tries(t) \in 0 .. MaxRetry
  BY ThreadFacts DEF TypeOK, Tries
<1>2. pc[t] \in Labels
  BY DEF TypeOK
<1> QED
  BY <1>1, <1>2, ThreadFacts DEF StepsLeft, Labels

\* A thread that stays where it is, with its tries, has as much left as before.
LEMMA StepsLeftKept ==
  ASSUME NEW u \in Threads, pc'[u] = pc[u], u \in Autos => retry'[u] = retry[u]
  PROVE  StepsLeft(u)' = StepsLeft(u)
BY DEF StepsLeft, Tries

\* Trying again costs a try, and giving up leaves only the check.
LEMMA AgainRunsDown ==
  ASSUME TypeOK, NEW t \in Autos, Again(t), pc[t] \in {"run", "refused", "scan", "wait"}
  PROVE  /\ StepsLeft(t)' < StepsLeft(t)
         /\ \A u \in Threads \ {t} : pc'[u] = pc[u] /\ (u \in Autos => retry'[u] = retry[u])
<1>1. /\ Tries(t) \in 0 .. MaxRetry /\ Tries(t) = MaxRetry - retry[t]
      /\ retry[t] \in 0 .. MaxRetry /\ t \in Threads /\ MaxRetry \in Nat
  BY StepsLeftTyped, ThreadFacts DEF Tries, TypeOK
<1>2. StepsLeft(t) \in Nat /\ StepsLeft(t) >= 3 + 4 * Tries(t)
  BY <1>1, StepsLeftTyped DEF StepsLeft
<1>3. CASE retry[t] < MaxRetry
  <2>1. pc'[t] = "run" /\ retry'[t] = retry[t] + 1
    BY <1>1, <1>3 DEF Again, Goto, TypeOK
  <2>2. StepsLeft(t)' = 6 + 4 * (Tries(t) - 1)
    BY <1>1, <2>1 DEF StepsLeft, Tries
  <2>3. \A u \in Threads \ {t} : pc'[u] = pc[u] /\ (u \in Autos => retry'[u] = retry[u])
    BY <1>3 DEF Again, Goto, TypeOK
  <2> QED
    BY <1>1, <1>2, <2>2, <2>3
<1>4. CASE ~(retry[t] < MaxRetry)
  <2>1. pc'[t] = "check" /\ retry' = retry
    BY <1>1, <1>4 DEF Again, Goto, TypeOK
  <2>2. StepsLeft(t)' = 2
    BY <2>1 DEF StepsLeft
  <2>3. \A u \in Threads \ {t} : pc'[u] = pc[u] /\ (u \in Autos => retry'[u] = retry[u])
    BY <1>4 DEF Again, Goto, TypeOK
  <2> QED
    BY <1>1, <1>2, <2>2, <2>3
<1> QED
  BY <1>3, <1>4

\* A thread's own step brings it nearer to its end, and nobody else.
LEMMA OwnStepRunsDown ==
  ASSUME TypeOK, NEW t \in Threads, OwnStep(t)
  PROVE  /\ StepsLeft(t)' < StepsLeft(t)
         /\ \A u \in Threads \ {t} : pc'[u] = pc[u] /\ (u \in Autos => retry'[u] = retry[u])
<1>1. Tries(t) \in 0 .. MaxRetry /\ MaxRetry \in Nat
  BY StepsLeftTyped, ThreadFacts
<1>2. ASSUME NEW from \in Labels, NEW to \in Labels, pc[t] = from, Goto(t, to), UNCHANGED retry,
             \/ from = "begin" /\ to = "wait"
             \/ from = "wait" /\ to = "check"
             \/ from = "check" /\ to \in {"serve", "idle"}
             \/ from = "serve" /\ to = "idle"
             \/ from = "run" /\ to \in {"check", "scan", "refused"}
             \/ from = "scan" /\ to \in {"begin", "refused"}
             \/ from = "softAP" /\ to \in {"serveAP", "idle"}
             \/ from = "serveAP" /\ to = "idle"
      PROVE  /\ StepsLeft(t)' < StepsLeft(t)
             /\ \A u \in Threads \ {t} : pc'[u] = pc[u] /\ (u \in Autos => retry'[u] = retry[u])
  <2>1. pc'[t] = to /\ \A u \in Threads \ {t} : pc'[u] = pc[u]
    BY <1>2 DEF Goto, TypeOK
  <2>2. Tries(t)' = Tries(t)
    BY <1>2 DEF Tries
  <2>3. StepsLeft(t)' < StepsLeft(t)
    BY <1>1, <1>2, <2>1, <2>2 DEF StepsLeft
  <2> QED
    BY <1>2, <2>1, <2>3
<1>3. CASE Join(t) \/ WaitOver(t) \/ Serve(t)
  BY <1>2, <1>3 DEF Join, WaitOver, Serve, Labels
<1>4. CASE CheckLink(t)
  BY <1>2, <1>4 DEF CheckLink, Labels
<1>5. CASE t \in Autos /\ (AutoRun(t) \/ AutoRefused(t))
  BY <1>2, <1>5 DEF AutoRun, AutoRefused, Labels
<1>6. CASE t \in Autos /\ (AutoBusy(t) \/ AutoDisconnect(t))
  BY <1>6, AgainRunsDown DEF AutoBusy, AutoDisconnect
<1>7. CASE t \in Autos /\ (AutoScanned(t) \/ AutoWaitOver(t))
  <2>1. CASE Again(t)
    BY <1>7, <2>1, AgainRunsDown DEF AutoScanned, AutoWaitOver
  <2>2. CASE ~Again(t)
    BY <1>2, <1>7, <2>2 DEF AutoScanned, AutoWaitOver, Labels
  <2> QED
    BY <2>1, <2>2
<1>8. CASE t = Loop /\ (SoftAP \/ ServeAP)
  BY <1>2, <1>8 DEF SoftAP, ServeAP, Labels
<1> QED
  BY <1>3, <1>4, <1>5, <1>6, <1>7, <1>8 DEF OwnStep, Step, AutoStep

\* With the user gone, a step that is no thread's moves no thread.
LEMMA OthersAtRest ==
  ASSUME left, [Next]_vars, \A t \in Threads : ~OwnStep(t)
  PROVE  UNCHANGED <<pc, retry>>
<1>1. ~UserStep
  BY DEF UserStep, ConnectWifi, APModeOn, APModeOff, ScanWiFi, Leave, WebWifi, WebScan,
         Restart, Free, Command
<1>2. CASE LinkUp \/ JoinFails \/ LinkDrops \/ ClientOpens
  BY <1>2 DEF LinkUp, JoinFails, LinkDrops, ClientOpens
<1>3. CASE UNCHANGED vars
  BY <1>3 DEF vars
<1> QED
  BY <1>1, <1>2, <1>3, ThreadFacts DEF Next, OwnStep

\* Once nobody gives commands, no thread does more than a fixed number of
\* steps, for every number of tasks and tries and whatever the radio does.
THEOREM ConnectivityWorkRunsOut == Spec => WorkRunsOut
<1>1. ASSUME TypeOK, TypeOK', [Next]_vars, left, NEW t \in Threads
      PROVE  /\ StepsLeft(t) \in 0 .. 6 + 4 * MaxRetry
             /\ StepsLeft(t)' <= StepsLeft(t)
             /\ OwnStep(t) => StepsLeft(t)' < StepsLeft(t)
  <2>1. StepsLeft(t) \in 0 .. 6 + 4 * MaxRetry /\ MaxRetry \in Nat
    BY <1>1, StepsLeftTyped, ThreadFacts
  <2>2. StepsLeft(t)' \in Nat
    <3>1. pc'[t] \in Labels /\ Tries(t)' \in Nat
      BY <1>1, ThreadFacts DEF TypeOK, Tries
    <3> QED
      BY <3>1, ThreadFacts DEF StepsLeft, Labels, TypeOK
  <2>3. CASE \E u \in Threads : OwnStep(u)
    <3>1. PICK u \in Threads : OwnStep(u)
      BY <2>3
    <3>2. CASE u = t
      BY <1>1, <2>1, <2>2, <3>1, <3>2, OwnStepRunsDown
    <3>3. CASE u # t
      BY <1>1, <2>1, <3>1, <3>3, OwnStepRunsDown, StepsLeftKept
    <3> QED
      BY <3>2, <3>3
  <2>4. CASE \A u \in Threads : ~OwnStep(u)
    BY <1>1, <2>1, <2>4, OthersAtRest, StepsLeftKept
  <2> QED
    BY <2>3, <2>4
<1>2. TypeOK /\ TypeOK' /\ [Next]_vars =>
        [left => \A t \in Threads :
           /\ StepsLeft(t) \in 0 .. 6 + 4 * MaxRetry
           /\ StepsLeft(t)' <= StepsLeft(t)
           /\ OwnStep(t) => StepsLeft(t)' < StepsLeft(t)]_vars
  BY <1>1
<1> QED
  BY <1>2, ConnectivityTyped, PTL DEF Spec, WorkRunsOut

-----------------------------------------------------------------------------
(* What EndsOnline adds to Quiesces.  Where the radio is good and nobody   *)
(* gives commands, the promise to go on line passes from a task that tries *)
(* to the station that joins, to a thread that waits for it, to the one    *)
(* that serves, and no step of another thread drops it.                    *)

\* A join that nothing disturbs is waited for until it ends.
JoinWaited == world = {} /\ sta = "joining" => \E t \in Threads : pc[t] = "wait"

\* The threads that set the flag and begin the server.
Own == Threads \ {Web}

\* Somebody is bound to bring the device on line, or it is there.
Bound ==
  /\ world = {} /\ left /\ LastScanMade
  /\ \/ \E t \in Own : pc[t] = "begin"
     \/ sta = "joining"
     \/ sta = "linked" /\ \E t \in Own : pc[t] \in {"wait", "check"}
     \/ sta = "linked" /\ WifiStatus /\ (listening \/ \E t \in Own : pc[t] = "serve")

\* Who waits is not disturbed by another thread's steps.
LEMMA WaiterStays ==
  ASSUME TypeOK, JoinWaited, world = {}, sta = "joining",
         NEW t \in Threads, NEW label, pc[t] # "wait", Goto(t, label)
  PROVE  \E u \in Threads : pc'[u] = "wait"
<1>1. PICK u \in Threads : pc[u] = "wait"
  BY DEF JoinWaited
<1>2. pc'[u] = "wait"
  BY <1>1 DEF Goto, TypeOK
<1> QED
  BY <1>2

LEMMA NextJoinWaited ==
  ASSUME IInv, JoinWaited, [Next]_vars
  PROVE  JoinWaited'
<1> SUFFICES ASSUME world = {}, sta' = "joining"
             PROVE  \E t \in Threads : pc'[t] = "wait"
  BY DEF JoinWaited, Next, vars
<1> USE ThreadFacts
<1>1. TypeOK /\ ~client
  BY DEF IInv, WebRests
<1>2. CASE LinkUp \/ JoinFails \/ LinkDrops \/ ClientOpens
  BY <1>2 DEF LinkUp, JoinFails, LinkDrops, ClientOpens
<1>3. ASSUME NEW t \in Threads, Join(t)
      PROVE  \E u \in Threads : pc'[u] = "wait"
  <2>1. pc'[t] = "wait"
    BY <1>1, <1>3 DEF Join, Goto, TypeOK
  <2> QED
    BY <2>1
<1>4. ASSUME NEW t \in Threads, WaitOver(t) \/ (t \in Autos /\ AutoWaitOver(t))
      PROVE  \E u \in Threads : pc'[u] = "wait"
  <2>1. sta = "joining" /\ TimeIsUp(t)
    BY <1>4 DEF WaitOver, AutoWaitOver, radio
  <2>2. PICK u \in Threads \ {t} : pc[u] = "wait"
    BY <2>1 DEF TimeIsUp
  <2>3. \E label : Goto(t, label)
    BY <1>4 DEF WaitOver, AutoWaitOver, Again
  <2>4. pc'[u] = "wait"
    BY <1>1, <2>2, <2>3 DEF Goto, TypeOK
  <2> QED
    BY <2>4
<1>5. ASSUME NEW t \in Threads,
             \/ CheckLink(t) \/ Serve(t)
             \/ t \in Autos /\ (AutoRun(t) \/ AutoBusy(t) \/ AutoRefused(t)
                                \/ AutoDisconnect(t) \/ AutoScanned(t))
      PROVE  \E u \in Threads : pc'[u] = "wait"
  <2>1. sta = "joining"
    BY <1>5 DEF CheckLink, Serve, AutoRun, AutoBusy, AutoRefused, AutoDisconnect,
                AutoScanned, StaOn, radio
  <2>2. pc[t] # "wait" /\ \E label : Goto(t, label)
    BY <1>5 DEF CheckLink, Serve, AutoRun, AutoBusy, AutoRefused, AutoDisconnect,
                AutoScanned, Again
  <2> QED
    BY <1>1, <2>1, <2>2, WaiterStays
<1>6. CASE SoftAP \/ ServeAP
  <2>1. sta = "joining" /\ pc[Loop] # "wait" /\ \E label : Goto(Loop, label)
    BY <1>6 DEF SoftAP, ServeAP, radio
  <2> QED
    BY <1>1, <2>1, WaiterStays
<1>7. CASE UserStep
  <2>1. CASE ConnectWifi
    <3>1. sta = "joining" /\ pc[Loop] # "wait" /\ \E label : Goto(Loop, label)
      BY <2>1 DEF ConnectWifi, Free, radio
    <3> QED
      BY <1>1, <3>1, WaiterStays
  <2>2. CASE APModeOff
    <3>1. PICK t \in Autos : pc[t] = "idle" /\ Goto(t, "run")
      BY <2>2 DEF APModeOff
    <3>2. sta = "joining"
      BY <2>2 DEF APModeOff, StaOn
    <3> QED
      BY <1>1, <3>1, <3>2, WaiterStays
  <2>3. CASE ScanWiFi \/ WebScan
    BY <2>3 DEF ScanWiFi, WebScan, ScanMode, StaOn, JoinWaited
  <2>4. CASE Leave
    BY <2>4 DEF Leave, JoinWaited, radio
  <2>5. CASE APModeOn \/ Restart
    BY <2>5 DEF APModeOn, Restart, Booted
  <2>6. ~WebWifi
    BY <1>1 DEF WebWifi, Command
  <2> QED
    BY <1>7, <2>1, <2>2, <2>3, <2>4, <2>5, <2>6 DEF UserStep
<1>8. CASE UNCHANGED vars
  BY <1>8 DEF vars, radio, JoinWaited
<1> QED
  BY <1>2, <1>3, <1>4, <1>5, <1>6, <1>7, <1>8 DEF Next, Step, AutoStep

\* With the user gone, a task that has made its last scan makes no other.
LEMMA NextLastScan ==
  ASSUME TypeOK, left, LastScanMade, [Next]_vars
  PROVE  LastScanMade'
<1> SUFFICES ASSUME NEW t \in Autos
             PROVE  /\ pc'[t] \notin {"run", "scan", "refused"}
                    /\ pc'[t] \in {"begin", "wait"} => retry'[t] = MaxRetry
  BY DEF LastScanMade
<1> USE ThreadFacts
<1>1. /\ pc[t] \notin {"run", "scan", "refused"} /\ t \in Threads
      /\ pc[t] \in {"begin", "wait"} => retry[t] = MaxRetry
  BY DEF LastScanMade
<1>2. CASE OwnStep(t)
  <2>1. CASE Step(t)
    BY <1>1, <2>1 DEF Step, Join, WaitOver, CheckLink, Serve, Goto, TypeOK
  <2>2. CASE AutoStep(t)
    <3>1. AutoWaitOver(t) /\ retry[t] = MaxRetry
      BY <1>1, <2>2 DEF AutoStep, AutoRun, AutoBusy, AutoRefused, AutoDisconnect,
                        AutoScanned, AutoWaitOver
    <3>2. ~(retry[t] < MaxRetry)
      BY <3>1
    <3>3. Goto(t, "check")
      BY <3>1, <3>2 DEF AutoWaitOver, Again
    <3> QED
      BY <1>1, <3>3 DEF Goto, TypeOK
  <2> QED
    BY <1>2, <2>1, <2>2 DEF OwnStep
<1>3. CASE ~OwnStep(t) /\ \E u \in Threads : OwnStep(u)
  <2>1. PICK u \in Threads : OwnStep(u)
    BY <1>3
  <2>2. pc'[t] = pc[t] /\ retry'[t] = retry[t]
    BY <1>1, <1>3, <2>1, OwnStepRunsDown
  <2> QED
    BY <1>1, <2>2
<1>4. CASE \A u \in Threads : ~OwnStep(u)
  BY <1>1, <1>4, OthersAtRest
<1> QED
  BY <1>2, <1>3, <1>4

\* The promise is kept by every step.
LEMMA NextBound ==
  ASSUME IInv, JoinWaited, Bound, [Next]_vars
  PROVE  Bound'
<1> USE ThreadFacts DEF Own
<1>1. TypeOK /\ ~client /\ pc[Web] = "idle" /\ world = {} /\ left /\ ~UserStep
        /\ LastScanMade /\ LastScanMade'
  BY NextLastScan DEF IInv, WebRests, Bound, UserStep, ConnectWifi, APModeOn, APModeOff,
         ScanWiFi, Leave, WebWifi, WebScan, Restart, Free, Command
<1>2. ASSUME NEW t \in Threads, NEW label, Goto(t, label)
      PROVE  pc'[t] = label /\ \A u \in Threads \ {t} : pc'[u] = pc[u]
  BY <1>1, <1>2 DEF Goto, TypeOK
<1>3. CASE LinkUp
  <2>1. sta' = "linked" /\ UNCHANGED <<world, left, pc>>
    BY <1>3 DEF Next, LinkUp, vars
  <2>2. PICK t \in Threads : pc[t] = "wait"
    BY <1>1, <1>3 DEF LinkUp, JoinWaited
  <2>3. t \in Own /\ pc'[t] = "wait"
    BY <1>1, <2>1, <2>2
  <2> QED
    BY <1>1, <2>1, <2>3 DEF Bound
<1>4. ~JoinFails /\ ~LinkDrops /\ ~ClientOpens
  BY <1>1 DEF JoinFails, LinkDrops, ClientOpens
<1>5. ASSUME NEW t \in Threads, Join(t) PROVE Bound'
  <2>1. sta' = "joining" /\ UNCHANGED <<world, left>>
    BY <1>1, <1>5 DEF Join, Next, vars
  <2> QED
    BY <1>1, <2>1 DEF Bound
<1>6. ASSUME NEW t \in Threads, WaitOver(t) \/ (t \in Autos /\ AutoWaitOver(t)) PROVE Bound'
  <2>1. /\ t \in Own /\ pc[t] = "wait" /\ UNCHANGED <<world, left, sta, listening, WifiStatus>>
        /\ sta = "linked" => Goto(t, "check")
        /\ \E label : Goto(t, label)
    BY <1>1, <1>6 DEF WaitOver, AutoWaitOver, TimeIsUp, Again, Next, vars, radio, server, flags
  <2>2. CASE sta = "linked"
    <3>1. pc'[t] = "check"
      BY <1>2, <2>1, <2>2
    <3> QED
      BY <1>1, <2>1, <2>2, <3>1 DEF Bound
  <2>3. CASE sta # "linked"
    BY <1>1, <1>2, <2>1, <2>3 DEF Bound
  <2> QED
    BY <2>2, <2>3
<1>7. ASSUME NEW t \in Threads, CheckLink(t) PROVE Bound'
  <2>1. /\ t \in Own /\ pc[t] = "check" /\ UNCHANGED <<world, left, sta, listening>>
        /\ WifiStatus' = (sta = "linked")
        /\ Goto(t, IF sta = "linked" THEN "serve" ELSE "idle")
    BY <1>1, <1>7 DEF CheckLink, Next, vars, radio, server
  <2>2. CASE sta = "linked"
    BY <1>1, <1>2, <2>1, <2>2 DEF Bound
  <2>3. CASE sta # "linked"
    BY <1>1, <1>2, <2>1, <2>3 DEF Bound
  <2> QED
    BY <2>2, <2>3
<1>8. ASSUME NEW t \in Threads, Serve(t) PROVE Bound'
  <2>1. /\ pc[t] = "serve" /\ UNCHANGED <<world, left, sta, WifiStatus>>
        /\ listening' = TRUE /\ Goto(t, "idle")
    BY <1>1, <1>8 DEF Serve, Next, vars, radio, flags
  <2> QED
    BY <1>1, <1>2, <2>1 DEF Bound
<1>9. ASSUME NEW t \in Autos PROVE ~AutoRun(t) /\ ~AutoBusy(t) /\ ~AutoRefused(t)
                                   /\ ~AutoDisconnect(t) /\ ~AutoScanned(t)
  BY <1>1 DEF LastScanMade, AutoRun, AutoBusy, AutoRefused, AutoDisconnect, AutoScanned
<1>11. CASE SoftAP \/ ServeAP
  <2>1. /\ pc[Loop] \in {"softAP", "serveAP"} /\ UNCHANGED <<world, left, sta, WifiStatus>>
        /\ listening' = TRUE \/ listening' = listening
        /\ \E label : Goto(Loop, label)
    BY <1>1, <1>11 DEF SoftAP, ServeAP, Next, vars, radio, server, flags
  <2> QED
    BY <1>1, <1>2, <2>1 DEF Bound
<1>12. CASE UNCHANGED vars
  BY <1>1, <1>12 DEF vars, radio, server, flags, Bound
<1> QED
  BY <1>1, <1>3, <1>4, <1>5, <1>6, <1>7, <1>8, <1>9, <1>11, <1>12 DEF Next, Step, AutoStep

\* Where the radio is good nobody leaves a join before it has ended: whoever
\* gives up waiting leaves another thread that waits.
THEOREM ConnectivityJoinWaited == Spec => []JoinWaited
<1>1. Init => JoinWaited
  BY DEF Init, Booted, JoinWaited
<1>2. IInv /\ JoinWaited /\ [Next]_vars => JoinWaited'
  BY NextJoinWaited
<1> QED
  BY <1>1, <1>2, ConnectivityInvariant, PTL DEF Spec

\* If every thread comes to its end (Quiesces), then for any number of tasks
\* and tries a thread that is about to join brings the device on line for good.
THEOREM ConnectivityEndsOnline == Spec /\ Quiesces => EndsOnline
<1> DEFINE Trying == world = {} /\ left /\ LastScanMade /\ \E t \in Threads : pc[t] = "begin"
<1>1. IInv /\ JoinWaited /\ Bound /\ [Next]_vars => Bound'
  BY NextBound
<1>2. IInv /\ Trying => Bound /\ left
  BY DEF IInv, WebRests, Bound, Own
<1>3. AllIdle /\ JoinWaited /\ Bound => Online
  BY DEF AllIdle, JoinWaited, Bound, Own, Online
<1> HIDE DEF Trying
<1>4. Spec => [](Trying => left /\ []Bound)
  BY <1>1, <1>2, ConnectivityInvariant, ConnectivityJoinWaited, PTL DEF Spec
<1>5. Spec /\ Quiesces => (Trying ~> []Online)
  BY <1>3, <1>4, ConnectivityJoinWaited, PTL DEF Quiesces
<1> QED
  BY <1>5 DEF EndsOnline, Trying
=============================================================================
