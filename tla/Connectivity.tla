---------------------------- MODULE Connectivity ----------------------------
(***************************************************************************)
(* The WiFi connection and the web server that is reached over it:         *)
(* connectWifi(), startAPMode(), WiFiAutoConnect() and the mode change of  *)
(* scanWiFi() (src/main/SettingWifi.h), AP Mode / On and Off in the menu   *)
(* (src/main/Menu.h) and the commands of the web console                   *)
(* (src/main/deviceServer.h).                                              *)
(*                                                                         *)
(* Three kinds of threads share the radio, the server and two flags with   *)
(* no lock: the loop, where the keys are handled; the task of the web      *)
(* server, where the commands run; and the tasks WiFiAutoConnect, one      *)
(* started at boot and one by every "Off" of the access point.             *)
(*                                                                         *)
(* A thread that waits polls WiFi.status() every 10 to 500 ms; the status  *)
(* follows the events of the radio at once.                                *)
(***************************************************************************)
EXTENDS Naturals

CONSTANTS
  Autos,       \* tasks WiFiAutoConnect that can run at a time
  bootTask,    \* the one that setup() starts
  MaxRetry,    \* times the connecting is tried again: 10
  Worlds       \* what may happen beside the keys: see world

Loop == "loop"
Web  == "web"
Threads == {Loop, Web} \cup Autos
Hardships == {"web", "ap", "drop", "radio"}

ASSUME AutosAssumption == bootTask \in Autos /\ Loop \notin Autos /\ Web \notin Autos
ASSUME RetryAssumption == MaxRetry \in Nat
ASSUME WorldsAssumption == Worlds \subseteq SUBSET Hardships

VARIABLES
  world,       \* for good: "web", somebody uses the web console; "ap", the access
               \* point may fail to start; "drop", the link may be lost; "radio",
               \* scans and joins may fail or take longer than the code waits
  left,        \* nobody presses a key or gives a command any more
  sta,         \* the station: "off", "idle", "joining" or "linked"
  ap,          \* the access point is on
  listening,   \* the web server listens
  client,      \* a browser has opened the console since the boot
  WifiStatus,  \* the global of that name, which the icon shows
  isAPMode,    \* the global of that name, which the AP Mode options show
  pc,          \* where each thread is
  retry,       \* of every WiFiAutoConnect
  allFailed    \* every network that WiFiMulti knows here has hasFailed

radio  == <<sta, ap>>
server == <<listening, client>>
flags  == <<WifiStatus, isAPMode>>
vars == <<world, left, radio, server, flags, pc, retry, allFailed>>

\* The state after a boot, when the first task is about to connect.
Booted(o, s, a, l, c, w, m, p, r, f) ==
  /\ o = FALSE /\ s = "off" /\ a = FALSE /\ l = FALSE /\ c = FALSE
  /\ w = FALSE /\ m = FALSE /\ f = FALSE
  /\ p = [t \in Threads |-> IF t = bootTask THEN "run" ELSE "idle"]
  /\ r = [t \in Autos |-> 0]

Init ==
  /\ world \in Worlds
  /\ Booted(left, sta, ap, listening, client, WifiStatus, isAPMode, pc, retry,
            allFailed)

Goto(t, label) == pc' = [pc EXCEPT ![t] = label]

\* WiFi.mode(WIFI_STA), and what a scan or a join enables.
StaOn == IF sta = "off" THEN "idle" ELSE sta

-----------------------------------------------------------------------------
(* The radio.                                                              *)

\* The station gets its address.
LinkUp ==
  /\ sta = "joining" /\ sta' = "linked"
  /\ UNCHANGED <<left, ap, server, flags, pc, retry, allFailed>>

\* It is given up: no such network, or a wrong password.
JoinFails ==
  /\ "radio" \in world
  /\ sta = "joining" /\ sta' = "idle"
  /\ UNCHANGED <<left, ap, server, flags, pc, retry, allFailed>>

\* The link is lost; for most reasons the library joins again by itself.
LinkDrops ==
  /\ "drop" \in world
  /\ sta = "linked" /\ sta' \in {"idle", "joining"}
  /\ UNCHANGED <<left, ap, server, flags, pc, retry, allFailed>>

-----------------------------------------------------------------------------
(* What the threads that connect have in common.                           *)

\* WiFi.begin(), which leaves a network that is joined; the loop has set the
\* mode before.
Join(t) ==
  /\ pc[t] = "begin"
  /\ sta' = "joining"
  /\ ap' = (t # Loop /\ ap)
  /\ Goto(t, "wait")
  /\ UNCHANGED <<left, server, flags, retry, allFailed>>

\* The seconds a thread waits are enough for a join that neither the radio nor
\* another thread that joins disturbs.
TimeIsUp(t) ==
  /\ sta # "linked"
  /\ \/ sta # "joining"
     \/ world \cap {"drop", "radio"} # {}
     \/ \E u \in Threads \ {t} : pc[u] = "wait"

\* 10 s have passed, or the station is linked.
WaitOver(t) ==
  /\ t \notin Autos /\ pc[t] = "wait"
  /\ sta = "linked" \/ TimeIsUp(t)
  /\ Goto(t, "check")
  /\ UNCHANGED <<left, radio, server, flags, retry, allFailed>>

\* Mutant of CheckLink: a failure leaves the flag alone.
CheckLinkKeeps(t) ==
  /\ pc[t] = "check"
  /\ WifiStatus' = IF t = Web THEN WifiStatus ELSE WifiStatus \/ sta = "linked"
  /\ Goto(t, IF sta = "linked" THEN "serve" ELSE "idle")
  /\ UNCHANGED <<left, radio, server, isAPMode, retry, allFailed>>

\* WiFi.status() is asked again; the web command sets no flag.
CheckLink(t) ==
  /\ pc[t] = "check"
  /\ WifiStatus' = IF t = Web THEN WifiStatus ELSE sta = "linked"
  /\ Goto(t, IF sta = "linked" THEN "serve" ELSE "idle")
  /\ UNCHANGED <<left, radio, server, isAPMode, retry, allFailed>>

\* Mutant of Serve: the command server.begin() is forgotten.
ServeForgotten(t) ==
  /\ pc[t] = "serve"
  /\ Goto(t, "idle")
  /\ UNCHANGED <<left, radio, server, flags, retry, allFailed>>

\* The handlers are added and server.begin() is called: the end of the thread,
\* or of the command.
Serve(t) ==
  /\ pc[t] = "serve"
  /\ listening' = TRUE
  /\ Goto(t, "idle")
  /\ UNCHANGED <<left, radio, client, flags, retry, allFailed>>

-----------------------------------------------------------------------------
(* WiFiAutoConnect.                                                        *)

\* Mutant of Again: retry is counted before it is compared.
AgainOnceMore(t) ==
  IF retry[t] <= MaxRetry
    THEN retry' = [retry EXCEPT ![t] = @ + 1] /\ Goto(t, "run")
    ELSE UNCHANGED retry /\ Goto(t, "check")

\* while (wifiMulti.run() != WL_CONNECTED && retry++ < 10)
Again(t) ==
  IF retry[t] < MaxRetry
    THEN retry' = [retry EXCEPT ![t] = @ + 1] /\ Goto(t, "run")
    ELSE UNCHANGED retry /\ Goto(t, "check")

\* run() finds the station linked, or starts its scan.
AutoRun(t) ==
  /\ pc[t] = "run"
  /\ \/ sta = "linked" /\ Goto(t, "check") /\ UNCHANGED sta
     \/ sta # "linked" /\ Goto(t, "scan") /\ sta' = StaOn
  /\ UNCHANGED <<left, ap, server, flags, retry, allFailed>>

\* Another scan is running, that of a thread or one that AutoDisconnect has
\* started; how long those take is left open.
AutoBusy(t) ==
  /\ pc[t] = "run" /\ sta # "linked"
  /\ Again(t)
  /\ UNCHANGED <<left, radio, server, flags, allFailed>>

\* The scan is refused, as it is while the station associates.
AutoRefused(t) ==
  /\ pc[t] = "run" /\ sta # "linked"
  /\ sta = "joining" \/ "radio" \in world
  /\ Goto(t, "refused") /\ sta' = StaOn
  /\ UNCHANGED <<left, ap, server, flags, retry, allFailed>>

\* Mutant of AutoDisconnect: this is not counted as a try.
AutoDisconnectUncounted(t) ==
  /\ pc[t] = "refused"
  /\ sta' \in {"idle", IF sta = "joining" THEN sta ELSE "idle"}
  /\ Goto(t, "run")
  /\ UNCHANGED <<left, ap, server, flags, retry, allFailed>>

\* Then WiFi.disconnect(), which ends a link and a join too, unless that still
\* associates; and a scan is started that nobody waits for.
AutoDisconnect(t) ==
  /\ pc[t] = "refused"
  /\ sta' \in {"idle", IF sta = "joining" THEN sta ELSE "idle"}
  /\ Again(t)
  /\ UNCHANGED <<left, ap, server, flags, allFailed>>

\* The scan has found a network that has not failed, the best of which is
\* joined; or only failed ones, which are all given another chance; or none, as
\* another thread can bring about that joins or deletes the result meanwhile.
\* A scan that never ends counts as refused.
AutoScanned(t) ==
  /\ pc[t] = "scan"
  /\ \/ ~allFailed /\ Goto(t, "begin") /\ UNCHANGED <<retry, allFailed>>
     \/ allFailed /\ allFailed' = FALSE /\ Again(t)
     \/ /\ "radio" \in world \/ \E u \in Threads \ {t} : pc[u] # "idle"
        /\ Again(t) /\ UNCHANGED allFailed
     \/ "radio" \in world /\ Goto(t, "refused") /\ UNCHANGED <<retry, allFailed>>
  /\ UNCHANGED <<left, radio, server, flags>>

\* 5 s have passed, and the network is marked as failed, perhaps the last that
\* was not; or the station is linked, and all marks are taken back.
AutoWaitOver(t) ==
  /\ pc[t] = "wait"
  /\ \/ sta = "linked" /\ Goto(t, "check") /\ allFailed' = FALSE /\ UNCHANGED retry
     \/ TimeIsUp(t) /\ Again(t) /\ allFailed' \in {allFailed, TRUE}
  /\ UNCHANGED <<left, radio, server, flags>>

-----------------------------------------------------------------------------
(* The keys, on the loop.                                                  *)

Free == pc[Loop] = "idle" /\ ~left

\* connectWifi(), up to WiFi.mode().
ConnectWifi ==
  /\ Free
  /\ listening' = (listening /\ sta # "linked")
  /\ Goto(Loop, "begin")
  /\ UNCHANGED <<left, radio, client, flags, retry, allFailed>>

\* AP Mode / On, up to WiFi.softAP().
APModeOn ==
  /\ Free
  /\ listening' = FALSE
  /\ sta' = "off" /\ ap' = TRUE
  /\ Goto(Loop, "softAP")
  /\ UNCHANGED <<left, client, flags, retry, allFailed>>

\* The access point starts; or it, or the name service, fails.
SoftAP ==
  /\ pc[Loop] = "softAP"
  /\ \/ ap' = TRUE /\ Goto(Loop, "serveAP")
     \/ "ap" \in world /\ UNCHANGED ap /\ Goto(Loop, "idle")
  /\ UNCHANGED <<left, sta, server, flags, retry, allFailed>>

ServeAP ==
  /\ pc[Loop] = "serveAP"
  /\ listening' = TRUE /\ isAPMode' = TRUE
  /\ Goto(Loop, "idle")
  /\ UNCHANGED <<left, radio, client, WifiStatus, retry, allFailed>>

\* AP Mode / Off, with one of the Autos free; it adds its networks once more.
APModeOff ==
  /\ Free
  /\ sta' = StaOn /\ ap' = FALSE
  /\ listening' = FALSE /\ isAPMode' = FALSE
  /\ \E t \in Autos :
       pc[t] = "idle" /\ Goto(t, "run") /\ retry' = [retry EXCEPT ![t] = 0]
  /\ allFailed' = FALSE
  /\ UNCHANGED <<left, client, WifiStatus>>

\* What scanWiFi() and the web's "scan wifi" do to the mode.
ScanMode ==
  /\ sta' = StaOn /\ ap' = FALSE
  /\ UNCHANGED <<left, server, flags, pc, retry, allFailed>>

ScanWiFi == Free /\ ScanMode

Leave == ~left /\ left' = TRUE /\ UNCHANGED <<radio, server, flags, pc, retry, allFailed>>

-----------------------------------------------------------------------------
(* The web console.                                                        *)

Reachable == sta = "linked" \/ ap
Command == client /\ Reachable /\ pc[Web] = "idle" /\ ~left

ClientOpens ==
  /\ "web" \in world /\ listening /\ Reachable
  /\ ~client /\ client' = TRUE
  /\ UNCHANGED <<left, radio, listening, flags, pc, retry, allFailed>>

\* "wifi-<SSID>-<PASSWORD>": the server ends first; then the syntax is looked at.
WebWifi ==
  /\ Command
  /\ listening' = FALSE
  /\ Goto(Web, "begin") \/ UNCHANGED pc
  /\ UNCHANGED <<left, radio, client, flags, retry, allFailed>>

\* "scan wifi"
WebScan == Command /\ ScanMode

\* Reset in the menu, or "reboot".
Restart ==
  /\ Free \/ Command
  /\ Booted(left', sta', ap', listening', client', WifiStatus', isAPMode', pc', retry',
            allFailed')

-----------------------------------------------------------------------------
AutoStep(t) ==
  \/ AutoRun(t) \/ AutoBusy(t) \/ AutoRefused(t) \/ AutoDisconnect(t)
  \/ AutoScanned(t) \/ AutoWaitOver(t)
Step(t) == Join(t) \/ WaitOver(t) \/ CheckLink(t) \/ Serve(t)
UserStep ==
  \/ ConnectWifi \/ APModeOn \/ APModeOff \/ ScanWiFi \/ Leave
  \/ WebWifi \/ WebScan \/ Restart

Next ==
  /\ \/ LinkUp \/ JoinFails \/ LinkDrops
     \/ \E t \in Threads : Step(t)
     \/ \E t \in Autos : AutoStep(t)
     \/ SoftAP \/ ServeAP
     \/ UserStep \/ ClientOpens
  /\ UNCHANGED world

Spec == Init /\ [][Next]_vars

\* Every thread is scheduled; where the radio is good, a join ends.
FairSpec ==
  /\ Spec
  /\ \A t \in Threads : WF_vars(Step(t) /\ UNCHANGED world)
  /\ \A t \in Autos : WF_vars(AutoStep(t) /\ UNCHANGED world)
  /\ WF_vars((SoftAP \/ ServeAP) /\ UNCHANGED world)
  /\ WF_vars(LinkUp /\ "radio" \notin world /\ UNCHANGED world)

-----------------------------------------------------------------------------
(* Properties.                                                             *)

Labels == {"idle", "begin", "wait", "check", "serve",
           "run", "scan", "refused", "softAP", "serveAP"}

\* The variables keep to their types, and each thread to its own labels.
TypeOK ==
  /\ world \in SUBSET Hardships /\ left \in BOOLEAN
  /\ sta \in {"off", "idle", "joining", "linked"} /\ ap \in BOOLEAN
  /\ listening \in BOOLEAN /\ client \in BOOLEAN
  /\ WifiStatus \in BOOLEAN /\ isAPMode \in BOOLEAN
  /\ pc \in [Threads -> Labels]
  /\ \A t \in Threads : /\ pc[t] \in {"run", "scan", "refused"} => t \in Autos
                        /\ pc[t] \in {"softAP", "serveAP"} => t = Loop
  /\ retry \in [Autos -> 0..MaxRetry]
  /\ allFailed \in BOOLEAN

AllIdle == \A t \in Threads : pc[t] = "idle"

\* When no thread is about to change it, a device that believes it is connected
\* (and is), or in AP mode (and is), serves its pages: no order of the threads
\* leaves the server ended after the last of them has begun it.  A web command
\* that fails does leave it so, and an access point that fails to start.
ServesWhenOnline ==
  AllIdle /\ "web" \notin world =>
    /\ WifiStatus /\ sta = "linked" => listening
    /\ isAPMode /\ ap /\ "ap" \notin world => listening

\* Once nobody gives a command any more, every thread comes to its end,
\* whatever the radio does: the waiting and the trying are bounded.
Quiesces == left ~> []AllIdle

\* The reconnecting tasks have made their last scan.
LastScanMade ==
  \A t \in Autos : /\ pc[t] \notin {"run", "scan", "refused"}
                   /\ pc[t] \in {"begin", "wait"} => retry[t] = MaxRetry

\* A thread that is about to join brings the device on line for good where the
\* radio is good and nobody disturbs it any more: no other thread that still
\* joins, serves or gives up takes it off again.  One that still scans may: its
\* refused scan ends the link, and its tries may be over when it looks again.
Online == listening /\ WifiStatus /\ sta = "linked"
EndsOnline ==
  (world = {} /\ left /\ LastScanMade /\ \E t \in Threads : pc[t] = "begin") ~> []Online
=============================================================================
