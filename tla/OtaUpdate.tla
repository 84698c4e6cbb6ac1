------------------------------ MODULE OtaUpdate ------------------------------
(***************************************************************************)
(* The update over the air: the requests /ota/start and /ota/upload and    *)
(* the reboot of ElegantOTA.cpp, over the one object Update of Updater.cpp *)
(* that all of them share.                                                 *)
(*                                                                         *)
(* The web server's task runs every callback to its end; the requests and  *)
(* the pieces of several clients arrive in any order between each other,   *)
(* and any connection can be lost. The reboot is made by the loop of the   *)
(* program, which does not come by while a program of the menu runs.       *)
(*                                                                         *)
(* A piece of an image stands for at least one sector of the flash.        *)
(***************************************************************************)
EXTENDS Integers, Sequences

CONSTANTS
    Uploads,        \* the images that clients send
    NoUpload,
    Firmware,       \* those that are sent with mode=fr, the others with mode=fs
    Size,           \* Size[u]: the pieces of u
    Space           \* the pieces that a partition holds

ASSUME OtaAssumption ==
    /\ Size \in [Uploads -> Nat \ {0}]
    /\ NoUpload \notin Uploads /\ Firmware \subseteq Uploads
    /\ Space \in Nat /\ \A u \in Uploads : Size[u] <= Space

Whole(u) == [i \in 1 .. Size[u] |-> <<u, i>>]
Mode(u) == IF u \in Firmware THEN "app" ELSE "fs"
Modes == {"app", "fs"}

\* A partition that is half written, or was so when an update ended.
Partial == << <<NoUpload, 0>> >>

VARIABLES
    sent,       \* sent[u]: the pieces that have arrived, or Idle
    running,    \* _size > 0
    error,      \* _error
    mode,       \* _command, and with it the partition
    written,    \* what was written since begin
    target,     \* _target_md5: the image it is of, or NoUpload
    flash,      \* flash[m]: the partition that is not run, and the file system
    runs,       \* the firmware that runs, or NoUpload for the first one
    boot,       \* esp_ota_set_boot_partition has chosen flash["app"]
    reboot,     \* _reboot
    due,        \* two seconds have passed since it was last set
    loopAt,     \* where loop() is: "keys", "program" or "ota"
    left,       \* nobody starts an update any more
    own,        \* the upload whose start began the update, while no other has come
    kept        \* the firmware that was installed and not written over since

update == <<running, error, mode, written, target>>
device == <<flash, runs, boot, kept>>
timer == <<reboot, due>>
vars == <<sent, update, device, timer, loopAt, left, own>>

Idle == -1

\* Everything but the flash is lost in a restart.
Booted(s, r, e, m, w, t, a, d, l, o, k) ==
    /\ s = [u \in Uploads |-> Idle]
    /\ r = FALSE /\ e = FALSE /\ m = "app" /\ w = <<>> /\ t = NoUpload
    /\ a = FALSE /\ d = FALSE /\ l = "keys" /\ o = NoUpload /\ k = NoUpload

Init ==
    /\ Booted(sent, running, error, mode, written, target, reboot, due, loopAt, own, kept)
    /\ flash = [m \in Modes |-> <<>>]
    /\ runs = NoUpload /\ boot = FALSE
    /\ left = FALSE

-----------------------------------------------------------------------------
(* Update: setMD5 and begin, write, end.                                   *)

\* Mutant of Begin: the mode is not passed on.
BeginUntold(u) ==
    IF running THEN target' = u /\ UNCHANGED <<running, error, mode, written>>
    ELSE /\ running' = TRUE /\ error' = FALSE /\ UNCHANGED mode
         /\ written' = <<>> /\ target' = NoUpload

\* setMD5 comes first; begin forgets the sum, and changes nothing, not even
\* the error, when an update is running.
Begin(u) ==
    IF running THEN target' = u /\ UNCHANGED <<running, error, mode, written>>
    ELSE /\ running' = TRUE /\ error' = FALSE /\ mode' = Mode(u)
         /\ written' = <<>> /\ target' = NoUpload

\* Mutant of Fail: the size is not reset.
FailRunning == error' = TRUE /\ mode' = "app" /\ written' = <<>> /\ UNCHANGED <<running, target>>
\* _abort
Fail == running' = FALSE /\ error' = TRUE /\ mode' = "app" /\ written' = <<>> /\ UNCHANGED target

\* The first sector must be that of a firmware, and there must be room.
Writable(u) == /\ Len(written) < Space
               /\ mode = "app" /\ written = <<>> => u \in Firmware

\* Mutant of Write: whatever the mode, the partition of the firmware is written.
WriteApp(u) ==
    IF Writable(u)
    THEN /\ flash' = [flash EXCEPT !["app"] = Partial]
         /\ kept' = IF mode = "app" THEN NoUpload ELSE kept
    ELSE UNCHANGED <<flash, kept>>

\* What the piece does to the partition.
Write(u) ==
    IF Writable(u)
    THEN /\ flash' = [flash EXCEPT ![mode] = Partial]
         /\ kept' = IF mode = "app" THEN NoUpload ELSE kept
    ELSE UNCHANGED <<flash, kept>>

Written(u) == Append(written, <<u, sent[u] + 1>>)

\* esp_ota_set_boot_partition, and the boot loader: an image may be longer
\* than it says.
Bootable(content, u) ==
    u \in Firmware /\ Len(content) >= Size[u] /\ SubSeq(content, 1, Size[u]) = Whole(u)

Verified(content) ==
    /\ target # NoUpload => content = Whole(target)
    /\ mode = "app" => \E u \in Firmware : Bootable(content, u)

-----------------------------------------------------------------------------
(* The requests of a client, which follows the page: start, upload.        *)

Alone(u) == own' = IF own = u THEN u ELSE NoUpload

Start(u) ==
    /\ ~left /\ sent[u] = Idle
    /\ Begin(u)
    /\ sent' = [sent EXCEPT ![u] = 0]
    /\ own' = IF running THEN NoUpload ELSE u
    /\ UNCHANGED <<device, timer, loopAt, left>>

\* Update.write: a piece that comes when no update runs is dropped.
Piece(u) ==
    /\ sent[u] \in 0 .. Size[u] - 2
    /\ IF running THEN Write(u) ELSE UNCHANGED <<flash, kept>>
    /\ IF running /\ Writable(u)
       THEN written' = Written(u) /\ UNCHANGED <<running, error, mode, target>>
       ELSE IF running THEN Fail ELSE UNCHANGED update
    /\ sent' = [sent EXCEPT ![u] = @ + 1]
    /\ Alone(u)
    /\ UNCHANGED <<runs, boot, timer, loopAt, left>>

\* _verifyEnd: the partition is enabled, and the next boot takes it.
EndUpdate(content) ==
    /\ running' = FALSE /\ mode' = "app" /\ written' = <<>> /\ UNCHANGED <<error, target>>
    /\ flash' = [flash EXCEPT ![mode] = content]
    /\ boot' = (boot \/ mode = "app")
    /\ kept' = IF mode = "app" THEN CHOOSE v \in Firmware : Bootable(content, v) ELSE kept

\* The last piece, and Update.end(true) if it was written.
LastPiece(u) ==
    /\ sent[u] = Size[u] - 1
    /\ IF running /\ Writable(u) /\ Verified(Written(u)) THEN EndUpdate(Written(u))
       ELSE /\ IF running THEN Write(u) /\ Fail ELSE UNCHANGED <<flash, kept, update>>
            /\ UNCHANGED boot
    /\ sent' = [sent EXCEPT ![u] = @ + 1]
    /\ Alone(u)
    /\ UNCHANGED <<runs, timer, loopAt, left>>

\* The answer: "OK", and a reboot, unless Update has an error.
Finish(u) ==
    /\ sent[u] = Size[u]
    /\ IF ~error THEN reboot' = TRUE /\ due' = FALSE ELSE UNCHANGED timer
    /\ sent' = [sent EXCEPT ![u] = Idle]
    /\ UNCHANGED <<update, device, loopAt, left, own>>

\* A connection is lost; nobody tells Update.
Disconnect(u) ==
    /\ sent[u] # Idle
    /\ sent' = [sent EXCEPT ![u] = Idle]
    /\ UNCHANGED <<update, device, timer, loopAt, left, own>>

-----------------------------------------------------------------------------
(* loop(): handleKeypad and ElegantOTA.loop in turn.                       *)

\* The boot loader runs the chosen partition if there is an image in it, and
\* the old one if not.
Restart ==
    /\ Booted(sent', running', error', mode', written', target', reboot', due', loopAt', own', kept')
    /\ \/ \E u \in Firmware :
             /\ boot /\ Bootable(flash["app"], u)
             /\ runs' = u /\ boot' = FALSE
             /\ flash' = [flash EXCEPT !["app"] = IF runs = NoUpload THEN <<>> ELSE Whole(runs)]
       \/ /\ ~boot \/ \A u \in Firmware : ~Bootable(flash["app"], u)
          /\ UNCHANGED <<flash, runs, boot>>
    /\ UNCHANGED left

TwoSeconds ==
    /\ reboot /\ ~due /\ due' = TRUE
    /\ UNCHANGED <<sent, update, device, reboot, loopAt, left, own>>

HandleKeypad ==
    /\ loopAt = "keys" /\ loopAt' \in {"ota", "program"}
    /\ UNCHANGED <<sent, update, device, timer, left, own>>

ProgramEnds ==
    /\ loopAt = "program" /\ loopAt' = "ota"
    /\ UNCHANGED <<sent, update, device, timer, left, own>>

\* Mutant of OtaLoop: every call waits for two seconds anew.
OtaLoopRearmed ==
    /\ loopAt = "ota"
    /\ loopAt' = "keys" /\ due' = FALSE
    /\ UNCHANGED <<sent, update, device, reboot, left, own>>

OtaLoop ==
    /\ loopAt = "ota"
    /\ IF reboot /\ due THEN Restart
       ELSE loopAt' = "keys" /\ UNCHANGED <<sent, update, device, timer, left, own>>

Leave == ~left /\ left' = TRUE /\ UNCHANGED <<sent, update, device, timer, loopAt, own>>

-----------------------------------------------------------------------------
Request(u) == Start(u) \/ Piece(u) \/ LastPiece(u) \/ Finish(u)
Loop == HandleKeypad \/ ProgramEnds \/ OtaLoop

Next ==
    \/ \E u \in Uploads : Request(u) \/ Disconnect(u)
    \/ TwoSeconds
    \/ Loop
    \/ Restart      \* Reset in the menu, a command, the power
    \/ Leave

\* A program of the menu need not end; everything else of the loop goes on.
Spec ==
    /\ Init /\ [][Next]_vars
    /\ WF_vars(TwoSeconds) /\ WF_vars(loopAt # "program" /\ Loop)

-----------------------------------------------------------------------------
\* The variables keep to their types; what is written is within the partition,
\* and an update that failed does not go on.
TypeOK ==
    /\ \A u \in Uploads : sent[u] \in Idle .. Size[u]
    /\ running \in BOOLEAN /\ error \in BOOLEAN /\ ~(running /\ error)
    /\ mode \in Modes /\ (written # <<>> => running)
    /\ Len(written) <= Space
    /\ \A i \in DOMAIN written : written[i][1] \in Uploads /\ written[i][2] \in 1 .. Size[written[i][1]]
    /\ target \in Uploads \cup {NoUpload}
    /\ runs \in Firmware \cup {NoUpload} /\ kept \in Firmware \cup {NoUpload}
    /\ boot \in BOOLEAN /\ reboot \in BOOLEAN /\ due \in BOOLEAN /\ left \in BOOLEAN
    /\ loopAt \in {"keys", "program", "ota"}
    /\ own \in Uploads \cup {NoUpload}

\* An update whose start found none running, and which met no other client,
\* is installed in its own partition when it is answered, and without an
\* error: whatever connections were lost, and updates failed, before it.
OwnInstalled ==
    \A u \in Uploads : own = u /\ sent[u] = Size[u] =>
        /\ ~error /\ ~running
        /\ flash[Mode(u)] = Whole(u)
        /\ u \in Firmware => boot

\* The device starts the firmware that was installed last, unless a piece of
\* another was written over it; then, or if none was, the one that ran.
BootsInstalled ==
    [][Restart => runs' = IF kept # NoUpload THEN kept ELSE runs]_vars

\* The reboot that was promised comes, if no program of the menu runs for
\* good and nobody starts updates any more: the time is counted anew by every
\* update, and looked at by the loop only.
RebootComes == []<>(loopAt # "program") => (reboot /\ left ~> ~reboot)

\* An upload that is answered "OK" is installed.
OKIsInstalled ==
    [][\A u \in Uploads : Finish(u) /\ ~error => flash[Mode(u)] = Whole(u)]_vars
=============================================================================
