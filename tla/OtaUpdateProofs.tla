--------------------------- MODULE OtaUpdateProofs ---------------------------
(***************************************************************************)
(* Proofs about OtaUpdate, for any images of any size, as many clients as  *)
(* there are images, and a partition of any size that holds each of them.  *)
(***************************************************************************)
EXTENDS OtaUpdate, SequenceTheorems, TLAPS

Pieces == (Uploads \cup {NoUpload}) \X Nat
Prefix(u, n) == [i \in 1 .. n |-> <<u, i>>]

\* What TypeOK leaves out: where sequences and functions live.
Shape ==
    /\ TypeOK
    /\ sent \in [Uploads -> Int]
    /\ written \in Seq(Pieces)
    /\ flash \in [Modes -> Seq(Pieces)]

\* The update of own is its own: what was written is what it has sent, into
\* its partition and with no sum to compare; and in the end it is there.
OwnProgress ==
    \A u \in Uploads : own = u =>
        /\ sent[u] \in 0 .. Size[u] - 1 =>
              running /\ mode = Mode(u) /\ target = NoUpload /\ written = Prefix(u, sent[u])
        /\ sent[u] = Size[u] =>
              ~error /\ ~running /\ flash[Mode(u)] = Whole(u) /\ (u \in Firmware => boot)

\* What boot chooses holds the firmware kept; if there is none, no firmware.
KeptBoots ==
    /\ kept # NoUpload => boot /\ Bootable(flash["app"], kept)
    /\ kept = NoUpload /\ boot => \A u \in Firmware : ~Bootable(flash["app"], u)

IInv == Shape /\ OwnProgress /\ KeptBoots

-----------------------------------------------------------------------------
(* Images and their pieces.                                                *)

LEMMA Constants ==
    /\ \A u \in Uploads : Size[u] \in Nat \ {0} /\ Size[u] <= Space /\ u # NoUpload
    /\ Firmware \subseteq Uploads /\ Space \in Nat
    /\ \A u \in Uploads : Mode(u) \in Modes
BY OtaAssumption DEF Mode, Modes

\* The first n pieces of an image are a sequence of n pieces.
LEMMA PrefixSeq ==
  ASSUME NEW u \in Uploads, NEW n \in Nat
  PROVE  Prefix(u, n) \in Seq(Pieces) /\ Len(Prefix(u, n)) = n
<1>1. Prefix(u, n) \in [1 .. n -> Pieces]
  BY DEF Prefix, Pieces
<1>2. Prefix(u, n) \in Seq(Pieces)
  BY <1>1, SeqDef, Zenon
<1>3. DOMAIN Prefix(u, n) = 1 .. Len(Prefix(u, n)) /\ Len(Prefix(u, n)) \in Nat
  BY <1>2, LenProperties
<1>4. DOMAIN Prefix(u, n) = 1 .. n
  BY DEF Prefix
<1>5. ASSUME NEW a \in Nat, NEW b \in Nat, 1 .. a = 1 .. b, a < b PROVE FALSE
  <2>1. b \in 1 .. b /\ b \notin 1 .. a
    BY <1>5
  <2> QED
    BY <1>5, <2>1
<1> DEFINE m == Len(Prefix(u, n))
<1>6. m \in Nat /\ 1 .. m = 1 .. n
  BY <1>3, <1>4
<1> HIDE DEF m
<1>7. ~(m < n) /\ ~(n < m)
  BY <1>5, <1>6
<1>8. m = n
  BY <1>6, <1>7
<1> QED
  BY <1>2, <1>8 DEF m

\* The next piece makes the next prefix.
LEMMA PrefixGrows ==
  ASSUME NEW u \in Uploads, NEW n \in Nat
  PROVE  Append(Prefix(u, n), <<u, n + 1>>) = Prefix(u, n + 1)
<1> DEFINE s == Append(Prefix(u, n), <<u, n + 1>>)
           t == Prefix(u, n + 1)
<1>1. <<u, n + 1>> \in Pieces
  BY DEF Pieces
<1>2. Prefix(u, n) \in Seq(Pieces) /\ Len(Prefix(u, n)) = n
  BY PrefixSeq
<1>3. s \in Seq(Pieces) /\ Len(s) = n + 1
  BY <1>1, <1>2
<1>4. t \in Seq(Pieces) /\ Len(t) = n + 1
  BY PrefixSeq
<1>5. ASSUME NEW i \in 1 .. n + 1 PROVE s[i] = t[i]
  <2>1. t[i] = <<u, i>>
    BY DEF Prefix
  <2>2. CASE i \in 1 .. n
    <3>1. s[i] = Prefix(u, n)[i]
      BY <1>1, <1>2, <2>2
    <3> QED
      BY <2>1, <2>2, <3>1 DEF Prefix
  <2>3. CASE i = n + 1
    <3>1. s[n + 1] = <<u, n + 1>>
      <4> HIDE DEF Prefix
      <4> QED
        BY <1>1, <1>2
    <3> QED
      BY <2>1, <2>3, <3>1
  <2>4. i \in 1 .. n \/ i = n + 1
    BY <1>5
  <2> QED
    BY <2>2, <2>3, <2>4, Zenon
<1> HIDE DEF s, t
<1>6. s = t
  BY <1>3, <1>4, <1>5, SeqEqual
<1> QED
  BY <1>6 DEF s, t

LEMMA WholeSeq ==
  ASSUME NEW u \in Uploads
  PROVE  Whole(u) = Prefix(u, Size[u]) /\ Whole(u) \in Seq(Pieces) /\ Len(Whole(u)) = Size[u]
<1>1. Whole(u) = Prefix(u, Size[u])
  BY DEF Whole, Prefix
<1> QED
  BY <1>1, PrefixSeq, Constants

\* A whole firmware can be booted.
LEMMA WholeBoots ==
  ASSUME NEW u \in Firmware
  PROVE  Bootable(Whole(u), u)
<1>1. u \in Uploads
  BY Constants
<1>2. Whole(u) \in Seq(Pieces) /\ Len(Whole(u)) = Size[u] /\ Size[u] \in Nat
  BY <1>1, WholeSeq, Constants
<1>3. SubSeq(Whole(u), 1, Size[u]) = Whole(u)
  BY <1>2, SubSeqFull
<1> QED
  BY <1>2, <1>3 DEF Bootable

\* A partition that boots begins with the first piece of that firmware.
LEMMA BootsFirst ==
  ASSUME NEW c \in Seq(Pieces), NEW u \in Uploads, Bootable(c, u)
  PROVE  c[1] = <<u, 1>>
<1>1. Size[u] \in Nat \ {0} /\ Len(c) \in Nat /\ Size[u] <= Len(c)
  BY Constants DEF Bootable
<1>2. \A i \in 1 .. Size[u] : c[i] \in Pieces
  BY <1>1, ElementOfSeq
<1>3. SubSeq(c, 1, Size[u])[1] = c[1]
  BY <1>1, <1>2, SubSeqProperties
<1>4. Whole(u)[1] = <<u, 1>>
  BY <1>1 DEF Whole
<1> QED
  BY <1>3, <1>4 DEF Bootable

\* So at most one firmware boots from it, and none from a partition that is
\* half written.
LEMMA BootsOne ==
  ASSUME NEW c \in Seq(Pieces), NEW u \in Uploads, NEW v \in Uploads,
         Bootable(c, u), Bootable(c, v)
  PROVE  u = v
<1>1. c[1] = <<u, 1>> /\ c[1] = <<v, 1>>
  BY BootsFirst
<1> QED
  BY <1>1

LEMMA PartialBootsNone ==
  Partial \in Seq(Pieces) /\ \A u \in Firmware : ~Bootable(Partial, u)
<1>1. Partial \in Seq(Pieces) /\ Partial[1] = <<NoUpload, 0>>
  BY DEF Partial, Pieces
<1>2. ASSUME NEW u \in Firmware, Bootable(Partial, u) PROVE FALSE
  <2>1. u \in Uploads
    BY Constants
  <2>2. Partial[1] = <<u, 1>>
    BY <1>1, <1>2, <2>1, BootsFirst
  <2> QED
    BY <1>1, <2>2
<1> QED
  BY <1>1, <1>2

-----------------------------------------------------------------------------
(* Types.                                                                  *)

LEMMA InitIInv == Init => IInv
<1> SUFFICES ASSUME Init PROVE IInv
  OBVIOUS
<1>1. /\ sent \in [Uploads -> Int] /\ \A u \in Uploads : sent[u] = Idle
      /\ running = FALSE /\ error = FALSE /\ mode = "app" /\ written = <<>> /\ target = NoUpload
      /\ reboot = FALSE /\ due = FALSE /\ loopAt = "keys" /\ own = NoUpload /\ kept = NoUpload
  <2>1. Booted(sent, running, error, mode, written, target, reboot, due, loopAt, own, kept)
    BY Zenon DEF Init
  <2>2. /\ sent = [u \in Uploads |-> Idle]
        /\ running = FALSE /\ error = FALSE /\ mode = "app" /\ written = <<>> /\ target = NoUpload
        /\ reboot = FALSE /\ due = FALSE /\ loopAt = "keys" /\ own = NoUpload /\ kept = NoUpload
    BY <2>1, Zenon DEF Booted
  <2>3. sent \in [Uploads -> Int] /\ \A u \in Uploads : sent[u] = Idle
    BY <2>2 DEF Idle
  <2> QED
    BY <2>2, <2>3, Zenon
<1>2. flash \in [Modes -> Seq(Pieces)] /\ runs = NoUpload /\ boot = FALSE /\ left = FALSE
  BY DEF Init
<1>3. /\ running \in BOOLEAN /\ error \in BOOLEAN /\ ~(running /\ error)
      /\ boot \in BOOLEAN /\ reboot \in BOOLEAN /\ due \in BOOLEAN /\ left \in BOOLEAN
  BY <1>1, <1>2, Zenon
<1>4. /\ \A u \in Uploads : sent[u] \in Idle .. Size[u]
      /\ Len(written) <= Space /\ DOMAIN written = {} /\ written \in Seq(Pieces)
  BY <1>1, Constants DEF Idle
<1>5. Shape
  BY <1>1, <1>2, <1>3, <1>4 DEF Shape, TypeOK, Modes
<1> QED
  BY <1>1, <1>2, <1>5, Constants DEF IInv, OwnProgress, KeptBoots

\* What a client has sent, after its next piece.
LEMMA SentShape ==
  ASSUME Shape, NEW u \in Uploads, NEW n \in Idle .. Size[u], sent' = [sent EXCEPT ![u] = n]
  PROVE  /\ sent' \in [Uploads -> Int] /\ \A v \in Uploads : sent'[v] \in Idle .. Size[v]
         /\ sent'[u] = n /\ \A v \in Uploads : v # u => sent'[v] = sent[v]
BY Constants DEF Shape, TypeOK, Idle

\* What a piece adds to what was written.
LEMMA WrittenShape ==
  ASSUME Shape, NEW u \in Uploads, sent[u] \in 0 .. Size[u] - 1, Writable(u)
  PROVE  /\ Written(u) \in Seq(Pieces) /\ Len(Written(u)) <= Space
         /\ \A i \in DOMAIN Written(u) :
               Written(u)[i][1] \in Uploads /\ Written(u)[i][2] \in 1 .. Size[Written(u)[i][1]]
<1> DEFINE e == <<u, sent[u] + 1>>
<1>1. Size[u] \in Nat \ {0} /\ Space \in Nat
  BY Constants
<1>2. e \in Pieces /\ e[1] = u /\ e[2] \in 1 .. Size[u]
  BY <1>1 DEF Pieces
<1>3. written \in Seq(Pieces) /\ Len(written) \in Nat /\ Len(written) < Space
  BY DEF Shape, Writable
<1> HIDE DEF e
<1>4. /\ Append(written, e) \in Seq(Pieces) /\ Len(Append(written, e)) = Len(written) + 1
      /\ \A i \in 1 .. Len(written) : Append(written, e)[i] = written[i]
      /\ Append(written, e)[Len(written) + 1] = e
      /\ DOMAIN Append(written, e) = 1 .. Len(written) + 1
  BY <1>2, <1>3
<1>5. \A i \in 1 .. Len(written) :
         written[i][1] \in Uploads /\ written[i][2] \in 1 .. Size[written[i][1]]
  BY <1>3 DEF Shape, TypeOK
<1>6. Written(u) = Append(written, e)
  BY DEF Written, e
<1>7. \A i \in 1 .. Len(written) + 1 : i \in 1 .. Len(written) \/ i = Len(written) + 1
  BY <1>3
<1>8. ASSUME NEW i \in DOMAIN Append(written, e)
      PROVE  /\ Append(written, e)[i][1] \in Uploads
             /\ Append(written, e)[i][2] \in 1 .. Size[Append(written, e)[i][1]]
  BY <1>2, <1>4, <1>5, <1>7, <1>8, Zenon
<1> QED
  BY <1>1, <1>3, <1>4, <1>6, <1>8

\* What a piece, or the failure of one, does to the partitions.
LEMMA WriteShape ==
  ASSUME Shape, NEW u \in Uploads, Write(u)
  PROVE  flash' \in [Modes -> Seq(Pieces)] /\ kept' \in Firmware \cup {NoUpload}
BY PartialBootsNone DEF Write, Shape, TypeOK

\* A whole update: it is a firmware that boots, if it is in that mode.
LEMMA EndShape ==
  ASSUME Shape, NEW u \in Uploads, sent[u] \in 0 .. Size[u] - 1,
         Writable(u), Verified(Written(u)), EndUpdate(Written(u))
  PROVE  /\ flash' \in [Modes -> Seq(Pieces)] /\ kept' \in Firmware \cup {NoUpload}
         /\ mode = "app" => kept' \in Firmware /\ Bootable(Written(u), kept')
         /\ mode # "app" => kept' = kept
         /\ flash' = [flash EXCEPT ![mode] = Written(u)]
         /\ boot' = (boot \/ mode = "app") /\ boot' \in BOOLEAN
<1>1. Written(u) \in Seq(Pieces)
  BY WrittenShape
<1>2. mode = "app" => \E v \in Firmware : Bootable(Written(u), v)
  BY DEF Verified
<1>3. mode = "app" => kept' = CHOOSE v \in Firmware : Bootable(Written(u), v)
  BY DEF EndUpdate
<1>4. mode = "app" => kept' \in Firmware /\ Bootable(Written(u), kept')
  BY <1>2, <1>3, Zenon
<1>5. mode # "app" => kept' = kept
  BY DEF EndUpdate
<1>6. flash' = [flash EXCEPT ![mode] = Written(u)] /\ boot' = (boot \/ mode = "app")
  BY DEF EndUpdate
<1>7. boot' \in BOOLEAN
  BY <1>6, Zenon
<1>8. flash' \in [Modes -> Seq(Pieces)] /\ kept' \in Firmware \cup {NoUpload}
  BY <1>1, <1>4, <1>5, <1>6 DEF Shape, TypeOK
<1> QED
  BY <1>4, <1>5, <1>6, <1>7, <1>8

LEMMA StartShape ==
  ASSUME Shape, NEW u \in Uploads, Start(u)
  PROVE  Shape'
<1>1. sent' \in [Uploads -> Int] /\ \A v \in Uploads : sent'[v] \in Idle .. Size[v]
  <2>1. 0 \in Idle .. Size[u] /\ sent' = [sent EXCEPT ![u] = 0]
    BY Constants DEF Start, Idle
  <2> QED
    BY <2>1, SentShape
<1>2. running' \in BOOLEAN /\ error' \in BOOLEAN /\ ~(running' /\ error') /\ (written' # <<>> => running')
  <2>1. CASE running
    BY <2>1, Zenon DEF Start, Begin, Shape, TypeOK
  <2>2. CASE ~running
    BY <2>2 DEF Start, Begin
  <2> QED
    BY <2>1, <2>2
<1>3. /\ mode' \in Modes /\ written' \in Seq(Pieces) /\ Len(written') <= Space
      /\ target' \in Uploads \cup {NoUpload} /\ own' \in Uploads \cup {NoUpload}
      /\ \A i \in DOMAIN written' :
            written'[i][1] \in Uploads /\ written'[i][2] \in 1 .. Size[written'[i][1]]
  BY Constants DEF Start, Begin, Shape, TypeOK
<1>4. UNCHANGED <<device, timer, loopAt, left>>
  BY DEF Start
<1>5. boot' \in BOOLEAN /\ reboot' \in BOOLEAN /\ due' \in BOOLEAN /\ left' \in BOOLEAN
  BY <1>4, Zenon DEF Shape, TypeOK, device, timer
<1> QED
  BY <1>1, <1>2, <1>3, <1>4, <1>5 DEF Shape, TypeOK, device, timer

LEMMA PieceShape ==
  ASSUME Shape, NEW u \in Uploads, Piece(u)
  PROVE  Shape'
<1>1. sent[u] \in 0 .. Size[u] - 1 /\ sent[u] + 1 \in Idle .. Size[u]
      /\ sent' = [sent EXCEPT ![u] = sent[u] + 1]
  BY Constants DEF Piece, Idle, Shape
<1>2. sent' \in [Uploads -> Int] /\ \A v \in Uploads : sent'[v] \in Idle .. Size[v]
  BY <1>1, SentShape
<1>3. /\ running' \in BOOLEAN /\ error' \in BOOLEAN /\ ~(running' /\ error')
      /\ (written' # <<>> => running') /\ mode' \in Modes /\ target' = target
      /\ written' \in Seq(Pieces) /\ Len(written') <= Space
      /\ \A i \in DOMAIN written' :
            written'[i][1] \in Uploads /\ written'[i][2] \in 1 .. Size[written'[i][1]]
  <2>1. CASE running /\ Writable(u)
    <3>1. written' = Written(u) /\ UNCHANGED <<running, error, mode, target>>
      BY <2>1 DEF Piece
    <3>2. running' \in BOOLEAN /\ error' \in BOOLEAN /\ ~(running' /\ error') /\ running'
      BY <2>1, <3>1, Zenon DEF Shape, TypeOK
    <3>3. /\ written' \in Seq(Pieces) /\ Len(written') <= Space
          /\ \A i \in DOMAIN written' :
                written'[i][1] \in Uploads /\ written'[i][2] \in 1 .. Size[written'[i][1]]
      BY <1>1, <2>1, <3>1, WrittenShape
    <3>4. mode' \in Modes /\ target' = target
      BY <3>1 DEF Shape, TypeOK
    <3> QED
      BY <3>2, <3>3, <3>4, Zenon
  <2>2. CASE running /\ ~Writable(u)
    <3>1. /\ running' = FALSE /\ error' = TRUE /\ mode' = "app" /\ written' = <<>>
          /\ target' = target
      BY <2>2 DEF Piece, Fail
    <3>2. running' \in BOOLEAN /\ error' \in BOOLEAN /\ ~(running' /\ error')
      BY <3>1, Zenon
    <3>3. Len(written') <= Space /\ DOMAIN written' = {} /\ written' \in Seq(Pieces)
      BY <3>1, Constants
    <3> QED
      BY <3>1, <3>2, <3>3 DEF Modes
  <2>3. CASE ~running
    <3>1. UNCHANGED <<running, error, mode, written, target>>
      BY <2>3 DEF Piece, update
    <3>2. running' \in BOOLEAN /\ error' \in BOOLEAN /\ ~(running' /\ error')
          /\ (written' # <<>> => running')
      BY <3>1, Zenon DEF Shape, TypeOK
    <3> QED
      BY <3>1, <3>2 DEF Shape, TypeOK
  <2> QED
    BY <2>1, <2>2, <2>3
<1>4. flash' \in [Modes -> Seq(Pieces)] /\ kept' \in Firmware \cup {NoUpload}
  <2>1. Write(u) \/ UNCHANGED <<flash, kept>>
    BY DEF Piece
  <2> QED
    BY <2>1, WriteShape DEF Shape, TypeOK
<1>5. own' \in Uploads \cup {NoUpload}
  BY DEF Piece, Alone
<1>6. UNCHANGED <<runs, boot, timer, loopAt, left>>
  BY DEF Piece
<1>7. boot' \in BOOLEAN /\ reboot' \in BOOLEAN /\ due' \in BOOLEAN /\ left' \in BOOLEAN
  BY <1>6, Zenon DEF Shape, TypeOK, timer
<1> QED
  BY <1>2, <1>3, <1>4, <1>5, <1>6, <1>7 DEF Shape, TypeOK, timer

LEMMA LastPieceShape ==
  ASSUME Shape, NEW u \in Uploads, LastPiece(u)
  PROVE  Shape'
<1>1. sent[u] \in 0 .. Size[u] - 1 /\ sent[u] + 1 \in Idle .. Size[u]
      /\ sent' = [sent EXCEPT ![u] = sent[u] + 1]
  BY Constants DEF LastPiece, Idle, Shape
<1>2. sent' \in [Uploads -> Int] /\ \A v \in Uploads : sent'[v] \in Idle .. Size[v]
  BY <1>1, SentShape
<1>3. /\ running' \in BOOLEAN /\ error' \in BOOLEAN /\ ~(running' /\ error')
      /\ (written' # <<>> => running') /\ mode' \in Modes /\ target' = target
      /\ written' \in Seq(Pieces) /\ Len(written') <= Space
      /\ \A i \in DOMAIN written' :
            written'[i][1] \in Uploads /\ written'[i][2] \in 1 .. Size[written'[i][1]]
      /\ flash' \in [Modes -> Seq(Pieces)] /\ kept' \in Firmware \cup {NoUpload}
      /\ boot' \in BOOLEAN
  <2>1. CASE running /\ Writable(u) /\ Verified(Written(u))
    <3>1. EndUpdate(Written(u))
      BY <2>1 DEF LastPiece
    <3>2. /\ running' = FALSE /\ mode' = "app" /\ written' = <<>> /\ target' = target
          /\ error' = error
      BY <3>1 DEF EndUpdate
    <3>3. error' \in BOOLEAN
      BY <3>2, Zenon DEF Shape, TypeOK
    <3>4. running' \in BOOLEAN /\ ~(running' /\ error')
      BY <3>2, Zenon
    <3>5. Len(written') <= Space /\ DOMAIN written' = {} /\ written' \in Seq(Pieces)
      BY <3>2, Constants
    <3>6. /\ flash' \in [Modes -> Seq(Pieces)] /\ kept' \in Firmware \cup {NoUpload}
          /\ boot' \in BOOLEAN
      BY <1>1, <2>1, <3>1, EndShape
    <3> QED
      BY <3>2, <3>3, <3>4, <3>5, <3>6 DEF Modes
  <2>2. CASE running /\ ~(Writable(u) /\ Verified(Written(u)))
    <3>1. Write(u) /\ Fail /\ boot' = boot
      BY <2>2 DEF LastPiece
    <3>2. boot' \in BOOLEAN
      BY <3>1, Zenon DEF Shape, TypeOK
    <3>3. /\ running' = FALSE /\ error' = TRUE /\ mode' = "app" /\ written' = <<>>
          /\ target' = target
      BY <3>1 DEF Fail
    <3>4. running' \in BOOLEAN /\ error' \in BOOLEAN /\ ~(running' /\ error')
      BY <3>3, Zenon
    <3>5. Len(written') <= Space /\ DOMAIN written' = {} /\ written' \in Seq(Pieces)
      BY <3>3, Constants
    <3> QED
      BY <3>1, <3>2, <3>3, <3>4, <3>5, WriteShape DEF Modes
  <2>3. CASE ~running
    <3>1. UNCHANGED <<flash, kept, running, error, mode, written, target, boot>>
      BY <2>3 DEF LastPiece, update
    <3>2. running' \in BOOLEAN /\ error' \in BOOLEAN /\ ~(running' /\ error')
          /\ (written' # <<>> => running') /\ boot' \in BOOLEAN
      BY <3>1, Zenon DEF Shape, TypeOK
    <3> QED
      BY <3>1, <3>2 DEF Shape, TypeOK
  <2> QED
    BY <2>1, <2>2, <2>3
<1>4. own' \in Uploads \cup {NoUpload}
  BY DEF LastPiece, Alone
<1>5. UNCHANGED <<runs, timer, loopAt, left>>
  BY DEF LastPiece
<1>6. reboot' \in BOOLEAN /\ due' \in BOOLEAN /\ left' \in BOOLEAN
  BY <1>5, Zenon DEF Shape, TypeOK, timer
<1> QED
  BY <1>2, <1>3, <1>4, <1>5, <1>6 DEF Shape, TypeOK, timer

\* The answer, and a lost connection.
LEMMA DoneShape ==
  ASSUME Shape, NEW u \in Uploads, Finish(u) \/ Disconnect(u)
  PROVE  Shape'
<1>1. sent' \in [Uploads -> Int] /\ \A v \in Uploads : sent'[v] \in Idle .. Size[v]
  <2>1. Idle \in Idle .. Size[u] /\ sent' = [sent EXCEPT ![u] = Idle]
    BY Constants DEF Finish, Disconnect, Idle
  <2> QED
    BY <2>1, SentShape
<1>2. UNCHANGED <<update, device, loopAt, left, own>>
  BY DEF Finish, Disconnect
<1>3. reboot' \in BOOLEAN /\ due' \in BOOLEAN
  BY Zenon DEF Finish, Disconnect, timer, Shape, TypeOK
<1>4. /\ running' \in BOOLEAN /\ error' \in BOOLEAN /\ ~(running' /\ error')
      /\ (written' # <<>> => running') /\ boot' \in BOOLEAN /\ left' \in BOOLEAN
  BY <1>2, Zenon DEF Shape, TypeOK, update, device
<1> QED
  BY <1>1, <1>2, <1>3, <1>4 DEF Shape, TypeOK, update, device

\* A restart forgets everything but the flash.
LEMMA RestartForgets ==
  ASSUME Restart
  PROVE  /\ sent' \in [Uploads -> Int] /\ \A u \in Uploads : sent'[u] = Idle
         /\ running' = FALSE /\ error' = FALSE /\ mode' = "app"
         /\ written' = <<>> /\ target' = NoUpload
         /\ reboot' = FALSE /\ due' = FALSE /\ loopAt' = "keys" /\ own' = NoUpload /\ kept' = NoUpload
<1>1. Booted(sent', running', error', mode', written', target', reboot', due', loopAt', own', kept')
  BY Zenon DEF Restart
<1>2. /\ sent' = [u \in Uploads |-> Idle]
      /\ running' = FALSE /\ error' = FALSE /\ mode' = "app"
      /\ written' = <<>> /\ target' = NoUpload
      /\ reboot' = FALSE /\ due' = FALSE /\ loopAt' = "keys" /\ own' = NoUpload /\ kept' = NoUpload
  BY <1>1, Zenon DEF Booted
<1>3. sent' \in [Uploads -> Int] /\ \A u \in Uploads : sent'[u] = Idle
  BY <1>2 DEF Idle
<1> QED
  BY <1>2, <1>3, Zenon

LEMMA RestartShape ==
  ASSUME Shape, Restart
  PROVE  Shape'
<1>1. /\ sent' \in [Uploads -> Int] /\ \A u \in Uploads : sent'[u] = Idle
      /\ running' = FALSE /\ error' = FALSE /\ mode' = "app"
      /\ written' = <<>> /\ target' = NoUpload
      /\ reboot' = FALSE /\ due' = FALSE /\ loopAt' = "keys" /\ own' = NoUpload /\ kept' = NoUpload
  BY RestartForgets
<1>2. /\ flash' \in [Modes -> Seq(Pieces)] /\ runs' \in Firmware \cup {NoUpload}
      /\ boot' \in BOOLEAN
  <2>1. CASE UNCHANGED <<flash, runs, boot>>
    <3>1. boot' \in BOOLEAN
      BY <2>1, Zenon DEF Shape, TypeOK
    <3> QED
      BY <2>1, <3>1 DEF Shape, TypeOK
  <2>2. ASSUME NEW u \in Firmware, runs' = u, boot' = FALSE,
               flash' = [flash EXCEPT !["app"] = IF runs = NoUpload THEN <<>> ELSE Whole(runs)]
        PROVE  /\ flash' \in [Modes -> Seq(Pieces)] /\ runs' \in Firmware \cup {NoUpload}
               /\ boot' \in BOOLEAN
    <3>1. (IF runs = NoUpload THEN <<>> ELSE Whole(runs)) \in Seq(Pieces)
      BY WholeSeq, Constants DEF Shape, TypeOK
    <3> QED
      BY <2>2, <3>1 DEF Shape
  <2> QED
    BY <2>1, <2>2 DEF Restart
<1>3. left' \in BOOLEAN
  BY Zenon DEF Restart, Shape, TypeOK
<1>4. /\ running' \in BOOLEAN /\ error' \in BOOLEAN /\ ~(running' /\ error')
      /\ reboot' \in BOOLEAN /\ due' \in BOOLEAN
  BY <1>1, Zenon
<1>5. /\ \A u \in Uploads : sent'[u] \in Idle .. Size[u]
      /\ Len(written') <= Space /\ DOMAIN written' = {} /\ written' \in Seq(Pieces)
  BY <1>1, Constants DEF Idle
<1> QED
  BY <1>1, <1>2, <1>3, <1>4, <1>5 DEF Shape, TypeOK, Modes

\* The clock, the loop without its reboot, and nobody left.
LEMMA RestShape ==
  ASSUME Shape, UNCHANGED <<sent, update, device, own>>,
         reboot' \in BOOLEAN, due' \in BOOLEAN, left' \in BOOLEAN,
         loopAt' \in {"keys", "program", "ota"}
  PROVE  Shape'
<1>1. /\ running' \in BOOLEAN /\ error' \in BOOLEAN /\ ~(running' /\ error')
      /\ (written' # <<>> => running') /\ boot' \in BOOLEAN
  BY Zenon DEF Shape, TypeOK, update, device
<1> QED
  BY <1>1 DEF Shape, TypeOK, update, device

-----------------------------------------------------------------------------
(* The update that meets no other.                                         *)

\* A start: the update is its own if none was running.
LEMMA StartProgress ==
  ASSUME Shape, NEW u \in Uploads, Start(u)
  PROVE  OwnProgress'
<1> SUFFICES ASSUME NEW v \in Uploads, own' = v
             PROVE  /\ sent'[v] \in 0 .. Size[v] - 1 /\ sent'[v] # Size[v]
                    /\ running' /\ mode' = Mode(v) /\ target' = NoUpload
                    /\ written' = Prefix(v, sent'[v])
  BY DEF OwnProgress
<1>1. v = u /\ ~running
  BY Constants DEF Start
<1>2. running' /\ mode' = Mode(u) /\ target' = NoUpload /\ written' = <<>>
  BY <1>1 DEF Start, Begin
<1>3. sent'[u] = 0
  BY DEF Start, Shape
<1>4. Prefix(u, 0) = <<>>
  BY DEF Prefix
<1>5. Size[u] \in Nat \ {0}
  BY Constants
<1> QED
  BY <1>1, <1>2, <1>3, <1>4, <1>5

\* A piece of it is written behind the others.
LEMMA PieceProgress ==
  ASSUME Shape, OwnProgress, NEW u \in Uploads, Piece(u)
  PROVE  OwnProgress'
<1> SUFFICES ASSUME NEW v \in Uploads, own' = v
             PROVE  /\ sent'[v] # Size[v]
                    /\ running' /\ mode' = Mode(v) /\ target' = NoUpload
                    /\ written' = Prefix(v, sent'[v])
  BY DEF OwnProgress
<1>1. v = u /\ own = u
  BY Constants DEF Piece, Alone
<1>2. Size[u] \in Nat \ {0} /\ Size[u] <= Space /\ Space \in Nat
      /\ sent[u] \in 0 .. Size[u] - 2 /\ sent'[u] = sent[u] + 1
  BY Constants DEF Piece, Shape
<1>3. running /\ mode = Mode(u) /\ target = NoUpload /\ written = Prefix(u, sent[u])
  BY <1>1, <1>2 DEF OwnProgress
<1>4. Len(written) = sent[u]
  BY <1>2, <1>3, PrefixSeq
<1>5. Writable(u)
  BY <1>2, <1>3, <1>4 DEF Writable, Mode
<1>6. written' = Written(u) /\ UNCHANGED <<running, error, mode, target>>
  BY <1>3, <1>5 DEF Piece
<1>7. Written(u) = Prefix(u, sent[u] + 1)
  <2>1. sent[u] \in Nat
    BY <1>2
  <2>2. Prefix(u, sent[u] + 1) = Append(Prefix(u, sent[u]), <<u, sent[u] + 1>>)
    BY <2>1, PrefixGrows
  <2> QED
    BY <1>3, <2>2 DEF Written
<1> QED
  BY <1>1, <1>2, <1>3, <1>6, <1>7

\* Its last piece makes it whole; it is verified, and installed.
LEMMA LastPieceProgress ==
  ASSUME Shape, OwnProgress, NEW u \in Uploads, LastPiece(u)
  PROVE  OwnProgress'
<1> SUFFICES ASSUME NEW v \in Uploads, own' = v
             PROVE  /\ sent'[v] = Size[v] /\ Size[v] \notin 0 .. Size[v] - 1
                    /\ ~error' /\ ~running' /\ flash'[Mode(v)] = Whole(v)
                    /\ (v \in Firmware => boot')
  BY DEF OwnProgress
<1>1. v = u /\ own = u
  BY Constants DEF LastPiece, Alone
<1>2. Size[u] \in Nat \ {0} /\ Size[u] <= Space /\ Space \in Nat
      /\ sent[u] = Size[u] - 1 /\ sent'[u] = Size[u]
  BY Constants DEF LastPiece, Shape
<1>3. running /\ mode = Mode(u) /\ target = NoUpload /\ written = Prefix(u, sent[u])
  BY <1>1, <1>2 DEF OwnProgress
<1>0. sent[u] \in Nat
  BY <1>2
<1>4. Len(written) = sent[u]
  BY <1>0, <1>3, PrefixSeq
<1>5. Writable(u)
  BY <1>2, <1>3, <1>4 DEF Writable, Mode
<1>6. Written(u) = Whole(u)
  <2>1. Written(u) = Prefix(u, sent[u] + 1)
    BY <1>0, <1>3, PrefixGrows DEF Written
  <2>2. sent[u] + 1 = Size[u]
    BY <1>2
  <2> QED
    BY <2>1, <2>2, WholeSeq
<1>7. mode = "app" => u \in Firmware
  BY <1>3 DEF Mode
<1>8. Verified(Written(u))
  BY <1>3, <1>6, <1>7, WholeBoots DEF Verified
<1>9. EndUpdate(Written(u))
  BY <1>3, <1>5, <1>8 DEF LastPiece
<1>10. ~running' /\ error' = error /\ flash' = [flash EXCEPT ![mode] = Written(u)]
  BY <1>9 DEF EndUpdate
<1>11. ~error
  BY <1>3 DEF Shape, TypeOK
<1>12. flash'[Mode(u)] = Whole(u)
  BY <1>3, <1>6, <1>10, Constants DEF Shape
<1>13. u \in Firmware => boot'
  <2>1. u \in Firmware => mode = "app"
    BY <1>3 DEF Mode
  <2>2. boot' = (boot \/ mode = "app")
    BY <1>9 DEF EndUpdate
  <2> QED
    BY <2>1, <2>2, Zenon
<1>14. Size[u] \notin 0 .. Size[u] - 1
  BY <1>2
<1> QED
  BY <1>1, <1>2, <1>10, <1>11, <1>12, <1>13, <1>14, Zenon

\* Every other step leaves it as it is, or ends it.
LEMMA OtherProgress ==
  ASSUME Shape, OwnProgress, own' \in {own, NoUpload},
         own' # NoUpload => UNCHANGED <<running, error, mode, written, target, flash, boot>>,
         \A u \in Uploads : sent'[u] \in {sent[u], Idle}
  PROVE  OwnProgress'
<1> SUFFICES ASSUME NEW u \in Uploads, own' = u
             PROVE  /\ sent'[u] \in 0 .. Size[u] - 1 =>
                          running' /\ mode' = Mode(u) /\ target' = NoUpload
                            /\ written' = Prefix(u, sent'[u])
                    /\ sent'[u] = Size[u] =>
                          ~error' /\ ~running' /\ flash'[Mode(u)] = Whole(u)
                            /\ (u \in Firmware => boot')
  BY DEF OwnProgress
<1>1. own = u /\ UNCHANGED <<running, error, mode, written, target, flash, boot>>
  BY Constants
<1>2. CASE sent'[u] = sent[u]
  BY <1>1, <1>2 DEF OwnProgress
<1>3. CASE sent'[u] = Idle
  <2>1. sent'[u] \notin 0 .. Size[u] - 1 /\ sent'[u] # Size[u]
    BY <1>3, Constants DEF Idle
  <2> QED
    BY <2>1
<1> QED
  BY <1>2, <1>3

-----------------------------------------------------------------------------
(* The partition that is to be booted.                                     *)

\* A step that touches neither the partition nor the choice.
LEMMA SameKept ==
  ASSUME KeptBoots, UNCHANGED <<flash, boot, kept>>
  PROVE  KeptBoots'
BY DEF KeptBoots, Bootable

\* What a piece does: half a firmware boots as none.
LEMMA WriteKept ==
  ASSUME Shape, KeptBoots, NEW u \in Uploads, Write(u), boot' = boot
  PROVE  KeptBoots'
<1>1. CASE UNCHANGED <<flash, kept>>
  BY <1>1, SameKept
<1>2. CASE Writable(u)
  <2>1. /\ flash' = [flash EXCEPT ![mode] = Partial]
        /\ kept' = IF mode = "app" THEN NoUpload ELSE kept
    BY <1>2 DEF Write
  <2>2. CASE mode = "app"
    <3>1. flash'["app"] = Partial /\ kept' = NoUpload
      BY <2>1, <2>2 DEF Shape, Modes
    <3> QED
      BY <3>1, PartialBootsNone DEF KeptBoots
  <2>3. CASE mode # "app"
    <3>1. flash'["app"] = flash["app"] /\ kept' = kept
      BY <2>1, <2>3 DEF Shape, Modes
    <3> QED
      BY <3>1 DEF KeptBoots
  <2> QED
    BY <2>2, <2>3
<1> QED
  BY <1>1, <1>2 DEF Write

LEMMA LastPieceKept ==
  ASSUME Shape, KeptBoots, NEW u \in Uploads, LastPiece(u)
  PROVE  KeptBoots'
<1>1. sent[u] \in 0 .. Size[u] - 1
  BY Constants DEF LastPiece, Shape
<1>2. CASE running /\ Writable(u) /\ Verified(Written(u))
  <2>1. EndUpdate(Written(u))
    BY <1>2 DEF LastPiece
  <2>2. /\ mode = "app" => kept' \in Firmware /\ Bootable(Written(u), kept')
        /\ mode # "app" => kept' = kept
        /\ flash' = [flash EXCEPT ![mode] = Written(u)]
        /\ boot' = (boot \/ mode = "app")
    BY <1>1, <1>2, <2>1, EndShape
  <2>3. CASE mode = "app"
    <3>1. flash'["app"] = Written(u) /\ kept' # NoUpload /\ Bootable(Written(u), kept')
      BY <2>2, <2>3, Constants DEF Shape, Modes
    <3>2. boot'
      BY <2>2, <2>3, Zenon
    <3> QED
      BY <3>1, <3>2 DEF KeptBoots
  <2>4. CASE mode # "app"
    <3>1. flash'["app"] = flash["app"] /\ kept' = kept
      BY <2>2, <2>4 DEF Shape, Modes
    <3>2. boot' <=> boot
      BY <2>2, <2>4, Zenon
    <3> QED
      BY <3>1, <3>2 DEF KeptBoots
  <2> QED
    BY <2>3, <2>4
<1>3. CASE running /\ ~(Writable(u) /\ Verified(Written(u)))
  <2>1. Write(u) /\ boot' = boot
    BY <1>3 DEF LastPiece
  <2> QED
    BY <2>1, WriteKept
<1>4. CASE ~running
  BY <1>4, SameKept DEF LastPiece
<1> QED
  BY <1>2, <1>3, <1>4

\* The firmware that the boot loader finds in the chosen partition is the one
\* kept, and if it finds none, none was kept.
LEMMA RestartBoots ==
  ASSUME Shape, KeptBoots, Restart
  PROVE  /\ runs' = IF kept # NoUpload THEN kept ELSE runs
         /\ KeptBoots'
<1>1. kept' = NoUpload
  BY RestartForgets
<1>2. kept \in Firmware \cup {NoUpload} /\ flash["app"] \in Seq(Pieces)
  BY DEF Shape, TypeOK, Modes
<1>3. ASSUME NEW u \in Firmware, boot, Bootable(flash["app"], u), runs' = u, boot' = FALSE
      PROVE  /\ runs' = IF kept # NoUpload THEN kept ELSE runs
             /\ KeptBoots'
  <2>1. kept # NoUpload
    BY <1>3 DEF KeptBoots
  <2>2. kept \in Uploads /\ u \in Uploads /\ Bootable(flash["app"], kept)
    BY <1>2, <2>1, Constants DEF KeptBoots
  <2>3. kept = u
    BY <1>2, <1>3, <2>2, BootsOne
  <2> QED
    BY <1>1, <1>3, <2>1, <2>3 DEF KeptBoots
<1>4. ASSUME ~boot \/ \A u \in Firmware : ~Bootable(flash["app"], u),
             UNCHANGED <<flash, runs, boot>>
      PROVE  /\ runs' = IF kept # NoUpload THEN kept ELSE runs
             /\ KeptBoots'
  <2>1. kept = NoUpload
    BY <1>2, <1>4 DEF KeptBoots
  <2>2. KeptBoots'
    BY <1>1, <1>4, <2>1 DEF KeptBoots, Bootable
  <2> QED
    BY <1>4, <2>1, <2>2
<1> QED
  BY <1>3, <1>4 DEF Restart

-----------------------------------------------------------------------------
LEMMA NextIInv ==
  ASSUME IInv, [Next]_vars
  PROVE  IInv'
<1>1. Shape /\ OwnProgress /\ KeptBoots
  BY DEF IInv
<1>2. ASSUME NEW u \in Uploads, Start(u) PROVE IInv'
  <2>1. KeptBoots'
    BY <1>1, <1>2, SameKept DEF Start, device
  <2> QED
    BY <1>1, <1>2, <2>1, StartShape, StartProgress DEF IInv
<1>3. ASSUME NEW u \in Uploads, Piece(u) PROVE IInv'
  <2>1. (Write(u) \/ UNCHANGED <<flash, kept>>) /\ boot' = boot
    BY <1>3 DEF Piece
  <2>2. KeptBoots'
    BY <1>1, <2>1, WriteKept, SameKept
  <2> QED
    BY <1>1, <1>3, <2>2, PieceShape, PieceProgress DEF IInv
<1>4. ASSUME NEW u \in Uploads, LastPiece(u) PROVE IInv'
  BY <1>1, <1>4, LastPieceShape, LastPieceProgress, LastPieceKept DEF IInv
<1>5. ASSUME NEW u \in Uploads, Finish(u) \/ Disconnect(u) PROVE IInv'
  <2>1. UNCHANGED <<update, device, own>> /\ sent' = [sent EXCEPT ![u] = Idle]
    BY <1>5 DEF Finish, Disconnect
  <2>2. \A v \in Uploads : sent'[v] \in {sent[v], Idle}
    BY <1>1, <2>1 DEF Shape
  <2>3. OwnProgress' /\ KeptBoots'
    BY <1>1, <2>1, <2>2, OtherProgress, SameKept DEF update, device
  <2> QED
    BY <1>1, <1>5, <2>3, DoneShape DEF IInv
<1>6. CASE Restart
  <2>1. own' = NoUpload /\ \A u \in Uploads : sent'[u] = Idle
    BY <1>6, RestartForgets
  <2>2. OwnProgress'
    BY <1>1, <2>1, OtherProgress
  <2> QED
    BY <1>1, <1>6, <2>2, RestartShape, RestartBoots DEF IInv
<1>7. ASSUME UNCHANGED <<sent, update, device, own>>,
             reboot' \in BOOLEAN, due' \in BOOLEAN, left' \in BOOLEAN,
             loopAt' \in {"keys", "program", "ota"}
      PROVE  IInv'
  <2>1. OwnProgress' /\ KeptBoots'
    BY <1>1, <1>7, OtherProgress, SameKept DEF update, device
  <2> QED
    BY <1>1, <1>7, <2>1, RestShape DEF IInv
<1>8. CASE \/ TwoSeconds \/ HandleKeypad \/ ProgramEnds \/ Leave \/ UNCHANGED vars
           \/ loopAt' = "keys" /\ UNCHANGED <<sent, update, device, timer, left, own>>
  <2>1. UNCHANGED <<sent, update, device, own>> /\ loopAt' \in {"keys", "program", "ota"}
    BY <1>1, <1>8 DEF TwoSeconds, HandleKeypad, ProgramEnds, Leave, vars, Shape, TypeOK
  <2>2. reboot' \in BOOLEAN /\ due' \in BOOLEAN /\ left' \in BOOLEAN
    BY <1>1, <1>8, Zenon DEF TwoSeconds, HandleKeypad, ProgramEnds, Leave, vars, timer,
                             Shape, TypeOK
  <2> QED
    BY <1>7, <2>1, <2>2
<1>9. CASE OtaLoop
  BY <1>6, <1>8, <1>9 DEF OtaLoop
<1> QED
  BY <1>2, <1>3, <1>4, <1>5, <1>6, <1>8, <1>9 DEF Next, Request, Loop

-----------------------------------------------------------------------------
\* The strengthening holds of every reachable state, for any images of any
\* sizes, with connections lost and the device restarted at any time.
THEOREM OtaInvariant == Spec => []IInv
<1>1. Init => IInv
  BY InitIInv
<1>2. IInv /\ [Next]_vars => IInv'
  BY NextIInv
<1> QED
  BY <1>1, <1>2, PTL DEF Spec

\* The variables of the update keep to their types: what is written stays
\* within the partition, and an update that failed does not go on.
THEOREM OtaTyped == Spec => []TypeOK
<1>1. IInv => TypeOK
  BY DEF IInv, Shape
<1> QED
  BY <1>1, OtaInvariant, PTL

\* An update whose start found none running, and which met no other, is
\* installed when it is answered.
THEOREM OtaOwnInstalled == Spec => []OwnInstalled
<1>1. IInv => OwnInstalled
  BY Zenon DEF IInv, OwnProgress, OwnInstalled
<1> QED
  BY <1>1, OtaInvariant, PTL

\* Every restart starts the firmware that was installed last, or the one that
\* ran if none is whole.
THEOREM OtaBootsInstalled == Spec => BootsInstalled
<1>1. IInv /\ [Next]_vars
        => [Restart => runs' = IF kept # NoUpload THEN kept ELSE runs]_vars
  BY RestartBoots DEF IInv
<1> QED
  BY <1>1, OtaInvariant, PTL DEF Spec, BootsInstalled
-----------------------------------------------------------------------------
(* What RebootComes rests on.  Once nobody starts updates, what the        *)
(* clients have still to send only gets less, so that the answers, which   *)
(* alone put the reboot off, come to an end.                               *)

\* The steps of an upload until its client goes away.
StepsLeft(u) == IF sent[u] = Idle THEN 0 ELSE 1 + Size[u] - sent[u]

UploadsRunOut ==
    [][left =>
         /\ \A u \in Uploads :
              /\ StepsLeft(u)' <= StepsLeft(u)
              /\ Request(u) \/ Disconnect(u) => StepsLeft(u)' < StepsLeft(u)
         /\ reboot /\ due /\ reboot' /\ ~due' =>
              \E u \in Uploads : Finish(u) /\ StepsLeft(u) = 1]_vars

\* A step of one client.
LEMMA ClientGetsOn ==
  ASSUME Shape, left, NEW v \in Uploads, Request(v) \/ Disconnect(v)
  PROVE  /\ StepsLeft(v)' < StepsLeft(v)
         /\ \A u \in Uploads \ {v} : StepsLeft(u)' = StepsLeft(u)
         /\ Finish(v) => StepsLeft(v) = 1
         /\ ~Finish(v) => UNCHANGED timer
<1>1. sent \in [Uploads -> Int] /\ sent[v] \in Idle .. Size[v] /\ Size[v] \in Nat \ {0}
  BY Constants DEF Shape, TypeOK
<1>2. ~Start(v)
  BY DEF Start
<1>3. Finish(v) => StepsLeft(v) = 1
  BY <1>1 DEF Finish, StepsLeft, Idle
<1>4. ~Finish(v) => UNCHANGED timer
  BY <1>2, Zenon DEF Request, Piece, LastPiece, Disconnect
<1>5. CASE Piece(v) \/ LastPiece(v)
  <2>1. sent' = [sent EXCEPT ![v] = sent[v] + 1]
    BY <1>5, Zenon DEF Piece, LastPiece
  <2>2. sent[v] \in 0 .. Size[v] - 2 \/ sent[v] = Size[v] - 1
    BY <1>5, Zenon DEF Piece, LastPiece
  <2>3. sent'[v] = sent[v] + 1 /\ \A u \in Uploads \ {v} : sent'[u] = sent[u]
    BY <1>1, <2>1
  <2> QED
    BY <1>1, <1>3, <1>4, <2>2, <2>3 DEF StepsLeft, Idle
<1>6. CASE Finish(v) \/ Disconnect(v)
  <2>1. sent' = [sent EXCEPT ![v] = Idle]
    BY <1>6, Zenon DEF Finish, Disconnect
  <2>2. sent[v] = Size[v] \/ sent[v] # Idle
    BY <1>6, Zenon DEF Finish, Disconnect
  <2>3. sent'[v] = Idle /\ \A u \in Uploads \ {v} : sent'[u] = sent[u]
    BY <1>1, <2>1
  <2> QED
    BY <1>1, <1>3, <1>4, <2>2, <2>3 DEF StepsLeft, Idle
<1> QED
  BY <1>2, <1>5, <1>6 DEF Request

\* A restart ends all uploads, and every other step leaves them alone.
LEMMA OthersSendNothing ==
  ASSUME Shape, [Next]_vars, \A u \in Uploads : ~(Request(u) \/ Disconnect(u))
  PROVE  /\ \A u \in Uploads : StepsLeft(u)' <= StepsLeft(u)
         /\ reboot /\ due /\ reboot' => due'
<1>1. \A u \in Uploads : sent[u] \in Idle .. Size[u] /\ Size[u] \in Nat \ {0}
  BY Constants DEF Shape, TypeOK
<1>2. \A u \in Uploads : StepsLeft(u) \in Nat
  BY <1>1 DEF StepsLeft, Idle
<1>3. CASE Restart
  <2>1. (\A u \in Uploads : sent'[u] = Idle) /\ reboot' = FALSE
    BY <1>3 DEF Restart, Booted
  <2> QED
    BY <1>2, <2>1 DEF StepsLeft
<1>4. CASE ~Restart
  <2>1. UNCHANGED <<sent, reboot>> /\ (due => due')
    BY <1>4 DEF Next, TwoSeconds, Loop, HandleKeypad, ProgramEnds, OtaLoop, Leave, timer, vars
  <2> QED
    BY <1>2, <2>1 DEF StepsLeft
<1> QED
  BY <1>3, <1>4

\* Once nobody starts updates, every upload has only so many steps left, and
\* the reboot that was promised is put off by the last of them at the most:
\* for any images, any number of clients, and connections lost at any time.
THEOREM OtaUploadsRunOut == Spec => UploadsRunOut
<1>1. ASSUME Shape, Shape', [Next]_vars, left
      PROVE  /\ \A u \in Uploads :
                  /\ StepsLeft(u)' <= StepsLeft(u)
                  /\ Request(u) \/ Disconnect(u) => StepsLeft(u)' < StepsLeft(u)
             /\ reboot /\ due /\ reboot' /\ ~due' =>
                  \E u \in Uploads : Finish(u) /\ StepsLeft(u) = 1
  <2>1. \A u \in Uploads : StepsLeft(u) \in Nat /\ StepsLeft(u)' \in Nat
    <3>1. \A u \in Uploads : sent[u] \in Idle .. Size[u] /\ sent'[u] \in Idle .. Size[u]
      BY <1>1 DEF Shape, TypeOK
    <3> QED
      BY <3>1, Constants DEF StepsLeft, Idle
  <2>2. CASE \E v \in Uploads : Request(v) \/ Disconnect(v)
    <3>1. PICK v \in Uploads : Request(v) \/ Disconnect(v)
      BY <2>2
    <3>2. \A u \in Uploads : Request(u) \/ Disconnect(u) => StepsLeft(u)' < StepsLeft(u)
      BY <1>1, ClientGetsOn
    <3>3. ASSUME NEW u \in Uploads PROVE StepsLeft(u)' <= StepsLeft(u)
      <4>1. CASE u = v
        BY <2>1, <3>1, <3>2, <4>1
      <4>2. CASE u # v
        BY <1>1, <2>1, <3>1, <4>2, ClientGetsOn
      <4> QED
        BY <4>1, <4>2
    <3>4. reboot /\ due /\ reboot' /\ ~due' => Finish(v) /\ StepsLeft(v) = 1
      BY <1>1, <3>1, ClientGetsOn DEF timer
    <3> QED
      BY <3>2, <3>3, <3>4
  <2>3. CASE \A v \in Uploads : ~(Request(v) \/ Disconnect(v))
    <3>1. \A u \in Uploads : StepsLeft(u)' <= StepsLeft(u)
      BY <1>1, <2>3, OthersSendNothing
    <3>2. reboot /\ due /\ reboot' => due'
      BY <1>1, <2>3, OthersSendNothing
    <3> QED
      BY <2>3, <3>1, <3>2
  <2> QED
    BY <2>2, <2>3
<1>2. IInv /\ IInv' /\ [Next]_vars =>
        [left =>
           /\ \A u \in Uploads :
                /\ StepsLeft(u)' <= StepsLeft(u)
                /\ Request(u) \/ Disconnect(u) => StepsLeft(u)' < StepsLeft(u)
           /\ reboot /\ due /\ reboot' /\ ~due' =>
                \E u \in Uploads : Finish(u) /\ StepsLeft(u) = 1]_vars
  BY <1>1 DEF IInv
<1> QED
  BY <1>2, OtaInvariant, PTL DEF Spec, UploadsRunOut
-----------------------------------------------------------------------------
(* RebootComes, once the answers have come to an end.                      *)

\* The fairness of Spec, with the condition of each action written out: time
\* passes while the reboot is not due, and loop() goes on outside a program.
TimePasses == []<>~(reboot /\ ~due) \/ []<><<TwoSeconds>>_vars
LoopRuns == []<>(loopAt = "program") \/ []<><<loopAt # "program" /\ Loop>>_vars

\* Once nobody starts updates, there is a last answer: by OtaUploadsRunOut each
\* upload has only so many steps left.
AnswersEnd == left ~> [][\A u \in Uploads : ~Finish(u)]_vars

\* Between two answers the time to the reboot runs down, and only a restart
\* takes the reboot back.
LEMMA NoAnswerStep ==
  ASSUME TypeOK, reboot, [Next]_vars, [\A u \in Uploads : ~Finish(u)]_vars
  PROVE  /\ due => due' \/ ~reboot'
         /\ loopAt = "program" => loopAt' \in {"program", "ota"} \/ ~reboot'
         /\ loopAt = "ota" /\ due => loopAt' = "ota" \/ ~reboot'
<1>1. CASE Restart
  BY <1>1 DEF Restart, Booted
<1>2. ASSUME NEW u \in Uploads, Request(u) \/ Disconnect(u)
      PROVE  UNCHANGED <<timer, loopAt>>
  <2>1. CASE Finish(u)
    BY <2>1 DEF vars, timer
  <2>2. CASE ~Finish(u)
    BY <1>2, <2>2, Zenon DEF Request, Start, Piece, LastPiece, Disconnect
  <2> QED
    BY <2>1, <2>2
<1>3. CASE TwoSeconds \/ Leave \/ UNCHANGED vars
  <2>1. loopAt' = loopAt
    BY <1>3 DEF TwoSeconds, Leave, vars
  <2>2. due => due'
    BY <1>3, Zenon DEF TwoSeconds, Leave, vars, timer
  <2> QED
    BY <2>1, <2>2
<1>5. CASE HandleKeypad \/ ProgramEnds
  <2>1. UNCHANGED timer
    BY <1>5 DEF HandleKeypad, ProgramEnds
  <2>2. loopAt # "ota" /\ (loopAt = "program" => loopAt' = "ota")
    BY <1>5 DEF HandleKeypad, ProgramEnds
  <2> QED
    BY <2>1, <2>2, Zenon DEF timer
<1>4. CASE OtaLoop
  BY <1>1, <1>4 DEF OtaLoop, timer
<1> QED
  BY <1>1, <1>2, <1>3, <1>4, <1>5, Zenon DEF Next, Loop, timer

\* The steps that bring the reboot nearer.
LEMMA LoopStep ==
  ASSUME loopAt # "program", Loop
  PROVE  /\ loopAt = "keys" => loopAt' # "keys"
         /\ loopAt = "ota" /\ reboot /\ due => ~reboot'
BY DEF Loop, HandleKeypad, ProgramEnds, OtaLoop, Restart, Booted

\* The reboot that was promised comes, if programs of the menu end, time passes,
\* the loop goes on and the clients' answers end: for any images, whatever else
\* the clients do, and wherever the loop was when the last answer was given.
THEOREM OtaRebootComes ==
  Init /\ [][Next]_vars /\ TimePasses /\ LoopRuns /\ AnswersEnd => RebootComes
<1> DEFINE Quiet == [\A u \in Uploads : ~Finish(u)]_vars
<1>1. Init /\ [][Next]_vars => []TypeOK
  <2>1. Init => IInv
    BY InitIInv
  <2>2. IInv /\ [Next]_vars => IInv'
    BY NextIInv
  <2>3. IInv => TypeOK
    BY DEF IInv, Shape
  <2> QED
    BY <2>1, <2>2, <2>3, PTL
<1>2. TypeOK => loopAt = "keys" \/ loopAt = "program" \/ loopAt = "ota"
  BY DEF TypeOK
<1>3. TypeOK /\ reboot /\ [Next]_vars /\ Quiet
        => /\ due => due' \/ ~reboot'
           /\ loopAt = "program" => (loopAt = "program")' \/ (loopAt = "ota")' \/ ~reboot'
           /\ loopAt = "ota" /\ due => (loopAt = "ota")' \/ ~reboot'
  BY NoAnswerStep
<1>4. <<TwoSeconds>>_vars => due'
  BY DEF TwoSeconds
<1>5. <<loopAt # "program" /\ Loop>>_vars
        => /\ loopAt = "keys" => ~(loopAt = "keys")'
           /\ loopAt = "ota" /\ reboot /\ due => ~reboot'
  BY LoopStep
<1>6. ~(loopAt = "keys" /\ loopAt = "ota") /\ (loopAt # "program" <=> ~(loopAt = "program"))
      /\ ~(loopAt = "ota" /\ loopAt = "program") /\ ~(loopAt = "keys" /\ loopAt = "program")
  OBVIOUS
<1> QED
  BY <1>1, <1>2, <1>3, <1>4, <1>5, <1>6, PTL DEF RebootComes, TimePasses, LoopRuns, AnswersEnd
-----------------------------------------------------------------------------
(* When an answer "OK" can be believed.  OKIsInstalled is false; it holds  *)
(* where uploads do not overlap and all images go to one partition.  What  *)
(* a lost connection has left behind then does no harm: the next start     *)
(* leaves the sum of its own image to be compared, so that an update that  *)
(* went into the older one either is whole or fails.                       *)

OneAtATime == \A u, v \in Uploads : sent[u] # Idle /\ sent[v] # Idle => u = v

\* An upload under way is the one the running update is compared with, or is
\* all that was written; without a running update there is an error.
Believable ==
    /\ running => \A u \in Uploads : mode = Mode(u)
    /\ \A u \in Uploads : sent[u] \in 0 .. Size[u] - 1 =>
          IF running
          THEN target = u \/ (target = NoUpload /\ written = Prefix(u, sent[u]))
          ELSE error
    /\ \A u \in Uploads : sent[u] = Size[u] /\ ~error => flash[Mode(u)] = Whole(u)

\* An idle upload is neither under way nor about to be answered.
LEMMA IdleSendsNothing ==
  \A u \in Uploads : Idle \notin 0 .. Size[u] - 1 /\ Idle # Size[u]
<1> TAKE u \in Uploads
<1>1. Size[u] \in Nat
  BY Constants
<1> QED
  BY <1>1 DEF Idle

\* A start begins an update, or leaves its sum to the one that runs.
LEMMA StartBelievable ==
  ASSUME \A v, w \in Uploads : Mode(v) = Mode(w),
         Shape, Believable, OneAtATime', NEW u \in Uploads, Start(u)
  PROVE  Believable'
<1>1. /\ sent \in [Uploads -> Int] /\ Size[u] \in Nat \ {0} /\ u # NoUpload
      /\ \A v \in Uploads : sent[v] \in Idle .. Size[v] /\ Size[v] \in Nat \ {0}
  BY Constants DEF Shape, TypeOK
<1>2. /\ sent' = [sent EXCEPT ![u] = 0] /\ Begin(u) /\ sent[u] = Idle
  BY DEF Start
<1>3. sent'[u] = 0 /\ \A v \in Uploads : v # u => sent'[v] = Idle
  BY <1>1, <1>2 DEF OneAtATime, Idle
<1>4. Prefix(u, 0) = <<>>
  BY PrefixSeq, EmptySeq
<1>5. CASE running
  BY <1>1, <1>2, <1>3, <1>5 DEF Begin, Believable, Idle
<1>6. CASE ~running
  BY <1>1, <1>2, <1>3, <1>4, <1>6 DEF Begin, Believable, Idle
<1> QED
  BY <1>5, <1>6

\* A piece of the upload under way is appended, fails the update, or is dropped.
LEMMA PieceBelievable ==
  ASSUME Shape, Believable, OneAtATime, NEW u \in Uploads, Piece(u)
  PROVE  Believable'
<1>1. /\ sent \in [Uploads -> Int] /\ Size[u] \in Nat \ {0}
      /\ sent[u] \in 0 .. Size[u] - 2 /\ sent' = [sent EXCEPT ![u] = sent[u] + 1]
  BY Constants DEF Shape, Piece
<1>2. /\ sent'[u] = sent[u] + 1 /\ sent[u] \in 0 .. Size[u] - 1 /\ sent'[u] # Size[u]
      /\ \A v \in Uploads : v # u => sent'[v] = Idle /\ Size[v] \in Nat \ {0}
  BY <1>1, Constants DEF OneAtATime, Idle
<1>3. CASE running /\ Writable(u)
  <2>1. written' = Written(u) /\ UNCHANGED <<running, error, mode, target>>
    BY <1>3 DEF Piece
  <2>2. sent[u] \in Nat
    BY <1>2
  <2>3. written = Prefix(u, sent[u]) => written' = Prefix(u, sent'[u])
    BY <1>2, <2>1, <2>2, PrefixGrows DEF Written
  <2> QED
    BY <1>2, <1>3, <2>1, <2>3 DEF Believable, Idle
<1>4. CASE running /\ ~Writable(u)
  <2>1. running' = FALSE /\ error' = TRUE
    BY <1>4 DEF Piece, Fail
  <2> QED
    BY <1>2, <2>1 DEF Believable, Idle
<1>5. CASE ~running
  <2>1. UNCHANGED <<running, error>>
    BY <1>5 DEF Piece, update
  <2> QED
    BY <1>2, <1>5, <2>1 DEF Believable, Idle
<1> QED
  BY <1>3, <1>4, <1>5

\* With its last piece it is installed, or there is an error.
LEMMA LastPieceBelievable ==
  ASSUME Shape, Believable, OneAtATime, NEW u \in Uploads, LastPiece(u)
  PROVE  Believable'
<1>1. /\ sent \in [Uploads -> Int] /\ Size[u] \in Nat \ {0} /\ u # NoUpload
      /\ sent[u] = Size[u] - 1 /\ sent' = [sent EXCEPT ![u] = sent[u] + 1]
  BY Constants DEF Shape, LastPiece
<1>2. /\ sent'[u] = Size[u] /\ sent[u] \in 0 .. Size[u] - 1
      /\ sent'[u] \notin 0 .. Size[u] - 1
      /\ \A v \in Uploads : v # u => sent'[v] = Idle /\ Size[v] \in Nat \ {0}
  BY <1>1, Constants DEF OneAtATime, Idle
<1>3. CASE running /\ Writable(u) /\ Verified(Written(u))
  <2>1. running' = FALSE /\ flash' = [flash EXCEPT ![mode] = Written(u)]
    BY <1>3 DEF LastPiece, EndUpdate
  <2>2. mode = Mode(u)
    BY <1>3 DEF Believable
  <2>3. Written(u) = Whole(u)
    <3>1. CASE target = u
      BY <1>1, <1>3, <3>1 DEF Verified
    <3>2. CASE target = NoUpload /\ written = Prefix(u, sent[u])
      <4>1. sent[u] \in Nat /\ sent[u] + 1 = Size[u]
        BY <1>1
      <4>2. Written(u) = Prefix(u, sent[u] + 1)
        BY <3>2, <4>1, PrefixGrows DEF Written
      <4> QED
        BY <4>1, <4>2, WholeSeq
    <3> QED
      BY <1>2, <1>3, <3>1, <3>2 DEF Believable
  <2>4. flash'[Mode(u)] = Whole(u)
    BY <2>1, <2>2, <2>3, Constants DEF Shape
  <2> QED
    BY <1>2, <2>1, <2>4 DEF Believable, Idle
<1>4. CASE running /\ ~(Writable(u) /\ Verified(Written(u)))
  <2>1. running' = FALSE /\ error' = TRUE
    BY <1>4 DEF LastPiece, Fail
  <2> QED
    BY <1>2, <2>1 DEF Believable, Idle
<1>5. CASE ~running
  <2>1. UNCHANGED <<running, error>> /\ error
    BY <1>2, <1>5 DEF LastPiece, update, Believable
  <2> QED
    BY <1>2, <1>5, <2>1 DEF Believable, Idle
<1> QED
  BY <1>3, <1>4, <1>5

\* An answer and a lost connection only end an upload.
LEMMA DoneBelievable ==
  ASSUME Shape, Believable, NEW u \in Uploads, Finish(u) \/ Disconnect(u)
  PROVE  Believable'
<1>1. sent \in [Uploads -> Int] /\ sent' = [sent EXCEPT ![u] = Idle]
      /\ UNCHANGED <<running, error, mode, written, target, flash>>
  BY Zenon DEF Shape, Finish, Disconnect, update, device
<1>2. \A v \in Uploads : sent'[v] = sent[v] \/ sent'[v] = Idle
  BY <1>1
<1> QED
  BY <1>1, <1>2, IdleSendsNothing DEF Believable

\* Where uploads do not overlap and all images go to one partition, an upload
\* that is answered "OK" is installed, whatever connections were lost and
\* updates failed before, and wherever the device was restarted.
THEOREM OtaOneAtATime ==
  ASSUME \A u, v \in Uploads : Mode(u) = Mode(v)
  PROVE  Spec /\ []OneAtATime => OKIsInstalled
<1>1. Init => Believable
  <2>1. Init => running = FALSE /\ \A u \in Uploads : sent[u] = Idle
    BY DEF Init, Booted
  <2> QED
    BY <2>1, IdleSendsNothing DEF Believable
<1>2. ASSUME Shape, Believable, OneAtATime, OneAtATime', [Next]_vars PROVE Believable'
  <2>1. ASSUME NEW u \in Uploads, Request(u) \/ Disconnect(u) PROVE Believable'
    BY <1>2, <2>1, StartBelievable, PieceBelievable, LastPieceBelievable, DoneBelievable
    DEF Request
  <2>2. CASE Restart
    <3>1. running' = FALSE /\ \A u \in Uploads : sent'[u] = Idle
      BY <2>2, RestartForgets
    <3> QED
      BY <3>1, IdleSendsNothing DEF Believable
  <2>3. CASE UNCHANGED <<sent, update, flash>>
    BY <1>2, <2>3 DEF Believable, update
  <2> QED
    BY <1>2, <2>1, <2>2, <2>3
    DEF Next, Loop, HandleKeypad, ProgramEnds, OtaLoop, TwoSeconds, Leave, device, vars
<1>3. Believable /\ [Next]_vars
        => [\A u \in Uploads : Finish(u) /\ ~error => flash[Mode(u)] = Whole(u)]_vars
  BY DEF Believable, Finish
<1>4. IInv /\ Believable /\ OneAtATime /\ OneAtATime' /\ [Next]_vars => Believable'
  BY <1>2 DEF IInv
<1> QED
  BY <1>1, <1>3, <1>4, OtaInvariant, PTL DEF Spec, OKIsInstalled
=============================================================================
