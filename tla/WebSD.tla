-------------------------------- MODULE WebSD --------------------------------
(***************************************************************************)
(* The web pages of the SD card, WebReadSDCard.cpp: uploads, which arrive  *)
(* in pieces, and the changes of the card's tree.                          *)
(*                                                                         *)
(* One task serves all connections, so every callback is one step; but the *)
(* pieces of several uploads arrive in any order between each other, and   *)
(* one static file and one static folder serve them all.                   *)
(*                                                                         *)
(* A path is the sequence of its names, a piece of an upload its number,   *)
(* and the content of a file the sequence of the pieces written into it.   *)
(***************************************************************************)
EXTENDS Integers, Sequences, FiniteSets

CONSTANTS
    Uploads,        \* the files that clients send
    NoUpload,
    Size,           \* Size[u]: the pieces of u
    FileName,       \* FileName[u]: the path in the request, as a sequence of names
    Folder,         \* Folder[u]: the request's parameter 'folder', or NoFolder
    NoFolder,
    NoFile,         \* File(): no file
    Paths,          \* the paths that clients create and delete
    Renames,        \* the pairs of paths they rename, old and new
    MaxConcurrent   \* how many uploads are under way at once

ASSUME WebSDAssumption ==
    /\ Size \in [Uploads -> Nat]
    /\ NoUpload \notin Uploads
    /\ FileName \in [Uploads -> Seq(STRING)]
    /\ Folder \in [Uploads -> Seq(STRING) \cup {NoFolder}]
    /\ NoFolder \notin Seq(STRING) /\ NoFile \notin Seq(STRING)
    /\ Paths \subseteq Seq(STRING)
    /\ Renames \subseteq Seq(STRING) \X Seq(STRING)
    /\ MaxConcurrent \in Nat \ {0}

Root == <<>>
Parent(p) == SubSeq(p, 1, Len(p) - 1)
Under(p, q) == Len(q) >= Len(p) /\ SubSeq(q, 1, Len(p)) = p

VARIABLES
    dirs,           \* the folders of the card
    files,          \* path -> content
    mounted,        \* SD.begin was called since the card was last taken away
    uploadFile,     \* the static file of handleUpload: its path, or NoFile
    folder,         \* the static folder of handleUpload
    sent,           \* sent[u]: the pieces that have arrived, or Idle
    turn,           \* the upload whose pieces alone went into uploadFile
    kept            \* <<path, upload>>: stored without a disturbance

tree == <<dirs, files, mounted>>
webVars == <<tree, uploadFile, folder, sent, turn, kept>>

Idle == -1
\* Mutant of Piece: the pieces are counted from 0.
PieceFromZero(u) == <<u, sent[u]>>
Piece(u) == <<u, sent[u] + 1>>
Whole(u) == [i \in 1 .. Size[u] |-> <<u, i>>]

WebInit ==
    /\ dirs = {Root}
    /\ files = <<>>
    /\ mounted = TRUE
    /\ uploadFile = NoFile
    /\ folder = Root
    /\ sent = [u \in Uploads |-> Idle]
    /\ turn = NoUpload
    /\ kept = {}

-----------------------------------------------------------------------------
(* What the file system does (external). *)

Exists(p) == mounted /\ p \in dirs \cup DOMAIN files
Writable(p, d) == mounted /\ p \notin d /\ p # Root /\ Parent(p) \in d
With(f, p, content) == [q \in DOMAIN f \cup {p} |-> IF q = p THEN content ELSE f[q]]
Without(f, S) == [q \in DOMAIN f \ S |-> f[q]]
EmptyFolder(p) == ~\E q \in dirs \cup DOMAIN files : q # p /\ Under(p, q)
Moved(q, p, to) == IF Under(p, q) THEN to \o SubSeq(q, Len(p) + 1, Len(q)) ELSE q

\* What was stored under p is no longer looked after.
KeptBut(p) == {k \in kept : ~Under(p, k[1])}

-----------------------------------------------------------------------------
(* An upload: the request, its pieces one callback each, and the answer. *)

Request(u) ==
    /\ sent[u] = Idle
    /\ Cardinality({v \in Uploads : sent[v] # Idle}) < MaxConcurrent
    /\ sent' = [sent EXCEPT ![u] = 0]
    /\ UNCHANGED <<tree, uploadFile, folder, turn, kept>>

\* The static folder after the first piece of u, and whether it is made.
FolderOf(u) == IF Folder[u] = NoFolder THEN folder ELSE Folder[u]
FoldersAfter(u) ==
    IF Folder[u] # NoFolder /\ ~Exists(Folder[u]) /\ Writable(Folder[u], dirs)
    THEN dirs \cup {Folder[u]} ELSE dirs

\* Mutant of Opens: every piece opens the file.
OpensAlways(u) == sent[u] >= 0
\* The test index == 0, and the parameter final.
Opens(u) == sent[u] = 0
Closes(u) == sent[u] + 1 = Size[u]

\* Mutant of FileAfter: the last piece leaves the file open.
FileAfterOpen(u, p) == p
FileAfter(u, p) == IF Closes(u) THEN NoFile ELSE p

FirstPiece(u) ==
    LET p == FolderOf(u) \o FileName[u]
        found == Writable(p, FoldersAfter(u))
    IN  /\ Opens(u) /\ sent[u] < Size[u]
        /\ folder' = FolderOf(u)
        /\ dirs' = FoldersAfter(u)
        /\ files' = IF found THEN With(files, p, <<Piece(u)>>) ELSE files
        /\ uploadFile' = IF found THEN FileAfter(u, p) ELSE NoFile
        /\ turn' = IF found THEN u ELSE NoUpload
        /\ kept' = (IF found THEN KeptBut(p) ELSE kept)
                     \cup (IF found /\ Closes(u) THEN {<<p, u>>} ELSE {})
        /\ sent' = [sent EXCEPT ![u] = @ + 1]
        /\ UNCHANGED mounted

LaterPiece(u) ==
    /\ sent[u] > 0 /\ sent[u] < Size[u]
    /\ files' = IF uploadFile # NoFile
                THEN [files EXCEPT ![uploadFile] = Append(@, Piece(u))] ELSE files
    /\ uploadFile' = FileAfter(u, uploadFile)
    /\ turn' = IF turn = u THEN u ELSE NoUpload
    /\ kept' = IF Closes(u) /\ uploadFile # NoFile /\ turn = u
               THEN kept \cup {<<uploadFile, u>>} ELSE kept
    /\ sent' = [sent EXCEPT ![u] = @ + 1]
    /\ UNCHANGED <<dirs, mounted, folder>>

Answer(u) ==
    /\ sent[u] = Size[u]
    /\ sent' = [sent EXCEPT ![u] = Idle]
    /\ UNCHANGED <<tree, uploadFile, folder, turn, kept>>

\* The connection is lost: no callback is called, the file stays open.
Abort(u) ==
    /\ sent[u] # Idle
    /\ sent' = [sent EXCEPT ![u] = Idle]
    /\ UNCHANGED <<tree, uploadFile, folder, turn, kept>>

-----------------------------------------------------------------------------
(* The other requests. A file that is deleted or renamed while it is open  *)
(* is written to no more: FatFs leaves open what happens to such pieces. A *)
(* folder that is renamed takes the open file with it.                     *)

LeaveFile(p) ==
    /\ uploadFile' = IF uploadFile = p THEN NoFile ELSE uploadFile
    /\ turn' = IF uploadFile = p THEN NoUpload ELSE turn

CreateFolder(p) ==
    /\ ~Exists(p) /\ Writable(p, dirs)
    /\ dirs' = dirs \cup {p}
    /\ UNCHANGED <<files, mounted, uploadFile, folder, sent, turn, kept>>

DeleteFolder(p) ==
    /\ Exists(p) /\ p \in dirs \ {Root} /\ EmptyFolder(p)
    /\ dirs' = dirs \ {p}
    /\ UNCHANGED <<files, mounted, uploadFile, folder, sent, turn, kept>>

DeleteFile(p) ==
    /\ Exists(p) /\ p \in DOMAIN files
    /\ files' = Without(files, {p})
    /\ kept' = KeptBut(p)
    /\ LeaveFile(p)
    /\ UNCHANGED <<dirs, mounted, folder, sent>>

\* The new name stays in the old folder.
Rename(p, to) ==
    /\ Exists(p) /\ p # Root
    /\ Parent(to) = Parent(p) /\ ~Exists(to)
    /\ dirs' = {Moved(q, p, to) : q \in dirs}
    /\ files' = [q \in {Moved(r, p, to) : r \in DOMAIN files} |-> files[Moved(q, to, p)]]
    /\ kept' = {<<Moved(k[1], p, to), k[2]>> : k \in kept}
    /\ IF p \in DOMAIN files \/ uploadFile = NoFile THEN LeaveFile(p)
       ELSE uploadFile' = Moved(uploadFile, p, to) /\ turn' = turn
    /\ UNCHANGED <<mounted, folder, sent>>

\* The menu's 'Remove SD': the open file is lost with the file system.
RemoveSD ==
    /\ mounted
    /\ mounted' = FALSE
    /\ uploadFile' = NoFile
    /\ turn' = NoUpload
    /\ UNCHANGED <<dirs, files, folder, sent, kept>>

\* handleSystemInfo, or the menu: SD.begin.
Mount ==
    /\ ~mounted
    /\ mounted' = TRUE
    /\ UNCHANGED <<dirs, files, uploadFile, folder, sent, turn, kept>>

\* A file that is open has no length in its folder yet.
Reboot ==
    /\ files' = IF uploadFile # NoFile THEN [files EXCEPT ![uploadFile] = <<>>] ELSE files
    /\ mounted' = TRUE
    /\ uploadFile' = NoFile
    /\ folder' = Root
    /\ sent' = [u \in Uploads |-> Idle]
    /\ turn' = NoUpload
    /\ UNCHANGED <<dirs, kept>>

-----------------------------------------------------------------------------
Upload(u) == Request(u) \/ FirstPiece(u) \/ LaterPiece(u) \/ Answer(u)

FileAction ==
    \/ \E p \in Paths : CreateFolder(p) \/ DeleteFolder(p) \/ DeleteFile(p)
    \/ \E r \in Renames : Rename(r[1], r[2])

WebNext ==
    \/ \E u \in Uploads : Upload(u) \/ Abort(u)
    \/ FileAction
    \/ RemoveSD
    \/ Mount
    \/ Reboot

WebSpec == WebInit /\ [][WebNext]_webVars

\* The page alone: it sends files, and nobody does anything else.
PageSpec == WebInit /\ [][\E u \in Uploads : Upload(u)]_webVars

-----------------------------------------------------------------------------
\* The card stays a tree, and a file holds pieces that were sent.
WebTypeOK ==
    /\ Root \in dirs
    /\ \A p \in (dirs \cup DOMAIN files) \ {Root} : Parent(p) \in dirs
    /\ dirs \cap DOMAIN files = {}
    /\ \A p \in DOMAIN files : \A i \in DOMAIN files[p] :
          /\ files[p][i][1] \in Uploads
          /\ files[p][i][2] \in 1 .. Size[files[p][i][1]]
    /\ mounted \in BOOLEAN
    /\ uploadFile # NoFile => uploadFile \in DOMAIN files
    /\ \A u \in Uploads : sent[u] \in Idle .. Size[u]
    /\ turn \in Uploads \cup {NoUpload}

\* An upload whose pieces met no others is on the card, whole and closed: it
\* stays so whatever comes after, late pieces of other uploads, connections
\* lost, folders renamed, the card removed and a reboot, until a new upload
\* of that path or a deletion.
StoredStays ==
    \A k \in kept : k[1] \in DOMAIN files /\ files[k[1]] = Whole(k[2])

\* What lies on the card began with the first piece of some upload: pieces
\* never go into a file that was there before.
BeginsAtFirst ==
    \A p \in DOMAIN files : files[p] # <<>> => files[p][1][2] = 1

\* An upload that is answered 'OK' is on the card.
AnsweredStored ==
    [][\A u \in Uploads :
          Answer(u) => FileName[u] \in DOMAIN files /\ files[FileName[u]] = Whole(u)]_webVars
=============================================================================
