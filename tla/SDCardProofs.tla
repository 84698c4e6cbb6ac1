----------------------------- MODULE SDCardProofs -----------------------------
(***************************************************************************)
(* Proofs about the two ways to the SD card: the browser on the screen     *)
(* (FileBrowser) and the web pages (WebSD).  The two share the card and no *)
(* variable of the program, and each specification leaves the variables of *)
(* the other one free.                                                     *)
(***************************************************************************)
EXTENDS FileBrowser, WebSD, SequenceTheorems, FiniteSetTheorems, TLAPS

-----------------------------------------------------------------------------
(* The browser, for every card.  The invariant needs that a list that is   *)
(* browsed is not empty, which is why showFileList returns at once from an *)
(* empty one: fileList.size() - 1 is unsigned.                             *)

\* The names in the list are names of the card.
ListOfCard == \A i \in 1..Len(fileList) : fileList[i].name \in Names

BrowserIInv == TypeOK /\ MarkedShown /\ ListOfCard

\* Key A keeps the marked entry on the screen.
LEMMA UpShown ==
  ASSUME NEW n \in Nat, NEW sel \in Nat, NEW top \in Nat, sel \in Shown(top, n)
  PROVE  /\ SelUp(sel) \in Nat /\ TopUp(sel, top) \in Nat
         /\ SelUp(sel) \in Shown(TopUp(sel, top), n)
BY DEF SelUp, TopUp, Shown, Rows

\* Key C keeps the marked entry on the screen.
LEMMA DownShown ==
  ASSUME NEW n \in Nat, NEW sel \in Nat, NEW top \in Nat, sel \in Shown(top, n)
  PROVE  /\ SelDown(sel, n) \in Nat /\ TopDown(sel, top, n) \in Nat
         /\ SelDown(sel, n) \in Shown(TopDown(sel, top, n), n)
BY DEF SelDown, TopDown, Shown, Rows

\* However far a folder is read, the list holds entries of the card.
LEMMA ReadOfCard ==
  ASSUME NEW path, NEW list \in ReadFiles(path)
  PROVE  list \in Seq(Entry) /\ \A i \in 1..Len(list) : list[i].name \in Names
<1>1. CASE list = <<>>
  BY <1>1
<1>2. CASE list # <<>>
  <2> DEFINE all == Listing[path]
             names == {all[i].name : i \in 1..Len(all)}
  <2>1. path \in Dirs /\ \E n \in 0..Len(all) : list = SubSeq(all, 1, n)
    <3>1. path \in Dirs /\ (list = all \/ \E n \in 0..Len(all) : list = SubSeq(all, 1, n))
      BY <1>2 DEF ReadFiles
    <3>2. all \in Seq(Entry)
      BY <3>1, ListingAssumption
    <3>3. all = SubSeq(all, 1, Len(all)) /\ Len(all) \in 0..Len(all)
      BY <3>2
    <3> QED
      BY <3>1, <3>3
  <2>2. all \in Seq(Entry)
    BY <2>1, ListingAssumption
  <2>3. names \subseteq Names
    <3>1. names \in {{Listing[p][i].name : i \in 1..Len(Listing[p])} : p \in Dirs}
      BY <2>1
    <3> QED
      BY <3>1 DEF Names
  <2> HIDE DEF all
  <2>4. PICK n \in 0..Len(all) : list = SubSeq(all, 1, n)
    BY <2>1
  <2>5. list \in Seq(Entry) /\ Len(list) = n /\ \A i \in 1..n : list[i] = all[i]
    BY <2>2, <2>4
  <2>6. \A i \in 1..n : all[i].name \in names
    BY <2>2
  <2> HIDE DEF names
  <2> QED
    BY <2>3, <2>5, <2>6
<1> QED
  BY <1>1, <1>2

\* showFileList() establishes the invariant, whatever the path.
LEMMA ShowFolderBrowserIInv ==
  ASSUME TypeOK, NEW path \in Seq(Names), ShowFolder(path)
  PROVE  BrowserIInv'
<1>1. /\ currentPath' = path /\ fileList' \in ReadFiles(path)
      /\ browsing' = (fileList' # <<>>)
      /\ selectedFile' = 0 /\ fileMenuIndex' = 0 /\ card' = card
  BY DEF ShowFolder
<1>2. fileList' \in Seq(Entry) /\ \A i \in 1..Len(fileList') : fileList'[i].name \in Names
  BY <1>1, ReadOfCard
<1>3. browsing' \in BOOLEAN /\ card' \in BOOLEAN
  BY <1>1, Zenon DEF TypeOK
<1>4. TypeOK'
  BY <1>1, <1>2, <1>3 DEF TypeOK
<1>5. MarkedShown'
  <2> SUFFICES ASSUME browsing' PROVE 0 < Len(fileList')
    BY <1>1 DEF MarkedShown, Shown, Rows
  <2>1. fileList' \in Seq(Entry) /\ fileList' # <<>>
    BY <1>1, <1>2
  <2> QED
    BY <2>1
<1>6. ListOfCard'
  BY <1>2 DEF ListOfCard
<1> QED
  BY <1>4, <1>5, <1>6 DEF BrowserIInv

LEMMA InitBrowserIInv == Init => BrowserIInv
<1> SUFFICES ASSUME Init PROVE BrowserIInv
  OBVIOUS
<1>1. browsing \in BOOLEAN /\ card \in BOOLEAN /\ ~browsing
  BY Zenon DEF Init
<1> QED
  BY <1>1 DEF Init, BrowserIInv, TypeOK, MarkedShown, ListOfCard

LEMMA NextBrowserIInv == BrowserIInv /\ [Next]_vars => BrowserIInv'
<1> SUFFICES ASSUME BrowserIInv, [Next]_vars PROVE BrowserIInv'
  OBVIOUS
<1> USE DEF BrowserIInv
<1>1. CASE ShowFileList
  BY <1>1, ShowFolderBrowserIInv DEF ShowFileList, TypeOK
<1>2. CASE Move
  <2>1. /\ browsing /\ selectedFile \in Nat /\ fileMenuIndex \in Nat
        /\ Len(fileList) \in Nat
        /\ selectedFile \in Shown(fileMenuIndex, Len(fileList))
    BY <1>2 DEF Move, TypeOK, MarkedShown
  <2>2. /\ selectedFile' \in Nat /\ fileMenuIndex' \in Nat
        /\ selectedFile' \in Shown(fileMenuIndex', Len(fileList))
    BY <1>2, <2>1, UpShown, DownShown DEF Move
  <2>3. UNCHANGED <<browsing, currentPath, fileList, card>>
    BY <1>2 DEF Move
  <2> QED
    BY <2>2, <2>3 DEF TypeOK, MarkedShown, ListOfCard
<1>3. CASE EnterFolder
  <2>1. /\ ShowFolder(<<Marked.name>>)
        /\ fileList \in Seq(Entry) /\ selectedFile \in Nat /\ selectedFile < Len(fileList)
    BY <1>3 DEF EnterFolder, TypeOK, MarkedShown, Shown
  <2>2. selectedFile + 1 \in 1..Len(fileList)
    BY <2>1
  <2>3. Marked.name \in Names
    BY <2>2 DEF Marked, ListOfCard
  <2>4. <<Marked.name>> \in Seq(Names)
    BY <2>3
  <2> QED
    BY <2>1, <2>4, ShowFolderBrowserIInv
<1>4. CASE ChooseFile
  BY <1>4 DEF ChooseFile, TypeOK, MarkedShown, ListOfCard
<1>5. CASE LeaveFolder
  <2>1. /\ currentPath \in Seq(Names) /\ currentPath # <<>>
        /\ ShowFolder(SubSeq(currentPath, 1, Len(currentPath) - 1))
    BY <1>5 DEF LeaveFolder, TypeOK
  <2>2. SubSeq(currentPath, 1, Len(currentPath) - 1) \in Seq(Names)
    BY <2>1
  <2> QED
    BY <2>1, <2>2, ShowFolderBrowserIInv
<1>6. CASE Leave
  BY <1>6 DEF Leave, TypeOK, MarkedShown, ListOfCard
<1>7. CASE CardChanges
  <2>1. card' \in BOOLEAN
    BY <1>7, Zenon DEF CardChanges
  <2> QED
    BY <1>7, <2>1 DEF CardChanges, TypeOK, MarkedShown, ListOfCard
<1>8. CASE UNCHANGED vars
  BY <1>8 DEF vars, TypeOK, MarkedShown, ListOfCard
<1> QED
  BY <1>1, <1>2, <1>3, <1>4, <1>5, <1>6, <1>7, <1>8 DEF Next, KeyD

\* On every card, in every reachable state of the browser, the types hold, the
\* marked entry exists and is drawn, and the list holds entries of the card.
THEOREM FileBrowserInvariant == Spec => []BrowserIInv
<1>1. Init => BrowserIInv
  BY InitBrowserIInv
<1>2. BrowserIInv /\ [Next]_vars => BrowserIInv'
  BY NextBrowserIInv
<1> QED
  BY <1>1, <1>2, PTL DEF Spec

\* The type invariant, on every card.
THEOREM FileBrowserTyped == Spec => []TypeOK
BY FileBrowserInvariant, PTL DEF BrowserIInv

\* The entry that B opens is one of those on the screen, on every card.
THEOREM FileBrowserMarkedShown == Spec => []MarkedShown
BY FileBrowserInvariant, PTL DEF BrowserIInv

\* The path is never longer than one name, because EnterFolder takes the bare
\* name for the whole path.
ShortPath == currentPath = <<>> \/ Len(currentPath) = 1

LEMMA NextShortPath == BrowserIInv /\ ShortPath /\ [Next]_vars => ShortPath'
<1> SUFFICES ASSUME BrowserIInv, ShortPath, [Next]_vars PROVE ShortPath'
  OBVIOUS
<1>1. CASE LeaveFolder
  <2>1. /\ currentPath # <<>> /\ Len(currentPath) = 1
        /\ currentPath' = SubSeq(currentPath, 1, Len(currentPath) - 1)
    BY <1>1 DEF ShortPath, LeaveFolder, ShowFolder
  <2>2. currentPath' = <<>>
    BY <2>1, SubSeqEmpty
  <2> QED
    BY <2>2 DEF ShortPath
<1>2. CASE EnterFolder
  BY <1>2 DEF EnterFolder, ShowFolder, ShortPath
<1>3. CASE ~LeaveFolder /\ ~EnterFolder
  <2>1. UNCHANGED currentPath
    BY <1>3 DEF Next, KeyD, ShowFileList, ShowFolder, Move, ChooseFile, Leave, CardChanges, vars
  <2> QED
    BY <2>1 DEF ShortPath
<1> QED
  BY <1>1, <1>2, <1>3

\* The fairness of KeyD written out, since the prover does not reason about
\* ENABLED: D does something as long as the browser runs.
DIsPressed == []<>~browsing \/ []<><<KeyD>>_vars

\* Somebody who only presses D, or opens the browser again, comes to see the
\* root of the card, on every card that keeps the browser visible.
THEOREM FileBrowserBackToRoot == Spec /\ DIsPressed => BackToRootIfSeen
<1> DEFINE Inside == browsing /\ currentPath # <<>>
           AtRoot == currentPath = <<>>
           Step == KeyD \/ ShowFileList
           Seen == browsing /\ currentPath = <<>>
<1>1. Spec => [](BrowserIInv /\ ShortPath)
  <2>1. Init => ShortPath
    BY DEF Init, ShortPath
  <2> QED
    BY <2>1, NextShortPath, FileBrowserInvariant, PTL DEF Spec
<1>2. ShortPath /\ Inside /\ KeyD => AtRoot'
  <2> SUFFICES ASSUME ShortPath, Inside, KeyD PROVE AtRoot'
    OBVIOUS
  <2>1. Len(currentPath) = 1 /\ currentPath' = SubSeq(currentPath, 1, Len(currentPath) - 1)
    BY DEF ShortPath, KeyD, LeaveFolder, Leave, ShowFolder
  <2> QED
    BY <2>1, SubSeqEmpty
<1>3. Inside /\ [Step]_vars => Inside' \/ KeyD
  BY DEF ShowFileList, vars
<1>4. AtRoot /\ [Step]_vars => AtRoot'
  BY DEF KeyD, LeaveFolder, Leave, ShowFileList, ShowFolder, vars
<1>5. Inside => browsing
  OBVIOUS
<1>6. /\ browsing => Inside \/ AtRoot
      /\ browsing /\ AtRoot => Seen
  OBVIOUS
<1>7. BackToRootIfSeen <=> (<>[][Step]_vars /\ []<>browsing => []<>Seen)
  BY DEF BackToRootIfSeen
<1> HIDE DEF Inside, AtRoot, Seen, Step
<1> QED
  BY <1>1, <1>2, <1>3, <1>4, <1>5, <1>6, <1>7, PTL DEF DIsPressed

-----------------------------------------------------------------------------
(* The web pages, for all clients, files and requests.                     *)
(*                                                                         *)
(* WebTypeOK and StoredStays are not inductive: that a rename merges no    *)
(* two files needs the whole way to every file to be on the card (IsTree), *)
(* and that late pieces of another upload spoil no stored file needs that  *)
(* no stored file is open (OpenFile), which also says what an open file    *)
(* holds while one upload alone writes it.                                 *)
Path == Seq(STRING)

\* The pieces of all uploads, and the first n pieces of u.
Pieces == {c \in Uploads \X Nat : c[2] \in 1 .. Size[c[1]]}
Written(u, n) == [i \in 1 .. n |-> <<u, i>>]

\* The card: its folders and files have paths, its files hold pieces.
CardOK ==
    /\ dirs \subseteq Path /\ DOMAIN files \subseteq Path
    /\ \A p \in DOMAIN files : files[p] \in Seq(Pieces)
    /\ mounted \in BOOLEAN

\* The static variables of handleUpload, the clients, and the records.
UploadOK ==
    /\ uploadFile # NoFile => uploadFile \in DOMAIN files
    /\ folder \in Path
    /\ sent \in [Uploads -> Int] /\ \A u \in Uploads : sent[u] \in Idle .. Size[u]
    /\ turn \in Uploads \cup {NoUpload}
    /\ kept \subseteq Path \X Uploads

\* The whole way to whatever is on the card is made of folders.
IsTree ==
    /\ Root \in dirs
    /\ dirs \cap DOMAIN files = {}
    /\ \A q \in dirs \cup DOMAIN files : \A n \in 0 .. Len(q) - 1 : SubSeq(q, 1, n) \in dirs

\* The open file is begun and not among the stored ones.  While one upload
\* alone writes it, it holds that upload's pieces as far as they have arrived.
OpenFile ==
    uploadFile # NoFile =>
        /\ files[uploadFile] # <<>>
        /\ \A k \in kept : k[1] # uploadFile
        /\ turn # NoUpload /\ sent[turn] > 0 => files[uploadFile] = Written(turn, sent[turn])

WebIInv == CardOK /\ UploadOK /\ IsTree /\ OpenFile /\ StoredStays /\ BeginsAtFirst

-----------------------------------------------------------------------------
(* Paths. *)

\* A prefix of a path, name by name.
LEMMA Prefix ==
  ASSUME NEW q \in Path, NEW n \in 0 .. Len(q)
  PROVE  /\ SubSeq(q, 1, n) \in Path
         /\ Len(SubSeq(q, 1, n)) = n
         /\ \A i \in 1 .. n : SubSeq(q, 1, n)[i] = q[i]
<1>1. Len(q) \in Nat /\ \A i \in 1 .. Len(q) : q[i] \in STRING
  BY LenProperties, ElementOfSeq DEF Path
<1>2. \A i \in 1 .. n : q[i] \in STRING
  BY <1>1
<1>3. n \in Int /\ 1 \in Int
  BY <1>1
<1> QED
  BY <1>1, <1>2, <1>3, SubSeqProperties, SMT DEF Path

\* Under, name by name.
LEMMA UnderByName ==
  ASSUME NEW p \in Path, NEW q \in Path
  PROVE  Under(p, q) <=> Len(q) >= Len(p) /\ \A i \in 1 .. Len(p) : q[i] = p[i]
<1> DEFINE pre == SubSeq(q, 1, Len(p))
<1>1. Len(p) \in Nat /\ Len(q) \in Nat
  BY LenProperties DEF Path
<1> SUFFICES ASSUME Len(q) >= Len(p)
             PROVE  pre = p <=> \A i \in 1 .. Len(p) : q[i] = p[i]
  BY <1>1 DEF Under
<1>2. pre \in Path /\ Len(pre) = Len(p) /\ \A i \in 1 .. Len(p) : pre[i] = q[i]
  BY <1>1, Prefix
<1> HIDE DEF pre
<1> QED
  BY <1>2, SeqEqual DEF Path

\* What lies under a path on the way to another one.
LEMMA UnderPrefix ==
  ASSUME NEW p \in Path, NEW q \in Path, NEW n \in 0 .. Len(q), Under(p, SubSeq(q, 1, n))
  PROVE  Under(p, q) /\ Len(p) <= n
<1>1. SubSeq(q, 1, n) \in Path /\ Len(SubSeq(q, 1, n)) = n
      /\ \A i \in 1 .. n : SubSeq(q, 1, n)[i] = q[i]
  BY Prefix
<1>2. Len(p) \in Nat /\ Len(q) \in Nat
  BY LenProperties DEF Path
<1>3. Len(p) <= n /\ \A i \in 1 .. Len(p) : SubSeq(q, 1, n)[i] = p[i]
  BY <1>1, <1>2, UnderByName
<1> QED
  BY <1>1, <1>2, <1>3, UnderByName

\* A prefix of a prefix is a prefix.
LEMMA PrefixOfPrefix ==
  ASSUME NEW q \in Path, NEW m \in 0 .. Len(q), NEW n \in 0 .. m
  PROVE  SubSeq(SubSeq(q, 1, m), 1, n) = SubSeq(q, 1, n)
<1> DEFINE a == SubSeq(SubSeq(q, 1, m), 1, n)
           b == SubSeq(q, 1, n)
<1>0. Len(q) \in Nat
  BY LenProperties DEF Path
<1>1. SubSeq(q, 1, m) \in Path /\ Len(SubSeq(q, 1, m)) = m
      /\ \A i \in 1 .. m : SubSeq(q, 1, m)[i] = q[i]
  BY Prefix
<1>2. b \in Path /\ Len(b) = n /\ \A i \in 1 .. n : b[i] = q[i]
  BY <1>0, Prefix
<1>3. a \in Path /\ Len(a) = n /\ \A i \in 1 .. n : a[i] = SubSeq(q, 1, m)[i]
  BY <1>1, Prefix
<1>4. \A i \in 1 .. n : a[i] = b[i]
  BY <1>1, <1>2, <1>3, <1>0
<1> HIDE DEF a, b
<1> QED
  BY <1>2, <1>3, <1>4, SeqEqual DEF Path

\* A rename to a name of the same length changes the names of p and no others.
LEMMA MovedByName ==
  ASSUME NEW p \in Path, NEW to \in Path, Len(p) = Len(to), NEW q \in Path, Under(p, q)
  PROVE  /\ Moved(q, p, to) \in Path
         /\ Len(Moved(q, p, to)) = Len(q)
         /\ \A i \in 1 .. Len(q) :
               Moved(q, p, to)[i] = IF i <= Len(p) THEN to[i] ELSE q[i]
<1> DEFINE rest == SubSeq(q, Len(p) + 1, Len(q))
<1>1. Len(p) \in Nat /\ Len(q) \in Nat /\ Len(p) <= Len(q) /\ Len(to) \in Nat
  BY LenProperties DEF Path, Under
<1>2. \A i \in Len(p) + 1 .. Len(q) : q[i] \in STRING
  <2> \A i \in 1 .. Len(q) : q[i] \in STRING
    BY ElementOfSeq DEF Path
  <2> QED
    BY <1>1
<1>3. /\ rest \in Path
      /\ Len(rest) = IF Len(p) + 1 <= Len(q) THEN Len(q) - (Len(p) + 1) + 1 ELSE 0
      /\ \A i \in 1 .. Len(q) - (Len(p) + 1) + 1 : rest[i] = q[Len(p) + 1 + i - 1]
  <2> Len(p) + 1 \in Int /\ Len(q) \in Int
    BY <1>1
  <2> QED
    BY <1>2, SubSeqProperties DEF Path
<1> HIDE DEF rest
<1>4. Len(rest) = Len(q) - Len(p) /\ \A i \in 1 .. Len(q) - Len(p) : rest[i] = q[Len(p) + i]
  BY <1>1, <1>3
<1>5. /\ to \o rest \in Path /\ Len(to \o rest) = Len(to) + Len(rest)
      /\ \A i \in 1 .. Len(to) + Len(rest) :
            (to \o rest)[i] = IF i <= Len(to) THEN to[i] ELSE rest[i - Len(to)]
  <2>1. to \in Seq(STRING) /\ rest \in Seq(STRING)
    BY <1>3 DEF Path
  <2>2. /\ to \o rest \in Seq(STRING) /\ Len(to \o rest) = Len(to) + Len(rest)
        /\ \A i \in 1 .. Len(to) + Len(rest) :
              (to \o rest)[i] = IF i <= Len(to) THEN to[i] ELSE rest[i - Len(to)]
    BY <2>1, ConcatProperties
  <2> QED
    BY <2>2 DEF Path
<1>6. Moved(q, p, to) = to \o rest
  BY DEF Moved, rest
<1> DEFINE new == to \o rest
<1> HIDE DEF new
<1>7. new \in Path /\ Len(new) = Len(q)
  BY <1>5, <1>4, <1>1 DEF new
<1>8. ASSUME NEW i \in 1 .. Len(q) PROVE new[i] = IF i <= Len(p) THEN to[i] ELSE q[i]
  <2>1. new[i] = IF i <= Len(to) THEN to[i] ELSE rest[i - Len(to)]
    BY <1>5, <1>4, <1>1 DEF new
  <2>2. CASE i <= Len(p)
    BY <2>1, <2>2
  <2>3. CASE i > Len(p)
    <3>1. i - Len(p) \in 1 .. Len(q) - Len(p)
      BY <2>3, <1>1
    <3> QED
      BY <3>1, <2>1, <2>3, <1>4, <1>1
  <2> QED
    BY <2>2, <2>3, <1>1
<1> QED
  BY <1>6, <1>7, <1>8 DEF new

\* Two paths of the same folder differ in their last name only.
LEMMA Siblings ==
  ASSUME NEW p \in Path, NEW to \in Path, p # Root, to # Root, Parent(to) = Parent(p)
  PROVE  Len(to) = Len(p) /\ \A i \in 1 .. Len(p) - 1 : to[i] = p[i]
<1>1. Len(p) \in Nat \ {0} /\ Len(to) \in Nat \ {0}
  BY LenProperties, EmptySeq DEF Path, Root
<1>2. /\ Len(Parent(p)) = Len(p) - 1
      /\ \A i \in 1 .. Len(p) - 1 : Parent(p)[i] = p[i]
  <2> Len(p) - 1 \in 0 .. Len(p)
    BY <1>1
  <2> QED
    BY Prefix DEF Parent
<1>3. /\ Len(Parent(to)) = Len(to) - 1
      /\ \A i \in 1 .. Len(to) - 1 : Parent(to)[i] = to[i]
  <2> Len(to) - 1 \in 0 .. Len(to)
    BY <1>1
  <2> QED
    BY Prefix DEF Parent
<1> QED
  BY <1>1, <1>2, <1>3

\* Nothing lies under a path that is not on the card.
LEMMA NothingUnder ==
  ASSUME CardOK, IsTree, NEW to \in Path, to \notin dirs \cup DOMAIN files,
         NEW q \in dirs \cup DOMAIN files
  PROVE  ~Under(to, q)
<1> SUFFICES ASSUME Under(to, q) PROVE FALSE
  OBVIOUS
<1>1. q \in Path
  BY DEF CardOK
<1>2. Len(to) \in Nat /\ Len(q) \in Nat /\ Len(to) <= Len(q) /\ SubSeq(q, 1, Len(to)) = to
  BY <1>1, LenProperties DEF Under, Path
<1>3. CASE Len(to) = Len(q)
  <2>1. SubSeq(q, 1, Len(q)) = q
    BY <1>1, SubSeqFull DEF Path
  <2> QED
    BY <1>2, <1>3, <2>1
<1>4. CASE Len(to) < Len(q)
  <2>1. Len(to) \in 0 .. Len(q) - 1
    BY <1>2, <1>4
  <2> QED
    BY <1>2, <2>1 DEF IsTree
<1> QED
  BY <1>2, <1>3, <1>4

\* What a rename does to the paths of the card: every one keeps its length, the
\* way to the new path is the new path of the way, and no two become the same.
LEMMA RenamedPaths ==
  ASSUME CardOK, IsTree, NEW p \in Path, NEW to \in Path,
         p # Root, to \notin dirs \cup DOMAIN files, Parent(to) = Parent(p),
         NEW q \in dirs \cup DOMAIN files
  PROVE  /\ Moved(q, p, to) \in Path
         /\ Len(Moved(q, p, to)) = Len(q)
         /\ Moved(Moved(q, p, to), to, p) = q
         /\ \A n \in 0 .. Len(q) - 1 :
               SubSeq(Moved(q, p, to), 1, n) = Moved(SubSeq(q, 1, n), p, to)
<1>1. q \in Path /\ Len(q) \in Nat /\ Len(p) \in Nat
  BY LenProperties DEF CardOK, Path
<1>2. to # Root
  BY DEF IsTree
<1>3. Len(to) = Len(p) /\ \A i \in 1 .. Len(p) - 1 : to[i] = p[i]
  BY <1>2, Siblings
<1>4. CASE ~Under(p, q)
  <2>1. Moved(q, p, to) = q
    BY <1>4 DEF Moved
  <2>2. Moved(q, to, p) = q
    BY NothingUnder DEF Moved
  <2>3. \A n \in 0 .. Len(q) - 1 : ~Under(p, SubSeq(q, 1, n))
    <3> SUFFICES ASSUME NEW n \in 0 .. Len(q) - 1, Under(p, SubSeq(q, 1, n)) PROVE FALSE
      OBVIOUS
    <3> n \in 0 .. Len(q)
      BY <1>1
    <3> QED
      BY <1>1, <1>4, UnderPrefix
  <2> QED
    BY <1>1, <2>1, <2>2, <2>3 DEF Moved
<1>5. CASE Under(p, q)
  <2> DEFINE new == Moved(q, p, to)
  <2>1. /\ new \in Path /\ Len(new) = Len(q)
        /\ \A i \in 1 .. Len(q) : new[i] = IF i <= Len(p) THEN to[i] ELSE q[i]
    BY <1>1, <1>3, <1>5, MovedByName
  <2>2. Len(p) <= Len(q) /\ \A i \in 1 .. Len(p) : q[i] = p[i]
    BY <1>1, <1>5, UnderByName
  <2> HIDE DEF new
  <2>3. Moved(new, to, p) = q
    <3>1. Under(to, new)
      BY <1>1, <1>3, <2>1, <2>2, UnderByName
    <3>2. /\ Moved(new, to, p) \in Path /\ Len(Moved(new, to, p)) = Len(new)
          /\ \A i \in 1 .. Len(new) :
                Moved(new, to, p)[i] = IF i <= Len(to) THEN p[i] ELSE new[i]
      BY <1>3, <2>1, <3>1, MovedByName
    <3>3. \A i \in 1 .. Len(q) : Moved(new, to, p)[i] = q[i]
      BY <1>1, <1>3, <2>1, <2>2, <3>2
    <3> QED
      BY <1>1, <2>1, <3>2, <3>3, SeqEqual DEF Path
  <2>4. ASSUME NEW n \in 0 .. Len(q) - 1
        PROVE  SubSeq(new, 1, n) = Moved(SubSeq(q, 1, n), p, to)
    <3> DEFINE before == SubSeq(q, 1, n)
               after == SubSeq(new, 1, n)
    <3>0. n \in 0 .. Len(q) /\ n \in 0 .. Len(new)
      BY <1>1, <2>1
    <3>1. before \in Path /\ Len(before) = n /\ \A i \in 1 .. n : before[i] = q[i]
      BY <1>1, <3>0, Prefix
    <3>2. after \in Path /\ Len(after) = n /\ \A i \in 1 .. n : after[i] = new[i]
      BY <2>1, <3>0, Prefix
    <3>3. Under(p, before) <=> Len(p) <= n
      <4>1. Under(p, before) => Len(p) <= n
        BY <1>1, <3>0, UnderPrefix
      <4>2. Len(p) <= n => \A i \in 1 .. Len(p) : before[i] = p[i]
        BY <1>1, <2>2, <3>1
      <4> HIDE DEF before
      <4> QED
        BY <4>1, <4>2, <3>1, UnderByName
    <3> HIDE DEF before, after
    <3>4. CASE Len(p) <= n
      <4>1. /\ Moved(before, p, to) \in Path /\ Len(Moved(before, p, to)) = n
            /\ \A i \in 1 .. n :
                  Moved(before, p, to)[i] = IF i <= Len(p) THEN to[i] ELSE before[i]
        BY <1>3, <3>1, <3>3, <3>4, MovedByName
      <4>2. \A i \in 1 .. n : Moved(before, p, to)[i] = after[i]
        BY <1>1, <2>1, <3>1, <3>2, <4>1
      <4> QED
        BY <3>2, <4>1, <4>2, SeqEqual DEF Path, before, after
    <3>5. CASE n < Len(p)
      <4>1. Moved(before, p, to) = before
        BY <1>1, <3>3, <3>5 DEF Moved
      <4>2. \A i \in 1 .. n : before[i] = after[i]
        BY <1>1, <1>3, <2>1, <2>2, <3>1, <3>2, <3>5
      <4> QED
        BY <3>1, <3>2, <4>1, <4>2, SeqEqual DEF Path, before, after
    <3> QED
      BY <1>1, <3>4, <3>5
  <2> QED
    BY <2>1, <2>3, <2>4 DEF new
<1> QED
  BY <1>4, <1>5

-----------------------------------------------------------------------------
(* The pieces of an upload. *)

LEMMA NextWritten ==
  ASSUME NEW u \in Uploads, NEW n \in Nat
  PROVE  Append(Written(u, n), <<u, n + 1>>) = Written(u, n + 1)
<1> DEFINE P == Uploads \X Nat
           old == Written(u, n)
           new == Written(u, n + 1)
<1>1. old \in Seq(P) /\ Len(old) = n /\ \A i \in 1 .. n : old[i] = <<u, i>>
  BY DEF Written
<1>2. new \in Seq(P) /\ Len(new) = n + 1 /\ \A i \in 1 .. n + 1 : new[i] = <<u, i>>
  BY DEF Written
<1>3. <<u, n + 1>> \in P
  OBVIOUS
<1> HIDE DEF old, new, P
<1>4. /\ Append(old, <<u, n + 1>>) \in Seq(P)
      /\ Len(Append(old, <<u, n + 1>>)) = n + 1
      /\ \A i \in 1 .. n : Append(old, <<u, n + 1>>)[i] = old[i]
      /\ Append(old, <<u, n + 1>>)[n + 1] = <<u, n + 1>>
  BY <1>1, <1>3, AppendProperties
<1>5. ASSUME NEW i \in 1 .. n + 1 PROVE Append(old, <<u, n + 1>>)[i] = new[i]
  <2>1. CASE i = n + 1
    BY <1>2, <1>4, <2>1
  <2>2. CASE i # n + 1
    <3> i \in 1 .. n
      BY <2>2
    <3> QED
      BY <1>1, <1>2, <1>4
  <2> QED
    BY <2>1, <2>2
<1> QED
  BY <1>2, <1>4, <1>5, SeqEqual DEF old, new

LEMMA FirstWritten ==
  ASSUME NEW u \in Uploads PROVE Written(u, 1) = << <<u, 1>> >>
BY DEF Written

\* The content of a file after a piece: pieces that were sent, none of the
\* earlier ones changed.
LEMMA PieceAppended ==
  ASSUME NEW content \in Seq(Pieces), NEW c \in Pieces
  PROVE  /\ Append(content, c) \in Seq(Pieces) /\ Append(content, c) # <<>>
         /\ content # <<>> => Append(content, c)[1] = content[1]
<1>1. Len(content) \in Nat /\ (content # <<>> => Len(content) >= 1)
  BY LenProperties, EmptySeq
<1>2. /\ Append(content, c) \in Seq(Pieces)
      /\ Len(Append(content, c)) = Len(content) + 1
      /\ \A i \in 1 .. Len(content) : Append(content, c)[i] = content[i]
  BY AppendProperties
<1> DEFINE longer == Append(content, c)
<1>3. longer # <<>>
  <2> HIDE DEF longer
  <2> SUFFICES Len(longer) # 0
    BY EmptySeq
  <2> QED
    BY <1>1, <1>2 DEF longer
<1> QED
  BY <1>1, <1>2, <1>3

LEMMA SizeNat == \A u \in Uploads : Size[u] \in Nat
BY WebSDAssumption

\* The steps that leave the card and its records alone.
LEMMA SentOnly ==
  ASSUME WebIInv, NEW u \in Uploads,
         \/ sent' = [sent EXCEPT ![u] = 0] /\ sent[u] = Idle
         \/ sent' = [sent EXCEPT ![u] = Idle],
         UNCHANGED <<tree, uploadFile, folder, turn, kept>>
  PROVE  WebIInv'
<1>1. /\ dirs' = dirs /\ files' = files /\ mounted' = mounted
      /\ uploadFile' = uploadFile /\ folder' = folder /\ turn' = turn /\ kept' = kept
  BY DEF tree
<1>2. CardOK' /\ IsTree' /\ StoredStays' /\ BeginsAtFirst'
  BY <1>1, Zenon DEF WebIInv, CardOK, IsTree, StoredStays, BeginsAtFirst
<1>3. sent' \in [Uploads -> Int] /\ \A v \in Uploads : sent'[v] \in Idle .. Size[v]
  BY SizeNat DEF WebIInv, UploadOK, Idle
<1>4. UploadOK'
  BY <1>1, <1>3 DEF WebIInv, UploadOK
<1>5. ASSUME turn # NoUpload, sent'[turn] > 0 PROVE sent[turn] = sent'[turn]
  BY <1>1, <1>5 DEF WebIInv, UploadOK, Idle
<1>6. OpenFile'
  BY <1>1, <1>5 DEF WebIInv, OpenFile
<1> QED
  BY <1>2, <1>4, <1>6 DEF WebIInv

\* A step of the file system's alone that keeps the card a tree.
LEMMA FoldersOnly ==
  ASSUME WebIInv, dirs' \subseteq Path, IsTree',
         UNCHANGED <<files, mounted, uploadFile, folder, sent, turn, kept>>
  PROVE  WebIInv'
<1>1. CardOK' /\ UploadOK' /\ OpenFile' /\ StoredStays' /\ BeginsAtFirst'
  BY DEF WebIInv, CardOK, UploadOK, OpenFile, StoredStays, BeginsAtFirst
<1> QED
  BY <1>1 DEF WebIInv

\* The way to a path whose folder is there is there.
LEMMA WayThere ==
  ASSUME NEW d \in SUBSET Path, NEW p \in Path, p # Root, Parent(p) \in d,
         \A q \in d : \A n \in 0 .. Len(q) - 1 : SubSeq(q, 1, n) \in d
  PROVE  \A n \in 0 .. Len(p) - 1 : SubSeq(p, 1, n) \in d
<1> SUFFICES ASSUME NEW n \in 0 .. Len(p) - 1 PROVE SubSeq(p, 1, n) \in d
  OBVIOUS
<1>1. Len(p) \in Nat \ {0}
  BY LenProperties, EmptySeq DEF Path, Root
<1>2. Len(p) - 1 \in 0 .. Len(p) /\ n \in 0 .. Len(p) - 1
  BY <1>1
<1>3. Len(Parent(p)) = Len(p) - 1
  BY <1>2, Prefix DEF Parent
<1>4. SubSeq(Parent(p), 1, n) = SubSeq(p, 1, n)
  BY <1>2, PrefixOfPrefix DEF Parent
<1>5. CASE n = Len(p) - 1
  BY <1>5 DEF Parent
<1>6. CASE n < Len(p) - 1
  <2> n \in 0 .. Len(Parent(p)) - 1
    BY <1>1, <1>3, <1>6
  <2> QED
    BY <1>4
<1> QED
  BY <1>1, <1>5, <1>6

\* A folder that may be made keeps the card a tree.
LEMMA FolderAdded ==
  ASSUME CardOK, IsTree, NEW p \in Path, Writable(p, dirs), ~Exists(p)
  PROVE  /\ dirs \cup {p} \subseteq Path
         /\ (dirs \cup {p}) \cap DOMAIN files = {}
         /\ \A q \in dirs \cup {p} \cup DOMAIN files :
               \A n \in 0 .. Len(q) - 1 : SubSeq(q, 1, n) \in dirs \cup {p}
<1>1. p # Root /\ Parent(p) \in dirs /\ p \notin dirs \cup DOMAIN files
  BY DEF Writable, Exists
<1>2. \A n \in 0 .. Len(p) - 1 : SubSeq(p, 1, n) \in dirs
  BY <1>1, WayThere DEF CardOK, IsTree
<1> QED
  BY <1>1, <1>2 DEF CardOK, IsTree

LEMMA CreateFolderIInv ==
  ASSUME WebIInv, NEW p \in Path, CreateFolder(p) PROVE WebIInv'
<1>1. dirs' = dirs \cup {p} /\ files' = files /\ Writable(p, dirs) /\ ~Exists(p)
  BY DEF CreateFolder
<1>2. dirs' \subseteq Path /\ IsTree'
  BY <1>1, FolderAdded DEF WebIInv, IsTree
<1> QED
  BY <1>2, FoldersOnly DEF CreateFolder

LEMMA DeleteFolderIInv ==
  ASSUME WebIInv, NEW p \in Path, DeleteFolder(p) PROVE WebIInv'
<1>1. dirs' = dirs \ {p} /\ files' = files /\ p # Root /\ EmptyFolder(p)
  BY DEF DeleteFolder
<1>2. ASSUME NEW q \in (dirs \ {p}) \cup DOMAIN files, NEW n \in 0 .. Len(q) - 1
      PROVE  SubSeq(q, 1, n) # p
  <2> SUFFICES ASSUME SubSeq(q, 1, n) = p PROVE FALSE
    OBVIOUS
  <2>1. q \in Path /\ Len(q) \in Nat
    BY LenProperties DEF WebIInv, CardOK, Path
  <2>2. Len(p) = n /\ Len(q) > n
    <3> n \in 0 .. Len(q)
      BY <2>1
    <3> QED
      BY <2>1, Prefix
  <2>3. q # p /\ Under(p, q)
    BY <2>1, <2>2 DEF Under
  <2> QED
    BY <1>1, <2>3 DEF EmptyFolder
<1>3. dirs' \subseteq Path /\ IsTree'
  BY <1>1, <1>2 DEF WebIInv, CardOK, IsTree
<1> QED
  BY <1>3, FoldersOnly DEF DeleteFolder

-----------------------------------------------------------------------------
(* The pieces. *)

\* The folder that the first piece of u names, or makes.
LEMMA FolderOfPath ==
  ASSUME WebIInv, NEW u \in Uploads
  PROVE  /\ FolderOf(u) \in Path
         /\ FolderOf(u) \o FileName[u] \in Path
         /\ Root \in FoldersAfter(u) /\ FoldersAfter(u) \subseteq Path
         /\ dirs \subseteq FoldersAfter(u)
         /\ FoldersAfter(u) \cap DOMAIN files = {}
         /\ \A q \in FoldersAfter(u) \cup DOMAIN files :
               \A n \in 0 .. Len(q) - 1 : SubSeq(q, 1, n) \in FoldersAfter(u)
<1>1. FolderOf(u) \in Path
  BY WebSDAssumption DEF FolderOf, Path, WebIInv, UploadOK
<1>2. FolderOf(u) \o FileName[u] \in Path
  <2> FileName[u] \in Seq(STRING)
    BY WebSDAssumption
  <2> QED
    BY <1>1, ConcatProperties DEF Path
<1>3. CASE Folder[u] # NoFolder /\ ~Exists(Folder[u]) /\ Writable(Folder[u], dirs)
  <2>1. Folder[u] \in Path /\ FoldersAfter(u) = dirs \cup {Folder[u]}
    BY <1>3, WebSDAssumption DEF Path, FoldersAfter
  <2> QED
    BY <1>1, <1>2, <1>3, <2>1, FolderAdded DEF WebIInv, IsTree
<1>4. CASE ~(Folder[u] # NoFolder /\ ~Exists(Folder[u]) /\ Writable(Folder[u], dirs))
  <2>1. FoldersAfter(u) = dirs
    BY <1>4 DEF FoldersAfter
  <2> QED
    BY <1>1, <1>2, <2>1 DEF WebIInv, IsTree, CardOK
<1> QED
  BY <1>3, <1>4

\* The first piece of a file that cannot be made, because its folder is not
\* there: whatever was open is closed.
LEMMA UnopenedIInv ==
  ASSUME WebIInv, NEW u \in Uploads, FirstPiece(u),
         ~Writable(FolderOf(u) \o FileName[u], FoldersAfter(u))
  PROVE  WebIInv'
<1>1. /\ sent[u] = 0 /\ sent[u] < Size[u] /\ sent' = [sent EXCEPT ![u] = @ + 1]
      /\ folder' = FolderOf(u) /\ dirs' = FoldersAfter(u) /\ files' = files
      /\ uploadFile' = NoFile /\ turn' = NoUpload /\ kept' = kept /\ mounted' = mounted
  BY DEF FirstPiece, Opens
<1>2. sent' \in [Uploads -> Int] /\ \A v \in Uploads : sent'[v] \in Idle .. Size[v]
  BY <1>1, SizeNat DEF WebIInv, UploadOK, Idle
<1>3. CardOK' /\ IsTree'
  BY <1>1, FolderOfPath DEF WebIInv, CardOK, IsTree
<1>4. UploadOK' /\ OpenFile'
  BY <1>1, <1>2, FolderOfPath DEF WebIInv, UploadOK, OpenFile
<1>5. StoredStays' /\ BeginsAtFirst'
  BY <1>1 DEF WebIInv, StoredStays, BeginsAtFirst
<1> QED
  BY <1>3, <1>4, <1>5 DEF WebIInv

LEMMA OpenedIInv ==
  ASSUME WebIInv, NEW u \in Uploads, FirstPiece(u),
         Writable(FolderOf(u) \o FileName[u], FoldersAfter(u))
  PROVE  WebIInv'
<1> DEFINE p == FolderOf(u) \o FileName[u]
<1>1. /\ sent[u] = 0 /\ sent[u] < Size[u] /\ sent' = [sent EXCEPT ![u] = @ + 1]
      /\ folder' = FolderOf(u) /\ dirs' = FoldersAfter(u)
      /\ files' = With(files, p, <<Piece(u)>>)
      /\ uploadFile' = FileAfter(u, p)
      /\ turn' = u /\ mounted' = mounted
      /\ kept' = KeptBut(p) \cup (IF Closes(u) THEN {<<p, u>>} ELSE {})
  BY DEF FirstPiece, Opens
<1>2. /\ p \in Path /\ p # Root /\ p \notin FoldersAfter(u) /\ Parent(p) \in FoldersAfter(u)
  BY FolderOfPath DEF Writable
<1>3. Under(p, p)
  <2> Len(p) \in Nat
    BY <1>2, LenProperties DEF Path
  <2> QED
    BY <1>2, UnderByName
<1> HIDE DEF p
<1>4. Piece(u) = <<u, 1>> /\ Piece(u) \in Pieces /\ u # NoUpload
  BY <1>1, SizeNat, WebSDAssumption DEF Piece, Pieces
<1>5. /\ DOMAIN files' = DOMAIN files \cup {p}
      /\ files'[p] = << <<u, 1>> >> /\ files'[p] = Written(u, 1)
      /\ files'[p] \in Seq(Pieces) /\ files'[p] # <<>>
      /\ \A q \in DOMAIN files : q # p => files'[q] = files[q]
  BY <1>1, <1>4, FirstWritten DEF With
<1>6. sent' \in [Uploads -> Int] /\ sent'[u] = 1
      /\ \A v \in Uploads : sent'[v] \in Idle .. Size[v]
  BY <1>1, SizeNat DEF WebIInv, UploadOK, Idle
<1>7. CardOK'
  <2>1. \A q \in DOMAIN files' : files'[q] \in Seq(Pieces)
    BY <1>5 DEF WebIInv, CardOK
  <2>2. mounted' \in BOOLEAN
    BY <1>1, Zenon DEF WebIInv, CardOK
  <2> QED
    BY <1>1, <1>2, <1>5, <2>1, <2>2, FolderOfPath DEF WebIInv, CardOK
<1>8. IsTree'
  <2>1. \A n \in 0 .. Len(p) - 1 : SubSeq(p, 1, n) \in FoldersAfter(u)
    BY <1>2, FolderOfPath, WayThere
  <2> QED
    BY <1>1, <1>2, <1>5, <2>1, FolderOfPath DEF IsTree
<1>9. /\ kept' \subseteq Path \X Uploads
      /\ \A k \in kept' : k[1] \in DOMAIN files' /\ files'[k[1]] = Whole(k[2])
      /\ ~Closes(u) => \A k \in kept' : k[1] # p
  <2>1. \A k \in KeptBut(p) : k \in kept /\ k[1] # p
    BY <1>3 DEF KeptBut
  <2>2. \A k \in KeptBut(p) : k[1] \in DOMAIN files' /\ files'[k[1]] = Whole(k[2])
    BY <1>5, <2>1 DEF WebIInv, StoredStays
  <2>3. Closes(u) => files'[p] = Whole(u)
    BY <1>1, <1>5 DEF Closes, Whole, Written
  <2> QED
    BY <1>1, <1>2, <1>5, <2>1, <2>2, <2>3 DEF WebIInv, UploadOK
<1>10. UploadOK'
  BY <1>1, <1>5, <1>6, <1>9, FolderOfPath DEF UploadOK, FileAfter
<1>11. OpenFile'
  BY <1>1, <1>5, <1>6, <1>9 DEF OpenFile, FileAfter
<1>12. StoredStays'
  BY <1>9 DEF StoredStays
<1>13. BeginsAtFirst'
  BY <1>5 DEF WebIInv, BeginsAtFirst
<1> QED
  BY <1>7, <1>8, <1>10, <1>11, <1>12, <1>13 DEF WebIInv

LEMMA FirstPieceIInv ==
  ASSUME WebIInv, NEW u \in Uploads, FirstPiece(u) PROVE WebIInv'
BY UnopenedIInv, OpenedIInv

\* A piece that finds no open file.
LEMMA LostPieceIInv ==
  ASSUME WebIInv, NEW u \in Uploads, LaterPiece(u), uploadFile = NoFile
  PROVE  WebIInv'
<1>1. /\ sent[u] > 0 /\ sent[u] < Size[u] /\ sent' = [sent EXCEPT ![u] = @ + 1]
      /\ folder' = folder /\ dirs' = dirs /\ files' = files /\ mounted' = mounted
      /\ uploadFile' = NoFile /\ turn' \in {turn, NoUpload} /\ kept' = kept
  BY DEF LaterPiece, FileAfter
<1>2. sent' \in [Uploads -> Int] /\ \A v \in Uploads : sent'[v] \in Idle .. Size[v]
  BY <1>1, SizeNat DEF WebIInv, UploadOK, Idle
<1>3. CardOK' /\ IsTree' /\ StoredStays' /\ BeginsAtFirst'
  BY <1>1 DEF WebIInv, CardOK, IsTree, StoredStays, BeginsAtFirst
<1>4. UploadOK' /\ OpenFile'
  BY <1>1, <1>2 DEF WebIInv, UploadOK, OpenFile
<1> QED
  BY <1>3, <1>4 DEF WebIInv

\* A piece that goes into the open file, whosesoever that is.
LEMMA WrittenPieceIInv ==
  ASSUME WebIInv, NEW u \in Uploads, LaterPiece(u), uploadFile # NoFile
  PROVE  WebIInv'
<1> DEFINE f == uploadFile
           longer == Append(files[f], Piece(u))
<1>1. /\ sent[u] > 0 /\ sent[u] < Size[u] /\ sent' = [sent EXCEPT ![u] = @ + 1]
      /\ folder' = folder /\ dirs' = dirs /\ mounted' = mounted
      /\ files' = [files EXCEPT ![f] = longer]
      /\ uploadFile' = (IF Closes(u) THEN NoFile ELSE f)
      /\ turn' = (IF turn = u THEN u ELSE NoUpload)
      /\ kept' = (IF Closes(u) /\ turn = u THEN kept \cup {<<f, u>>} ELSE kept)
  BY DEF LaterPiece, FileAfter
<1>2. /\ f \in DOMAIN files /\ f \in Path /\ files[f] \in Seq(Pieces) /\ files[f] # <<>>
      /\ \A k \in kept : k[1] # f
      /\ sent \in [Uploads -> Int] /\ u # NoUpload
      /\ turn # NoUpload /\ sent[turn] > 0 => files[f] = Written(turn, sent[turn])
  BY WebSDAssumption DEF WebIInv, CardOK, UploadOK, OpenFile
<1>3. Piece(u) \in Pieces /\ sent[u] \in Nat /\ Piece(u) = <<u, sent[u] + 1>>
  BY <1>1, <1>2, SizeNat DEF Piece, Pieces
<1>4. longer \in Seq(Pieces) /\ longer # <<>> /\ longer[1] = files[f][1]
  BY <1>2, <1>3, PieceAppended
<1>5. turn = u => longer = Written(u, sent[u] + 1)
  BY <1>1, <1>2, <1>3, NextWritten
<1> HIDE DEF f, longer
<1>6. /\ DOMAIN files' = DOMAIN files /\ files'[f] = longer
      /\ \A q \in DOMAIN files : q # f => files'[q] = files[q]
  BY <1>1, <1>2
<1>7. sent' \in [Uploads -> Int] /\ sent'[u] = sent[u] + 1
      /\ \A v \in Uploads : sent'[v] \in Idle .. Size[v]
  BY <1>1, SizeNat DEF WebIInv, UploadOK, Idle
<1>8. CardOK'
  BY <1>1, <1>4, <1>6 DEF WebIInv, CardOK
<1>9. IsTree'
  BY <1>1, <1>6 DEF WebIInv, IsTree
<1>10. UploadOK'
  BY <1>1, <1>2, <1>6, <1>7 DEF WebIInv, UploadOK
<1>11. OpenFile'
  BY <1>1, <1>2, <1>4, <1>5, <1>6, <1>7 DEF OpenFile
<1>12. StoredStays'
  <2>1. \A k \in kept : k[1] \in DOMAIN files' /\ files'[k[1]] = Whole(k[2])
    BY <1>2, <1>6 DEF WebIInv, StoredStays
  <2>2. Closes(u) /\ turn = u => files'[f] = Whole(u)
    BY <1>5, <1>6 DEF Closes, Whole, Written
  <2> QED
    BY <1>1, <1>2, <1>6, <2>1, <2>2 DEF StoredStays
<1>13. BeginsAtFirst'
  BY <1>2, <1>4, <1>6 DEF WebIInv, BeginsAtFirst
<1> QED
  BY <1>8, <1>9, <1>10, <1>11, <1>12, <1>13 DEF WebIInv

LEMMA LaterPieceIInv ==
  ASSUME WebIInv, NEW u \in Uploads, LaterPiece(u) PROVE WebIInv'
BY LostPieceIInv, WrittenPieceIInv

-----------------------------------------------------------------------------
(* The other requests. *)

LEMMA DeleteFileIInv ==
  ASSUME WebIInv, NEW p \in Path, DeleteFile(p) PROVE WebIInv'
<1>1. /\ files' = Without(files, {p}) /\ kept' = KeptBut(p)
      /\ uploadFile' = (IF uploadFile = p THEN NoFile ELSE uploadFile)
      /\ turn' = (IF uploadFile = p THEN NoUpload ELSE turn)
      /\ dirs' = dirs /\ mounted' = mounted /\ folder' = folder /\ sent' = sent
  BY DEF DeleteFile, LeaveFile
<1>2. /\ DOMAIN files' = DOMAIN files \ {p}
      /\ \A q \in DOMAIN files' : files'[q] = files[q]
  BY <1>1 DEF Without
<1>3. \A k \in kept' : k \in kept /\ k[1] # p
  <2> Len(p) \in Nat
    BY LenProperties DEF Path
  <2> Under(p, p)
    BY UnderByName
  <2> QED
    BY <1>1 DEF KeptBut
<1>4. CardOK' /\ IsTree'
  BY <1>1, <1>2 DEF WebIInv, CardOK, IsTree
<1>5. UploadOK' /\ OpenFile'
  BY <1>1, <1>2, <1>3 DEF WebIInv, UploadOK, OpenFile
<1>6. StoredStays' /\ BeginsAtFirst'
  BY <1>2, <1>3 DEF WebIInv, StoredStays, BeginsAtFirst
<1> QED
  BY <1>4, <1>5, <1>6 DEF WebIInv

\* A rename moves the whole folder, with the file that is open in it; it
\* leaves every content, and whatever lies elsewhere, as it was.
LEMMA RenameIInv ==
  ASSUME WebIInv, NEW p \in Path, NEW to \in Path, Rename(p, to) PROVE WebIInv'
<1> DEFINE M(q) == Moved(q, p, to)
           T == dirs \cup DOMAIN files
<1>1. /\ p \in T /\ p # Root /\ Parent(to) = Parent(p) /\ to \notin T
      /\ dirs' = {M(q) : q \in dirs}
      /\ files' = [q \in {M(r) : r \in DOMAIN files} |-> files[Moved(q, to, p)]]
      /\ kept' = {<<M(k[1]), k[2]>> : k \in kept}
      /\ IF p \in DOMAIN files \/ uploadFile = NoFile THEN LeaveFile(p)
         ELSE uploadFile' = M(uploadFile) /\ turn' = turn
      /\ mounted' = mounted /\ folder' = folder /\ sent' = sent
  BY DEF Rename, Exists
<1>2. \A q \in T : /\ M(q) \in Path /\ Len(M(q)) = Len(q) /\ Moved(M(q), to, p) = q
                   /\ \A n \in 0 .. Len(q) - 1 : SubSeq(M(q), 1, n) = M(SubSeq(q, 1, n))
  BY <1>1, RenamedPaths DEF WebIInv
<1>3. ~Under(p, Root)
  <2> Len(p) \in Nat \ {0} /\ Root \in Path /\ Len(Root) = 0
    BY <1>1, LenProperties, EmptySeq DEF Path, Root
  <2> QED
    BY UnderByName
<1>4. M(Root) = Root
  BY <1>3 DEF Moved
<1>5. p \in DOMAIN files => \A q \in T : q # p => M(q) = q
  <2> SUFFICES ASSUME p \in DOMAIN files, NEW q \in T, q # p, Under(p, q) PROVE FALSE
    BY DEF Moved
  <2>1. q \in Path /\ Len(p) \in Nat /\ Len(q) \in Nat /\ SubSeq(q, 1, Len(p)) = p
    BY LenProperties DEF WebIInv, CardOK, Path, Under
  <2>2. Len(p) <= Len(q) /\ (Len(p) = Len(q) => p = q)
    BY <2>1, SubSeqFull DEF Under, Path
  <2>3. Len(p) \in 0 .. Len(q) - 1
    BY <2>1, <2>2
  <2> QED
    BY <2>1, <2>3 DEF WebIInv, IsTree
<1> HIDE DEF M
<1>6. /\ DOMAIN files' = {M(r) : r \in DOMAIN files}
      /\ \A r \in DOMAIN files : files'[M(r)] = files[r]
  BY <1>1, <1>2
<1>7. \A r, q \in T : M(r) = M(q) => r = q
  BY <1>2
<1>8. CardOK'
  BY <1>1, <1>2, <1>6 DEF WebIInv, CardOK
<1>9. IsTree'
  <2>1. Root \in dirs'
    BY <1>1, <1>4 DEF WebIInv, IsTree
  <2>2. dirs' \cap DOMAIN files' = {}
    BY <1>1, <1>6, <1>7 DEF WebIInv, IsTree
  <2>3. ASSUME NEW q \in dirs' \cup DOMAIN files', NEW n \in 0 .. Len(q) - 1
        PROVE  SubSeq(q, 1, n) \in dirs'
    <3>1. PICK r \in T : q = M(r)
      BY <1>1, <1>6
    <3>2. n \in 0 .. Len(r) - 1
      BY <1>2, <3>1
    <3>3. SubSeq(r, 1, n) \in dirs
      BY <3>2 DEF WebIInv, IsTree
    <3>4. SubSeq(q, 1, n) = M(SubSeq(r, 1, n))
      BY <1>2, <3>1, <3>2
    <3>5. M(SubSeq(r, 1, n)) \in dirs'
      BY <1>1, <3>3
    <3> QED
      BY <3>4, <3>5
  <2> QED
    BY <2>1, <2>2, <2>3 DEF IsTree
<1>10. /\ kept' \subseteq Path \X Uploads
       /\ \A k \in kept' : k[1] \in DOMAIN files' /\ files'[k[1]] = Whole(k[2])
  BY <1>1, <1>2, <1>6 DEF WebIInv, UploadOK, StoredStays
<1>11. StoredStays'
  BY <1>10 DEF StoredStays
<1>12. BeginsAtFirst'
  BY <1>6 DEF WebIInv, BeginsAtFirst
<1>13. \/ uploadFile' = NoFile /\ turn' \in {turn, NoUpload}
       \/ uploadFile # NoFile /\ uploadFile' = M(uploadFile) /\ turn' = turn
  <2>1. CASE p \in DOMAIN files \/ uploadFile = NoFile
    <3>1. /\ uploadFile' = (IF uploadFile = p THEN NoFile ELSE uploadFile)
          /\ turn' = (IF uploadFile = p THEN NoUpload ELSE turn)
      BY <1>1, <2>1 DEF LeaveFile
    <3>2. CASE uploadFile \in {p, NoFile}
      BY <3>1, <3>2
    <3>3. CASE uploadFile \notin {p, NoFile}
      <4>1. M(uploadFile) = uploadFile
        BY <1>5, <2>1, <3>3 DEF WebIInv, UploadOK
      <4> QED
        BY <3>1, <3>3, <4>1
    <3> QED
      BY <3>2, <3>3
  <2>2. CASE ~(p \in DOMAIN files \/ uploadFile = NoFile)
    BY <1>1, <2>2
  <2> QED
    BY <2>1, <2>2
<1>14. UploadOK'
  BY <1>1, <1>6, <1>10, <1>13 DEF WebIInv, UploadOK
<1>15. OpenFile'
  <2> SUFFICES ASSUME uploadFile' # NoFile
               PROVE  /\ files'[uploadFile'] # <<>>
                      /\ \A k \in kept' : k[1] # uploadFile'
                      /\ turn' # NoUpload /\ sent'[turn'] > 0
                            => files'[uploadFile'] = Written(turn', sent'[turn'])
    BY DEF OpenFile
  <2>1. /\ uploadFile # NoFile /\ uploadFile' = M(uploadFile) /\ turn' = turn
        /\ uploadFile \in DOMAIN files /\ files'[uploadFile'] = files[uploadFile]
    BY <1>6, <1>13 DEF WebIInv, UploadOK
  <2>2. \A k \in kept : k[1] \in DOMAIN files /\ k[1] # uploadFile
    BY <2>1 DEF WebIInv, OpenFile, StoredStays
  <2>3. \A k \in kept' : k[1] # uploadFile'
    BY <1>1, <1>7, <2>1, <2>2
  <2> QED
    BY <1>1, <2>1, <2>3 DEF WebIInv, OpenFile
<1> QED
  BY <1>8, <1>9, <1>11, <1>12, <1>14, <1>15 DEF WebIInv

LEMMA MountIInv == WebIInv /\ (RemoveSD \/ Mount) => WebIInv'
<1> SUFFICES ASSUME WebIInv, RemoveSD \/ Mount PROVE WebIInv'
  OBVIOUS
<1>1. /\ dirs' = dirs /\ files' = files /\ folder' = folder /\ sent' = sent /\ kept' = kept
      /\ mounted' \in BOOLEAN
      /\ \/ uploadFile' = NoFile /\ turn' = NoUpload
         \/ uploadFile' = uploadFile /\ turn' = turn
  BY DEF RemoveSD, Mount
<1>2. CardOK' /\ IsTree' /\ StoredStays' /\ BeginsAtFirst'
  BY <1>1 DEF WebIInv, CardOK, IsTree, StoredStays, BeginsAtFirst
<1>3. UploadOK' /\ OpenFile'
  BY <1>1 DEF WebIInv, UploadOK, OpenFile
<1> QED
  BY <1>2, <1>3 DEF WebIInv

LEMMA RebootIInv == WebIInv /\ Reboot => WebIInv'
<1> SUFFICES ASSUME WebIInv, Reboot PROVE WebIInv'
  OBVIOUS
<1>1. /\ files' = (IF uploadFile # NoFile THEN [files EXCEPT ![uploadFile] = <<>>] ELSE files)
      /\ mounted' = TRUE /\ uploadFile' = NoFile /\ folder' = Root /\ turn' = NoUpload
      /\ sent' = [u \in Uploads |-> Idle] /\ dirs' = dirs /\ kept' = kept
  BY DEF Reboot
<1>2. /\ DOMAIN files' = DOMAIN files
      /\ \A q \in DOMAIN files : files'[q] = IF q = uploadFile THEN <<>> ELSE files[q]
  BY <1>1, WebSDAssumption DEF WebIInv, UploadOK, CardOK, Path
<1>3. <<>> \in Seq(Pieces) /\ Root \in Path
  BY EmptySeq DEF Root, Path
<1>4. CardOK' /\ IsTree' /\ BeginsAtFirst'
  BY <1>1, <1>2, <1>3 DEF WebIInv, CardOK, IsTree, BeginsAtFirst
<1>5. UploadOK' /\ OpenFile'
  BY <1>1, <1>3, SizeNat DEF WebIInv, UploadOK, OpenFile, Idle
<1>6. StoredStays'
  BY <1>1, <1>2 DEF WebIInv, OpenFile, UploadOK, StoredStays
<1> QED
  BY <1>4, <1>5, <1>6 DEF WebIInv

-----------------------------------------------------------------------------
LEMMA InitWebIInv == WebInit => WebIInv
<1> SUFFICES ASSUME WebInit PROVE WebIInv
  OBVIOUS
<1>1. Root \in Path /\ Len(Root) = 0 /\ DOMAIN files = {}
  BY EmptySeq DEF Root, Path, WebInit
<1>2. CardOK
  BY <1>1, Zenon DEF WebInit, CardOK
<1>3. UploadOK
  BY <1>1, SizeNat DEF WebInit, UploadOK, Idle
<1>4. IsTree /\ OpenFile /\ StoredStays /\ BeginsAtFirst
  BY <1>1 DEF WebInit, IsTree, OpenFile, StoredStays, BeginsAtFirst
<1> QED
  BY <1>2, <1>3, <1>4 DEF WebIInv

LEMMA NextWebIInv == WebIInv /\ [WebNext]_webVars => WebIInv'
<1> SUFFICES ASSUME WebIInv, [WebNext]_webVars PROVE WebIInv'
  OBVIOUS
<1>1. ASSUME NEW u \in Uploads, Upload(u) PROVE WebIInv'
  <2>1. CASE Request(u)
    BY <2>1, SentOnly DEF Request
  <2>2. CASE Answer(u)
    BY <2>2, SentOnly DEF Answer
  <2> QED
    BY <1>1, <2>1, <2>2, FirstPieceIInv, LaterPieceIInv DEF Upload
<1>2. ASSUME NEW u \in Uploads, Abort(u) PROVE WebIInv'
  BY <1>2, SentOnly DEF Abort
<1>3. CASE FileAction
  <2>1. Paths \subseteq Path /\ Renames \subseteq Path \X Path
    BY WebSDAssumption DEF Path
  <2>2. ASSUME NEW r \in Renames, Rename(r[1], r[2]) PROVE WebIInv'
    <3> r[1] \in Path /\ r[2] \in Path
      BY <2>1
    <3> QED
      BY <2>2, RenameIInv
  <2> QED
    BY <1>3, <2>1, <2>2, CreateFolderIInv, DeleteFolderIInv, DeleteFileIInv DEF FileAction
<1>4. CASE RemoveSD \/ Mount
  BY <1>4, MountIInv
<1>5. CASE Reboot
  BY <1>5, RebootIInv
<1>6. CASE UNCHANGED webVars
  BY <1>6 DEF webVars, tree, WebIInv, CardOK, UploadOK, IsTree, OpenFile, StoredStays,
              BeginsAtFirst
<1> QED
  BY <1>1, <1>2, <1>3, <1>4, <1>5, <1>6 DEF WebNext

\* For every set of clients, files and requests.
THEOREM WebInvariant == WebSpec => []WebIInv
<1>1. WebInit => WebIInv
  BY InitWebIInv
<1>2. WebIInv /\ [WebNext]_webVars => WebIInv'
  BY NextWebIInv
<1> QED
  BY <1>1, <1>2, PTL DEF WebSpec

LEMMA WebTypeOKFollows == WebIInv => WebTypeOK
<1> SUFFICES ASSUME WebIInv PROVE WebTypeOK
  OBVIOUS
<1>1. ASSUME NEW p \in (dirs \cup DOMAIN files) \ {Root} PROVE Parent(p) \in dirs
  <2>1. p \in Path /\ Len(p) \in Nat \ {0}
    BY LenProperties, EmptySeq DEF WebIInv, CardOK, Path, Root
  <2>2. Len(p) - 1 \in 0 .. Len(p) - 1
    BY <2>1
  <2> QED
    BY <2>2 DEF WebIInv, IsTree, Parent
<1>2. ASSUME NEW p \in DOMAIN files, NEW i \in DOMAIN files[p]
      PROVE  /\ files[p][i][1] \in Uploads
             /\ files[p][i][2] \in 1 .. Size[files[p][i][1]]
  <2>1. files[p] \in Seq(Pieces)
    BY DEF WebIInv, CardOK
  <2>2. files[p][i] \in Pieces
    BY <2>1, LenProperties, ElementOfSeq
  <2> QED
    BY <2>2 DEF Pieces
<1>3. mounted \in BOOLEAN
  BY Zenon DEF WebIInv, CardOK
<1> QED
  BY <1>1, <1>2, <1>3 DEF WebIInv, IsTree, UploadOK, WebTypeOK

\* The type invariant: whatever clients send, create, rename and delete, the
\* card stays a tree and a file holds pieces that were sent.
THEOREM WebTyped == WebSpec => []WebTypeOK
BY WebInvariant, WebTypeOKFollows, PTL

\* An upload whose pieces met no others stays on the card, whole.
THEOREM WebStoredStays == WebSpec => []StoredStays
<1> WebIInv => StoredStays
  BY DEF WebIInv
<1> QED
  BY WebInvariant, PTL

\* Pieces never go into a file that was there before.
THEOREM WebBeginsAtFirst == WebSpec => []BeginsAtFirst
<1> WebIInv => BeginsAtFirst
  BY DEF WebIInv
<1> QED
  BY WebInvariant, PTL

-----------------------------------------------------------------------------
(* Files that are sent one after the other.                                *)
(*                                                                         *)
(* AnsweredStored is violated (WebSDPage): the page sends all its files at *)
(* once.  It holds while one file is on its way at a time, with lost       *)
(* connections and reboots between them, of files without a folder that    *)
(* are not empty, as long as nobody changes the card in other ways.        *)

OneAtATime == \A u, v \in Uploads : sent[u] # Idle /\ sent[v] # Idle => u = v
Undisturbed == ~FileAction /\ ~RemoveSD

\* A client that sends its next file when the last one is answered does so.
LEMMA OneByOne ==
  ASSUME MaxConcurrent = 1
  PROVE  WebSpec => []OneAtATime
<1>1. WebInit => OneAtATime
  BY DEF WebInit, OneAtATime
<1>2. WebIInv /\ OneAtATime /\ [WebNext]_webVars => OneAtATime'
  <2> SUFFICES ASSUME WebIInv, OneAtATime, [WebNext]_webVars PROVE OneAtATime'
    OBVIOUS
  <2>0. sent \in [Uploads -> Int]
    BY DEF WebIInv, UploadOK
  <2>1. ASSUME \A u \in Uploads : sent'[u] # Idle => sent[u] # Idle PROVE OneAtATime'
    BY <2>1 DEF OneAtATime
  <2>2. ASSUME NEW u \in Uploads, Request(u) PROVE OneAtATime'
    <3> DEFINE under == {v \in Uploads : sent[v] # Idle}
    <3>1. Cardinality(under) < 1 /\ sent' = [sent EXCEPT ![u] = 0]
      BY <2>2 DEF Request
    <3>2. under = {}
      <4> SUFFICES ASSUME NEW v \in under PROVE FALSE
        OBVIOUS
      <4>1. under = {v}
        BY DEF OneAtATime
      <4>2. Cardinality(under) = 1
        BY <4>1, FS_Singleton
      <4> QED
        BY <3>1, <4>2
    <3>3. \A v \in Uploads : sent'[v] # Idle => v = u
      BY <2>0, <3>1, <3>2
    <3> QED
      BY <3>3 DEF OneAtATime
  <2>3. ASSUME NEW u \in Uploads, sent[u] # Idle, \A v \in Uploads \ {u} : sent'[v] = sent[v]
        PROVE  OneAtATime'
    BY <2>1, <2>3
  <2>4. ASSUME NEW u \in Uploads, FirstPiece(u) \/ LaterPiece(u) \/ Answer(u) \/ Abort(u)
        PROVE  OneAtATime'
    <3>1. sent[u] # Idle
      BY <2>4, SizeNat DEF FirstPiece, Opens, LaterPiece, Answer, Abort, Idle
    <3>2. \A v \in Uploads \ {u} : sent'[v] = sent[v]
      BY <2>0, <2>4 DEF FirstPiece, LaterPiece, Answer, Abort
    <3> QED
      BY <2>3, <3>1, <3>2
  <2>5. CASE FileAction \/ RemoveSD \/ Mount
    <3>1. UNCHANGED sent
      BY <2>5 DEF FileAction, CreateFolder, DeleteFolder, DeleteFile, Rename, RemoveSD, Mount
    <3> QED
      BY <2>1, <3>1
  <2>6. CASE Reboot
    BY <2>1, <2>6 DEF Reboot
  <2>7. CASE UNCHANGED webVars
    BY <2>1, <2>7 DEF webVars
  <2> QED
    BY <2>2, <2>4, <2>5, <2>6, <2>7 DEF WebNext, Upload
<1> QED
  BY <1>1, <1>2, WebInvariant, PTL DEF WebSpec

\* The file of an upload that has begun holds what was sent, and is open as
\* long as a piece is missing.
Arrived(u) ==
    /\ FileName[u] \in DOMAIN files
    /\ files[FileName[u]] = Written(u, sent[u])
    /\ sent[u] < Size[u] => uploadFile = FileName[u]

PageOK ==
    /\ mounted /\ dirs = {Root} /\ folder = Root
    /\ \A u \in Uploads : sent[u] > 0 => Arrived(u)

PlainFiles == \A u \in Uploads : Folder[u] = NoFolder /\ Len(FileName[u]) = 1 /\ Size[u] # 0

\* A plain file lies in the root.
LEMMA PlainFile ==
  ASSUME PlainFiles, PageOK, NEW u \in Uploads
  PROVE  /\ FileName[u] \in Path /\ FileName[u] # NoFile
         /\ FolderOf(u) = Root /\ FoldersAfter(u) = dirs
         /\ FolderOf(u) \o FileName[u] = FileName[u]
         /\ Writable(FileName[u], dirs)
<1>1. FileName[u] \in Path /\ FileName[u] # NoFile /\ Len(FileName[u]) = 1
  BY WebSDAssumption DEF PlainFiles, Path
<1>2. Folder[u] = NoFolder /\ folder = Root /\ dirs = {Root} /\ mounted
  BY DEF PlainFiles, PageOK
<1>3. FolderOf(u) = Root /\ FoldersAfter(u) = dirs
  BY <1>2 DEF FolderOf, FoldersAfter
<1>4. Root \o FileName[u] = FileName[u]
  BY <1>1, ConcatEmptySeq DEF Path, Root
<1>5. Len(Root) = 0
  BY DEF Root
<1>6. Parent(FileName[u]) = Root
  <2>1. Parent(FileName[u]) = SubSeq(FileName[u], 1, 0)
    BY <1>1 DEF Parent
  <2> QED
    BY <2>1, SubSeqEmpty DEF Root
<1>7. Writable(FileName[u], dirs)
  BY <1>1, <1>2, <1>5, <1>6 DEF Writable
<1> QED
  BY <1>1, <1>3, <1>4, <1>7

\* The first piece makes the file anew, with itself for its content.
LEMMA FirstArrived ==
  ASSUME PlainFiles, WebIInv, PageOK, OneAtATime, NEW u \in Uploads, FirstPiece(u)
  PROVE  PageOK'
<1>1. /\ sent[u] = 0 /\ sent[u] < Size[u] /\ sent' = [sent EXCEPT ![u] = @ + 1]
      /\ folder' = Root /\ dirs' = dirs /\ mounted' = mounted
      /\ files' = With(files, FileName[u], <<Piece(u)>>)
      /\ uploadFile' = FileAfter(u, FileName[u])
  BY PlainFile DEF FirstPiece, Opens
<1>2. sent \in [Uploads -> Int] /\ \A v \in Uploads : sent[v] \in Idle .. Size[v]
  BY DEF WebIInv, UploadOK
<1>3. sent'[u] = 1 /\ \A v \in Uploads : v # u => sent'[v] = Idle
  <2>1. \A v \in Uploads : v # u => sent[v] = Idle
    BY <1>1 DEF OneAtATime, Idle
  <2> QED
    BY <1>1, <1>2, <2>1
<1>4. files'[FileName[u]] = Written(u, 1) /\ FileName[u] \in DOMAIN files'
  BY <1>1, FirstWritten DEF With, Piece
<1>5. sent'[u] < Size[u] => uploadFile' = FileName[u]
  BY <1>1, <1>3, SizeNat DEF FileAfter, Closes
<1>6. Arrived(u)'
  BY <1>3, <1>4, <1>5 DEF Arrived
<1> QED
  BY <1>1, <1>3, <1>6 DEF PageOK, Idle

\* A later piece goes to the end of its own file.
LEMMA LaterArrived ==
  ASSUME PlainFiles, WebIInv, PageOK, OneAtATime, NEW u \in Uploads, LaterPiece(u)
  PROVE  PageOK'
<1> DEFINE f == FileName[u]
<1>1. /\ sent[u] > 0 /\ sent[u] < Size[u] /\ f \in DOMAIN files
      /\ files[f] = Written(u, sent[u]) /\ uploadFile = f /\ f # NoFile
  BY PlainFile DEF LaterPiece, PageOK, Arrived
<1>2. /\ sent' = [sent EXCEPT ![u] = @ + 1]
      /\ folder' = folder /\ dirs' = dirs /\ mounted' = mounted
      /\ files' = [files EXCEPT ![f] = Append(files[f], Piece(u))]
      /\ uploadFile' = FileAfter(u, f)
  BY <1>1 DEF LaterPiece
<1> HIDE DEF f
<1>3. sent \in [Uploads -> Int] /\ \A v \in Uploads : sent[v] \in Idle .. Size[v]
  BY DEF WebIInv, UploadOK
<1>4. sent'[u] = sent[u] + 1 /\ \A v \in Uploads : v # u => sent'[v] = Idle
  <2>1. \A v \in Uploads : v # u => sent[v] = Idle
    BY <1>1 DEF OneAtATime, Idle
  <2> QED
    BY <1>2, <1>3, <2>1
<1>5. sent[u] \in Nat /\ Piece(u) = <<u, sent[u] + 1>>
  BY <1>1, <1>3 DEF Piece
<1>6. files'[f] = Written(u, sent[u] + 1) /\ f \in DOMAIN files'
  BY <1>1, <1>2, <1>5, NextWritten
<1>7. sent'[u] < Size[u] => uploadFile' = f
  BY <1>2, <1>4, <1>5, SizeNat DEF FileAfter, Closes
<1>8. Arrived(u)'
  BY <1>4, <1>6, <1>7 DEF Arrived, f
<1> QED
  BY <1>2, <1>4, <1>8 DEF PageOK, Idle

LEMMA NextPageOK ==
  ASSUME PlainFiles, WebIInv, PageOK, OneAtATime, [WebNext /\ Undisturbed]_webVars
  PROVE  PageOK'
<1>0. sent \in [Uploads -> Int]
  BY DEF WebIInv, UploadOK
<1>1. ASSUME NEW u \in Uploads, sent' = [sent EXCEPT ![u] = 0] \/ sent' = [sent EXCEPT ![u] = Idle],
             UNCHANGED <<tree, uploadFile, folder, turn, kept>>
      PROVE  PageOK'
  <2>1. /\ sent'[u] \in {0, Idle} /\ \A v \in Uploads : v # u => sent'[v] = sent[v]
        /\ files' = files /\ dirs' = dirs /\ mounted' = mounted /\ folder' = folder
        /\ uploadFile' = uploadFile
    BY <1>0, <1>1 DEF tree
  <2>2. ASSUME NEW v \in Uploads, sent'[v] > 0 PROVE Arrived(v)'
    <3>1. sent'[v] = sent[v] /\ Arrived(v)
      BY <2>1, <2>2 DEF PageOK, Idle
    <3> QED
      BY <2>1, <3>1 DEF Arrived
  <2> QED
    BY <2>1, <2>2 DEF PageOK
<1>2. ASSUME NEW u \in Uploads, Upload(u) \/ Abort(u) PROVE PageOK'
  BY <1>1, <1>2, FirstArrived, LaterArrived DEF Upload, Request, Answer, Abort
<1>3. CASE Mount
  BY <1>3 DEF Mount, PageOK
<1>4. CASE Reboot
  BY <1>4 DEF Reboot, PageOK, Idle
<1>5. CASE UNCHANGED webVars
  BY <1>5 DEF webVars, tree, PageOK, Arrived
<1> QED
  BY <1>2, <1>3, <1>4, <1>5 DEF WebNext, Undisturbed

\* Every file that is answered 'OK' is on the card, whole, when files are sent
\* one after the other: it is the pieces that arrive between each other, with
\* one static file for them all, that violate AnsweredStored.
THEOREM WebOneAtATime ==
  ASSUME PlainFiles
  PROVE  WebSpec /\ []OneAtATime /\ [][Undisturbed]_webVars => AnsweredStored
<1>1. WebInit => PageOK
  BY DEF WebInit, PageOK, Idle
<1>2. WebIInv /\ PageOK /\ OneAtATime /\ [WebNext]_webVars /\ [Undisturbed]_webVars => PageOK'
  BY NextPageOK
<1>3. WebIInv /\ PageOK =>
        [\A u \in Uploads :
           Answer(u) => FileName[u] \in DOMAIN files /\ files[FileName[u]] = Whole(u)]_webVars
  <2> SUFFICES ASSUME WebIInv, PageOK, NEW u \in Uploads, Answer(u)
               PROVE  FileName[u] \in DOMAIN files /\ files[FileName[u]] = Whole(u)
    OBVIOUS
  <2>1. sent[u] = Size[u] /\ Size[u] \in Nat /\ Size[u] # 0
    BY SizeNat DEF Answer, PlainFiles
  <2>2. Arrived(u)
    BY <2>1 DEF PageOK
  <2> QED
    BY <2>1, <2>2 DEF Arrived, Whole, Written
<1> QED
  BY <1>1, <1>2, <1>3, WebInvariant, PTL DEF WebSpec, AnsweredStored
=============================================================================
