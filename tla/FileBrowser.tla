----------------------------- MODULE FileBrowser -----------------------------
(***************************************************************************)
(* showFileList() (src/main/GUI.h) and readSDFiles() (src/main/ReadSD.h):  *)
(* browsing the SD card with the keys.                                     *)
(*                                                                         *)
(* A path is the sequence of the names between its slashes, the root the   *)
(* empty one.  showFileList calls itself for every folder it enters or     *)
(* leaves and returns as soon as that call does, so the calls pending on   *)
(* the stack have nothing left to do: the state is that of the last call.  *)
(* currentPath is global: it outlives the browser.                         *)
(***************************************************************************)
EXTENDS ListWindow, Sequences

CONSTANTS
  Listing,       \* for every folder of the card, the entries it lists, in order
  CardMayLeave   \* the card may be taken out, or unmounted by Remove

Dirs == DOMAIN Listing
Entry == [name : STRING, isDirectory : BOOLEAN]

ASSUME ListingAssumption ==
  /\ <<>> \in Dirs
  /\ \A p \in Dirs : Listing[p] \in Seq(Entry)
ASSUME CardAssumption == CardMayLeave \in BOOLEAN

VARIABLES
  browsing,       \* the loop of showFileList runs
  currentPath,    \* the folder listed, or to be listed next
  fileList,       \* its entries, as far as they were read when it was opened
  selectedFile,   \* the marked entry
  fileMenuIndex,  \* the entry in the top row
  card            \* the card can be read

vars == <<browsing, currentPath, fileList, selectedFile, fileMenuIndex, card>>

\* What readSDFiles may leave in fileList: nothing when SD.begin or SD.open fails;
\* else the entries, which are read one by one until the card goes.
ReadFiles(path) ==
  IF ~card \/ path \notin Dirs THEN {<<>>}
  ELSE IF ~CardMayLeave THEN {Listing[path]}
  ELSE {SubSeq(Listing[path], 1, n) : n \in 0..Len(Listing[path])}

Init ==
  /\ browsing = FALSE
  /\ currentPath = <<>>
  /\ fileList = <<>>
  /\ selectedFile = 0
  /\ fileMenuIndex = 0
  /\ card = TRUE

-----------------------------------------------------------------------------

\* showFileList() with currentPath = path: "No files found." ends it at once.
ShowFolder(path) ==
  /\ currentPath' = path
  /\ fileList' \in ReadFiles(path)
  /\ browsing' = (fileList' # <<>>)
  /\ selectedFile' = 0
  /\ fileMenuIndex' = 0
  /\ UNCHANGED card

\* SD / Read SD in the menu.
ShowFileList == ~browsing /\ ShowFolder(currentPath)

Move ==
  /\ browsing
  /\ \/ /\ selectedFile' = SelUp(selectedFile)
        /\ fileMenuIndex' = TopUp(selectedFile, fileMenuIndex)
     \/ /\ selectedFile' = SelDown(selectedFile, Len(fileList))
        /\ fileMenuIndex' = TopDown(selectedFile, fileMenuIndex, Len(fileList))
  /\ UNCHANGED <<browsing, currentPath, fileList, card>>

Marked == fileList[selectedFile + 1]

\* Key B on a folder: "/" + its path.  ReadSD.h:51 calls that its full path, to
\* come back to it; it is its bare name, because name() of a file gives the last
\* component only, so a folder below the root is looked for in the root.
EnterFolder ==
  /\ browsing /\ Marked.isDirectory
  /\ ShowFolder(<<Marked.name>>)

\* Key B on a file.
ChooseFile ==
  /\ browsing /\ ~Marked.isDirectory
  /\ browsing' = FALSE
  /\ UNCHANGED <<currentPath, fileList, selectedFile, fileMenuIndex, card>>

\* Mutant of LeaveFolder: the path is cut, but the list is not read again.
LeaveFolderStuck ==
  /\ browsing /\ currentPath # <<>>
  /\ ShowFolder(currentPath)

\* Key D below the root: the path up to its last slash.
LeaveFolder ==
  /\ browsing /\ currentPath # <<>>
  /\ ShowFolder(SubSeq(currentPath, 1, Len(currentPath) - 1))

\* Key D at the root.
Leave ==
  /\ browsing /\ currentPath = <<>>
  /\ browsing' = FALSE
  /\ UNCHANGED <<currentPath, fileList, selectedFile, fileMenuIndex, card>>

\* The card goes, or comes back.
CardChanges ==
  /\ CardMayLeave
  /\ card' = ~card
  /\ UNCHANGED <<browsing, currentPath, fileList, selectedFile, fileMenuIndex>>

KeyD == LeaveFolder \/ Leave

Next ==
  \/ ShowFileList \/ Move \/ EnterFolder \/ ChooseFile \/ KeyD \/ CardChanges

Spec == Init /\ [][Next]_vars

\* The loop polls the keypad for ever, in the browser and in the menu.
FairSpec == Spec /\ WF_vars(KeyD) /\ WF_vars(ShowFileList)

-----------------------------------------------------------------------------
(* Properties.                                                             *)

\* The variables keep to their types; a name in a path is one of the card's.
Names == UNION {{Listing[p][i].name : i \in 1..Len(Listing[p])} : p \in Dirs}
TypeOK ==
  /\ browsing \in BOOLEAN /\ card \in BOOLEAN
  /\ currentPath \in Seq(Names)
  /\ fileList \in Seq(Entry)
  /\ selectedFile \in Nat /\ fileMenuIndex \in Nat

\* The entry that B would open exists and is one of the rows on the screen.
MarkedShown ==
  browsing => selectedFile \in Shown(fileMenuIndex, Len(fileList))

\* Somebody who only presses D, or opens the browser again, comes to see the
\* root of the card, on every card, if the browser can be seen at all from then
\* on: an empty folder ends it for good.  GUI.h:564 says of D: "back to the
\* parent folder".
BackToRootIfSeen ==
  <>[][KeyD \/ ShowFileList]_vars /\ []<>browsing => []<>(browsing /\ currentPath = <<>>)
=============================================================================
