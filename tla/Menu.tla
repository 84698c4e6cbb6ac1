-------------------------------- MODULE Menu --------------------------------
(***************************************************************************)
(* The menu of the handheld device: the state machine that handleKeypad()  *)
(* (src/main/Menu.h) drives from the Arduino loop, one key per pass, the   *)
(* programs it starts, and what it leaves on the body of the OLED.         *)
(*                                                                         *)
(* A program started from a sub-menu runs inside the call of handleKeypad, *)
(* on the stack of the one loop task: until it returns, the keys are its   *)
(* own and the menu does not move.  What a program does with the radio,    *)
(* the SD card or the reader belongs to other modules; here it only keeps  *)
(* the loop, paints the body and returns.                                  *)
(***************************************************************************)
EXTENDS Integers

CONSTANTS
  MaxMenu,      \* number of entries of the main menu (maxMenu)
  SubMenuSize,  \* number of entries of each sub-menu (the array subMenuSize)
  VisibleRows   \* rows displayMenu draws: the 3 of its loop and of the scrolling

Mains == 1..MaxMenu

ASSUME MaxMenuAssumption == MaxMenu \in Nat \ {0}
ASSUME SubMenuSizeAssumption == SubMenuSize \in [Mains -> Nat \ {0}]
ASSUME VisibleRowsAssumption == VisibleRows \in Nat \ {0}

VARIABLES
  menuState,      \* which of the three levels handleKeypad serves
  mainMenuIndex,  \* entry of the main menu, 1..MaxMenu
  subMenuIndex,   \* entry selected in the sub-menu, or -1 after readRFID
  menuIndex,      \* entry drawn in the top row of the sub-menu
  subMenu2,       \* the option list opened last: subMenu2Items and its callback
  subMenu2Index,  \* option selected in it
  soundOn,        \* the device may beep
  pin17,          \* mode of the buzzer's pin
  isAPMode,       \* the access point is on, as the menu believes
  running,        \* the program that holds the loop, or "none"
  screen          \* what the body of the OLED shows

nav  == <<menuState, mainMenuIndex, subMenuIndex, menuIndex>>
opts == <<subMenu2, subMenu2Index, soundOn, pin17, isAPMode>>
vars == <<nav, opts, running, screen>>

-----------------------------------------------------------------------------
(* The programs executeSubMenuAction() dispatches to.                      *)

\* Loops that leave on D and then draw the sub-menu again themselves.
Redrawing == {"handleUARTMode", "readRFID", "controlJoystick"}
\* Loops that leave on D (the two lists and the clock also by themselves)
\* and return without drawing anything.
Returning == {"showWiFiList", "displayInfoWifi", "rssiLoop", "displayTime",
              "displayDeviceInfo", "showFileList"}
\* Returning programs that may give up at once: nothing scanned, no card or
\* no file, no WiFi.
MayRefuse == {"showWiFiList", "displayTime", "showFileList"}
\* Programs that paint the body once and return.
OneShot == {"scanWiFi", "displaySpeedWifi"}
\* Programs that touch neither the keys nor the body.
Silent == {"SD.end", "endRFID", "nothing"}
Options == {"AP", "Sound"}

\* The dispatch on (mainMenuIndex, subMenuIndex).
Program(m, i) ==
  CASE m = 1 /\ i = 0 -> "showWiFiList"
    [] m = 1 /\ i = 1 -> "scanWiFi"
    [] m = 1 /\ i = 2 -> "displayInfoWifi"
    [] m = 1 /\ i = 3 -> "AP"
    [] m = 1 /\ i = 4 -> "displaySpeedWifi"
    [] m = 1 /\ i = 5 -> "rssiLoop"
    [] m = 2 /\ i = 0 -> "displayTime"
    [] m = 3 /\ i = 0 -> "handleUARTMode"
    [] m = 3 /\ i = 1 -> "Sound"
    [] m = 3 /\ i = 2 -> "restart"
    [] m = 3 /\ i = 3 -> "displayDeviceInfo"
    [] m = 4 /\ i = 0 -> "showFileList"
    [] m = 4 /\ i = 1 -> "SD.end"
    [] m = 5 /\ i = 0 -> "readRFID"
    [] m = 5 /\ i = 1 -> "endRFID"
    [] m = 6 /\ i = 0 -> "controlJoystick"
    [] OTHER -> "nothing"

-----------------------------------------------------------------------------
(* What the body of the OLED can show.                                     *)

MainView(m) == [view |-> "main", main |-> m]
\* displayMenu: the rows from top on, the arrow beside row sel - top.
SubView(m, top, sel) ==
  [view |-> "sub", main |-> m, top |-> top, arrow |-> sel - top]
\* displaySubMenuLevel2: the arrow beside option i, the dot beside the option
\* that the setting has now (drawExtra).
OptionView(o, i, set) ==
  [view |-> "option", list |-> o, arrow |-> i, dot |-> IF set THEN 0 ELSE 1]
AppView(p) == [view |-> "app", program |-> p]

\* The drawExtra of each option list reads its own flag.
Setting(o, ap, sound) == IF o = "AP" THEN ap ELSE sound

Init ==
  /\ menuState = "MAIN_MENU"
  /\ mainMenuIndex = 1
  /\ subMenuIndex = 0
  /\ menuIndex = 0
  /\ subMenu2 = "null"
  /\ subMenu2Index = 0
  /\ soundOn = TRUE
  /\ pin17 = "OUTPUT"
  /\ isAPMode = FALSE
  /\ running = "none"
  /\ screen = MainView(1)

-----------------------------------------------------------------------------
(* Keys A (up) and C (down).                                               *)

Larger(a, b) == IF a > b THEN a ELSE b

\* Mutant of Up: the wrap at the first entry is missing.
UpWithoutWrap(i, n) == i - 1
Up(i, n)   == IF i > 0 THEN i - 1 ELSE n - 1
Down(i, n) == IF i < n - 1 THEN i + 1 ELSE 0

\* Mutant of TopAfterUp: the wrap puts the last entry in the top row.
TopAfterUpLastOnTop(i, top, n) ==
  IF i > 0 THEN (IF Up(i, n) < top THEN top - 1 ELSE top) ELSE n - 1
\* Mutant of TopAfterDown: the window does not follow the selection.
TopAfterDownStill(i, top, n) == IF i < n - 1 THEN top ELSE 0

\* The top row after A and after C.
TopAfterUp(i, top, n) ==
  LET moved == IF i > 0 THEN top ELSE Larger(n - VisibleRows, 0)
  IN  IF Up(i, n) < moved THEN moved - 1 ELSE moved
TopAfterDown(i, top, n) ==
  LET moved == IF i < n - 1 THEN top ELSE 0
  IN  IF Down(i, n) >= moved + VisibleRows THEN moved + 1 ELSE moved

TurnMain ==
  /\ running = "none"
  /\ menuState = "MAIN_MENU"
  /\ \/ mainMenuIndex' = IF mainMenuIndex < MaxMenu THEN mainMenuIndex + 1 ELSE 1
     \/ mainMenuIndex' = IF mainMenuIndex > 1 THEN mainMenuIndex - 1 ELSE MaxMenu
  /\ screen' = MainView(mainMenuIndex')
  /\ UNCHANGED <<menuState, subMenuIndex, menuIndex, opts, running>>

\* Mutant of MoveSub: the sub-menu is drawn before it is scrolled.
MoveSubDrawnEarly ==
  LET n == SubMenuSize[mainMenuIndex] IN
  /\ running = "none" /\ menuState = "SUB_MENU"
  /\ subMenuIndex' = Down(subMenuIndex, n)
  /\ menuIndex' = TopAfterDown(subMenuIndex, menuIndex, n)
  /\ screen' = SubView(mainMenuIndex, menuIndex, subMenuIndex')
  /\ UNCHANGED <<menuState, mainMenuIndex, opts, running>>

MoveSub ==
  LET n == SubMenuSize[mainMenuIndex] IN
  /\ running = "none"
  /\ menuState = "SUB_MENU"
  /\ \/ /\ subMenuIndex' = Up(subMenuIndex, n)
        /\ menuIndex' = TopAfterUp(subMenuIndex, menuIndex, n)
     \/ /\ subMenuIndex' = Down(subMenuIndex, n)
        /\ menuIndex' = TopAfterDown(subMenuIndex, menuIndex, n)
  /\ screen' = SubView(mainMenuIndex, menuIndex', subMenuIndex')
  /\ UNCHANGED <<menuState, mainMenuIndex, opts, running>>

OptionCount == 2  \* both option lists are { "On", "Off" }

MoveOption ==
  /\ running = "none"
  /\ menuState = "SUB_MENU_LEVEL_2"
  /\ \/ subMenu2Index' = Up(subMenu2Index, OptionCount)
     \/ subMenu2Index' = Down(subMenu2Index, OptionCount)
  /\ screen' = OptionView(subMenu2, subMenu2Index',
                          Setting(subMenu2, isAPMode, soundOn))
  /\ UNCHANGED <<nav, subMenu2, soundOn, pin17, isAPMode, running>>

-----------------------------------------------------------------------------
(* Key B.                                                                  *)

Selected == Program(mainMenuIndex, subMenuIndex)

OpenSub ==
  /\ running = "none"
  /\ menuState = "MAIN_MENU"
  /\ menuState' = "SUB_MENU"
  /\ subMenuIndex' = 0
  /\ menuIndex' = 0
  /\ screen' = SubView(mainMenuIndex, 0, 0)
  /\ UNCHANGED <<mainMenuIndex, opts, running>>

Executing == running = "none" /\ menuState = "SUB_MENU"

\* Mutant of OpenOptions: the list is set only when none was set before.
OpenOptionsOnce ==
  /\ Executing /\ Selected \in Options
  /\ menuState' = "SUB_MENU_LEVEL_2"
  /\ subMenu2' = IF subMenu2 = "null" THEN Selected ELSE subMenu2
  /\ subMenu2Index' = 0
  /\ screen' = OptionView(subMenu2', 0, Setting(subMenu2', isAPMode, soundOn))
  /\ UNCHANGED <<mainMenuIndex, subMenuIndex, menuIndex, soundOn, pin17,
                 isAPMode, running>>

\* openSubMenuLevel2
OpenOptions ==
  /\ Executing
  /\ Selected \in Options
  /\ menuState' = "SUB_MENU_LEVEL_2"
  /\ subMenu2' = Selected
  /\ subMenu2Index' = 0
  /\ screen' = OptionView(Selected, 0, Setting(Selected, isAPMode, soundOn))
  /\ UNCHANGED <<mainMenuIndex, subMenuIndex, menuIndex, soundOn, pin17,
                 isAPMode, running>>

\* A program that keeps the loop until a key ends it.
StartProgram ==
  /\ Executing
  /\ Selected \in Redrawing \cup Returning
  /\ running' = Selected
  /\ screen' = AppView(Selected)
  /\ UNCHANGED <<nav, opts>>

\* A program that paints the body and is back before the next key.
PaintOnce ==
  /\ Executing
  /\ Selected \in OneShot \cup MayRefuse
  /\ screen' = AppView(Selected)
  /\ UNCHANGED <<nav, opts, running>>

\* Setup / Reset: ESP.restart() and a whole setup().
Restart ==
  /\ Executing
  /\ Selected = "restart"
  /\ menuState' = "MAIN_MENU"
  /\ mainMenuIndex' = 1
  /\ subMenuIndex' = 0
  /\ menuIndex' = 0
  /\ subMenu2' = "null"
  /\ subMenu2Index' = 0
  /\ soundOn' = TRUE
  /\ pin17' = "OUTPUT"
  /\ isAPMode' = FALSE
  /\ running' = "none"
  /\ screen' = MainView(1)

\* The callback of the option list, and the sub-menu again.  startAPMode may
\* fail: the flag is then left as it was.
PickOption ==
  /\ running = "none"
  /\ menuState = "SUB_MENU_LEVEL_2"
  /\ menuState' = "SUB_MENU"
  /\ \/ /\ subMenu2 = "AP"
        /\ \/ /\ subMenu2Index = 0
              /\ isAPMode' \in {TRUE, isAPMode}
           \/ /\ subMenu2Index = 1
              /\ isAPMode' = FALSE
        /\ UNCHANGED <<soundOn, pin17>>
     \/ /\ subMenu2 = "Sound"
        /\ soundOn' = (subMenu2Index = 0)
        /\ pin17' = IF subMenu2Index = 0 THEN "OUTPUT" ELSE "INPUT"
        /\ UNCHANGED isAPMode
  /\ screen' = SubView(mainMenuIndex, menuIndex, subMenuIndex)
  /\ UNCHANGED <<mainMenuIndex, subMenuIndex, menuIndex, subMenu2,
                 subMenu2Index, running>>

-----------------------------------------------------------------------------
(* Key D, and the end of a program.                                        *)

CloseOptions ==
  /\ running = "none"
  /\ menuState = "SUB_MENU_LEVEL_2"
  /\ menuState' = "SUB_MENU"
  /\ screen' = SubView(mainMenuIndex, menuIndex, subMenuIndex)
  /\ UNCHANGED <<mainMenuIndex, subMenuIndex, menuIndex, opts, running>>

\* Mutant of CloseSub: the main menu is not drawn.
CloseSubUndrawn ==
  /\ running = "none" /\ menuState = "SUB_MENU"
  /\ menuState' = "MAIN_MENU"
  /\ UNCHANGED <<mainMenuIndex, subMenuIndex, menuIndex, opts, running, screen>>

CloseSub ==
  /\ running = "none"
  /\ menuState = "SUB_MENU"
  /\ menuState' = "MAIN_MENU"
  /\ screen' = MainView(mainMenuIndex)
  /\ UNCHANGED <<mainMenuIndex, subMenuIndex, menuIndex, opts, running>>

\* readRFID draws first and then sets subMenuIndex to -1.
EndRedrawing ==
  /\ running \in Redrawing
  /\ running' = "none"
  /\ menuState' = "SUB_MENU"
  /\ screen' = SubView(mainMenuIndex, menuIndex, subMenuIndex)
  /\ subMenuIndex' = IF running = "readRFID" THEN -1 ELSE subMenuIndex
  /\ UNCHANGED <<mainMenuIndex, menuIndex, opts>>

\* D, and for the lists also B: a network or a file was chosen.
EndReturning ==
  /\ running \in Returning
  /\ running' = "none"
  /\ UNCHANGED <<nav, opts, screen>>

KeyD == CloseOptions \/ CloseSub \/ EndRedrawing \/ EndReturning

Next ==
  \/ TurnMain \/ MoveSub \/ MoveOption
  \/ OpenSub \/ OpenOptions \/ StartProgram \/ PaintOnce \/ Restart \/ PickOption
  \/ KeyD

Spec == Init /\ [][Next]_vars

\* The loop task polls the keypad for ever: a D that stays pressable is pressed.
FairSpec == Spec /\ WF_vars(KeyD)

-----------------------------------------------------------------------------
(* Properties.                                                             *)

\* Every variable keeps to the values the code gives it; subMenuIndex has no
\* upper bound here, because the type does not know the sub-menu.
TypeOK ==
  /\ menuState \in {"MAIN_MENU", "SUB_MENU", "SUB_MENU_LEVEL_2"}
  /\ mainMenuIndex \in Mains
  /\ subMenuIndex \in Nat \cup {-1}
  /\ menuIndex \in Nat
  /\ subMenu2 \in Options \cup {"null"}
  /\ subMenu2Index \in 0..OptionCount - 1
  /\ soundOn \in BOOLEAN
  /\ isAPMode \in BOOLEAN
  /\ pin17 \in {"OUTPUT", "INPUT"}
  /\ running \in Redrawing \cup Returning \cup {"none"}

\* A sub-menu is open, with or without its options over it.
InSub == menuState # "MAIN_MENU"
Size == SubMenuSize[mainMenuIndex]

\* The entry that B would execute is one of the open sub-menu's, and it is
\* among the rows that displayMenu draws; when nothing is selected (-1) the
\* sub-menu stands at its top, so that C selects a row that is drawn.
SelectionVisible ==
  InSub => /\ subMenuIndex < Size
           /\ subMenuIndex = -1 => menuIndex = 0
           /\ subMenuIndex # -1 => subMenuIndex \in menuIndex..menuIndex + VisibleRows - 1

\* However it was scrolled, the sub-menu never leaves rows of the screen empty
\* while entries remain above them.
NoEmptyRows ==
  InSub /\ menuIndex > 0 => menuIndex + VisibleRows <= Size

\* What has the keys belongs to the selected entry: a program runs, and an
\* option list is open, only over the entry that starts it.  So the callback
\* and the dot are those of the entry, and leaving leads back to it.
SelectionOwnsKeys ==
  /\ running # "none" => menuState = "SUB_MENU" /\ running = Selected
  /\ menuState = "SUB_MENU_LEVEL_2" => running = "none" /\ subMenu2 = Selected

\* The picture of the state that the loop is in.
CurrentView ==
  CASE menuState = "MAIN_MENU" -> MainView(mainMenuIndex)
    [] menuState = "SUB_MENU"  -> SubView(mainMenuIndex, menuIndex, subMenuIndex)
    [] OTHER -> OptionView(subMenu2, subMenu2Index,
                           Setting(subMenu2, isAPMode, soundOn))

\* Whenever a menu is on the screen it is the one that the keys act on, at its
\* scroll position, with arrow and dot in place; a program that runs shows its
\* own screen.  The one exception is the sub-menu after readRFID.
ScreenTruth ==
  /\ running # "none" => screen = AppView(running)
  /\ running = "none" /\ screen.view # "app" /\ subMenuIndex # -1
       => screen = CurrentView

\* Pressing D, and nothing else, leads from everywhere to the main menu, drawn.
HomeByD ==
  <>[][KeyD]_vars => <>[](menuState = "MAIN_MENU" /\ screen = MainView(mainMenuIndex))
=============================================================================
