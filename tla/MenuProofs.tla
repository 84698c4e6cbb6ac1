----------------------------- MODULE MenuProofs -----------------------------
(***************************************************************************)
(* Proofs about Menu, for every number of entries, every size of every     *)
(* sub-menu and every number of visible rows.                              *)
(*                                                                         *)
(* SelectionVisible is not inductive alone.  It needs NoEmptyRows (so that *)
(* the wrap lands on the last window) and SelectionOwnsKeys: readRFID sets *)
(* subMenuIndex to -1, and the sub-menu stands at its top only because     *)
(* readRFID is started from entry 0.                                       *)
(***************************************************************************)
EXTENDS Menu, TLAPS

IInv == TypeOK /\ SelectionVisible /\ NoEmptyRows /\ SelectionOwnsKeys

\* The window arithmetic of key A: the new selection is an entry of the
\* sub-menu, drawn, and no row is empty that an entry could fill.
LEMMA UpKeepsWindow ==
  ASSUME NEW n \in Nat \ {0}, NEW i \in Nat \cup {-1}, NEW top \in Nat,
         i < n, i = -1 => top = 0,
         i # -1 => i \in top..top + VisibleRows - 1,
         top > 0 => top + VisibleRows <= n
  PROVE  LET j == Up(i, n)  t == TopAfterUp(i, top, n) IN
         /\ j \in Nat /\ t \in Nat
         /\ j < n /\ j \in t..t + VisibleRows - 1
         /\ t > 0 => t + VisibleRows <= n
BY VisibleRowsAssumption DEF Up, TopAfterUp, Larger

\* The same for key C.
LEMMA DownKeepsWindow ==
  ASSUME NEW n \in Nat \ {0}, NEW i \in Nat \cup {-1}, NEW top \in Nat,
         i < n, i = -1 => top = 0,
         i # -1 => i \in top..top + VisibleRows - 1,
         top > 0 => top + VisibleRows <= n
  PROVE  LET j == Down(i, n)  t == TopAfterDown(i, top, n) IN
         /\ j \in Nat /\ t \in Nat
         /\ j < n /\ j \in t..t + VisibleRows - 1
         /\ t > 0 => t + VisibleRows <= n
BY VisibleRowsAssumption DEF Down, TopAfterDown

LEMMA InitIInv == Init => IInv
<1> SUFFICES ASSUME Init PROVE IInv
  OBVIOUS
<1>1. soundOn \in BOOLEAN /\ isAPMode \in BOOLEAN
  BY Zenon DEF Init
<1>2. /\ mainMenuIndex \in Mains
      /\ subMenu2Index \in 0..OptionCount - 1
      /\ subMenuIndex \in Nat \cup {-1} /\ menuIndex \in Nat
  BY MaxMenuAssumption DEF Init, Mains, OptionCount
<1>3. TypeOK
  BY <1>1, <1>2 DEF Init, TypeOK, Options
<1> QED
  BY <1>3 DEF Init, IInv, SelectionVisible, NoEmptyRows, SelectionOwnsKeys, InSub

LEMMA NextIInv == IInv /\ [Next]_vars => IInv'
<1> SUFFICES ASSUME IInv, [Next]_vars PROVE IInv'
  OBVIOUS
<1> USE MaxMenuAssumption, SubMenuSizeAssumption, VisibleRowsAssumption
<1> USE DEF IInv, TypeOK, SelectionVisible, NoEmptyRows, SelectionOwnsKeys,
            InSub, Size, Mains, Selected, opts, nav
<1>1. CASE TurnMain
  BY <1>1 DEF TurnMain
<1>2. CASE MoveSub
  <2> DEFINE n == SubMenuSize[mainMenuIndex]
  <2>1. n \in Nat \ {0} /\ running = "none" /\ menuState = "SUB_MENU"
    BY <1>2 DEF MoveSub
  <2>2. /\ subMenuIndex \in Nat \cup {-1} /\ menuIndex \in Nat
        /\ subMenuIndex < n /\ (subMenuIndex = -1 => menuIndex = 0)
        /\ subMenuIndex # -1 => subMenuIndex \in menuIndex..menuIndex + VisibleRows - 1
        /\ menuIndex > 0 => menuIndex + VisibleRows <= n
    BY <2>1
  <2>3. /\ subMenuIndex' \in Nat /\ menuIndex' \in Nat /\ subMenuIndex' < n
        /\ subMenuIndex' \in menuIndex'..menuIndex' + VisibleRows - 1
        /\ menuIndex' > 0 => menuIndex' + VisibleRows <= n
    <3> HIDE DEF n
    <3>1. CASE /\ subMenuIndex' = Up(subMenuIndex, n)
               /\ menuIndex' = TopAfterUp(subMenuIndex, menuIndex, n)
      BY ONLY <2>1, <2>2, <3>1, UpKeepsWindow
    <3>2. CASE /\ subMenuIndex' = Down(subMenuIndex, n)
               /\ menuIndex' = TopAfterDown(subMenuIndex, menuIndex, n)
      BY ONLY <2>1, <2>2, <3>2, DownKeepsWindow
    <3> QED
      BY <1>2, <3>1, <3>2 DEF MoveSub, n
  <2>4. /\ UNCHANGED <<menuState, mainMenuIndex, running>>
        /\ UNCHANGED <<subMenu2, subMenu2Index, soundOn, pin17, isAPMode>>
    BY <1>2 DEF MoveSub
  <2>5. TypeOK'
    BY <2>3, <2>4
  <2>6. SelectionVisible' /\ NoEmptyRows'
    <3>1. Size' = n
      BY <2>4
    <3> QED
      BY ONLY <2>3, <3>1 DEF SelectionVisible, NoEmptyRows
  <2>7. SelectionOwnsKeys'
    BY <2>1, <2>4
  <2> QED
    BY <2>5, <2>6, <2>7
<1>3. CASE MoveOption
  BY <1>3 DEF MoveOption, Up, Down, OptionCount
<1>4. CASE OpenSub
  BY <1>4 DEF OpenSub
<1>5. CASE OpenOptions
  BY <1>5 DEF OpenOptions, Executing, Options, OptionCount
<1>6. CASE StartProgram
  BY <1>6 DEF StartProgram, Executing
<1>7. CASE PaintOnce
  BY <1>7 DEF PaintOnce, Executing
<1>8. CASE Restart
  <2>1. soundOn' \in BOOLEAN /\ isAPMode' \in BOOLEAN
    BY <1>8, Zenon DEF Restart
  <2> QED
    BY <1>8, <2>1 DEF Restart, OptionCount
<1>9. CASE PickOption
  <2>1. soundOn' \in BOOLEAN /\ isAPMode' \in BOOLEAN /\ pin17' \in {"OUTPUT", "INPUT"}
    BY <1>9 DEF PickOption
  <2> QED
    BY <1>9, <2>1 DEF PickOption
<1>10. CASE CloseOptions
  BY <1>10 DEF CloseOptions
<1>11. CASE CloseSub
  BY <1>11 DEF CloseSub
<1>12. CASE EndRedrawing
  <2>1. running = Program(mainMenuIndex, subMenuIndex) /\ running # "none"
    BY <1>12 DEF EndRedrawing, Redrawing
  <2>2. running = "readRFID" => subMenuIndex = 0
    BY <2>1 DEF Program
  <2>3. running = "readRFID" => menuIndex = 0
    BY <2>2, <2>1
  <2> QED
    BY <1>12, <2>1, <2>2, <2>3 DEF EndRedrawing
<1>13. CASE EndReturning
  BY <1>13 DEF EndReturning, Returning
<1>14. CASE UNCHANGED vars
  BY <1>14 DEF vars
<1> QED
  BY <1>1, <1>2, <1>3, <1>4, <1>5, <1>6, <1>7, <1>8, <1>9, <1>10, <1>11,
     <1>12, <1>13, <1>14 DEF Next, KeyD

\* Every action draws the picture of the state it leads to, or leaves that of a
\* program; the picture that stays after a program has returned is its own.
LEMMA NextScreenTruth ==
  ASSUME IInv, ScreenTruth, [Next]_vars
  PROVE  ScreenTruth'
<1> USE DEF ScreenTruth
<1>1. CASE TurnMain
  BY <1>1 DEF TurnMain, CurrentView
<1>2. CASE MoveSub
  BY <1>2 DEF MoveSub, CurrentView
<1>3. CASE MoveOption
  BY <1>3 DEF MoveOption, nav, CurrentView
<1>4. CASE OpenSub
  BY <1>4 DEF OpenSub, CurrentView
<1>5. CASE OpenOptions
  BY <1>5 DEF OpenOptions, Executing, CurrentView
<1>6. CASE StartProgram
  <2>1. running' # "none" /\ screen' = AppView(running')
    BY <1>6 DEF StartProgram, Redrawing, Returning
  <2> QED
    BY <2>1
<1>7. CASE PaintOnce
  <2>1. running' = "none" /\ screen'.view = "app"
    BY <1>7 DEF PaintOnce, Executing, AppView
  <2> QED
    BY <2>1
<1>8. CASE Restart
  BY <1>8 DEF Restart, CurrentView
<1>9. CASE PickOption
  BY <1>9 DEF PickOption, CurrentView
<1>10. CASE CloseOptions
  BY <1>10 DEF CloseOptions, CurrentView
<1>11. CASE CloseSub
  BY <1>11 DEF CloseSub, CurrentView
<1>12. CASE EndRedrawing
  BY <1>12 DEF EndRedrawing, CurrentView
<1>13. CASE EndReturning
  <2>1. running' = "none" /\ screen' = AppView(running)
    BY <1>13 DEF EndReturning, Returning
  <2> QED
    BY <2>1 DEF AppView
<1>14. CASE UNCHANGED vars
  BY <1>14 DEF vars, nav, opts, CurrentView
<1> QED
  BY <1>1, <1>2, <1>3, <1>4, <1>5, <1>6, <1>7, <1>8, <1>9, <1>10, <1>11,
     <1>12, <1>13, <1>14 DEF Next, KeyD

\* In every reachable state of every menu the variables have their types, the
\* entry that B executes exists and is drawn, no row is left empty, and what
\* has the keys belongs to the selected entry.
THEOREM MenuInvariant == Spec => []IInv
<1>1. Init => IInv
  BY InitIInv
<1>2. IInv /\ [Next]_vars => IInv'
  BY NextIInv
<1> QED
  BY <1>1, <1>2, PTL DEF Spec

\* The type invariant of handleKeypad's variables, for every menu.
THEOREM MenuTyped == Spec => []TypeOK
BY MenuInvariant, PTL DEF IInv

\* The entry that key B executes exists and is drawn, for every menu whose
\* sub-menus have at least one entry, and any height of the screen.
THEOREM MenuSelectionVisible == Spec => []SelectionVisible
BY MenuInvariant, PTL DEF IInv

\* The scrolling of keys A and C leaves no row of the screen empty below the
\* last entry, for every menu.
THEOREM MenuNoEmptyRows == Spec => []NoEmptyRows
BY MenuInvariant, PTL DEF IInv

\* The program or option list that has the keys is that of the selected entry,
\* for every menu.
THEOREM MenuSelectionOwnsKeys == Spec => []SelectionOwnsKeys
BY MenuInvariant, PTL DEF IInv

\* A menu on the screen is the one that the keys act on, and a running program
\* shows its own picture, for every menu: the one exception is the -1 that
\* readRFID leaves.
THEOREM MenuScreenTruth == Spec => []ScreenTruth
<1>1. Init => ScreenTruth
  BY DEF Init, ScreenTruth, CurrentView
<1>2. IInv /\ ScreenTruth /\ [Next]_vars => ScreenTruth'
  BY NextScreenTruth
<1> QED
  BY <1>1, <1>2, MenuInvariant, PTL DEF Spec

-----------------------------------------------------------------------------
(* The way home.  Every D takes the menu one level up, so that two of them *)
(* are enough from everywhere.  The prover does not reason about ENABLED,  *)
(* so the fairness of KeyD is written out: D does something wherever the   *)
(* menu is not the main one.                                               *)

DIsPressed == []<>(menuState = "MAIN_MENU") \/ []<><<KeyD>>_vars

AtHome == menuState = "MAIN_MENU" /\ screen = MainView(mainMenuIndex)
InSubMenu == menuState = "SUB_MENU" /\ running = "none"
OverSubMenu == menuState = "SUB_MENU_LEVEL_2" \/ running # "none"

\* The main menu is drawn whenever it has the keys, also after readRFID.
MainDrawn == menuState = "MAIN_MENU" => AtHome

LEMMA NextMainDrawn == MainDrawn /\ [Next]_vars => MainDrawn'
<1> SUFFICES ASSUME MainDrawn, [Next]_vars PROVE MainDrawn'
  OBVIOUS
<1>1. CASE TurnMain
  BY <1>1 DEF TurnMain, MainDrawn, AtHome
<1>2. CASE Restart
  BY <1>2 DEF Restart, MainDrawn, AtHome
<1>3. CASE CloseSub
  BY <1>3 DEF CloseSub, MainDrawn, AtHome
<1>4. CASE OpenSub \/ OpenOptions \/ PickOption \/ CloseOptions \/ EndRedrawing
  <2>1. menuState' # "MAIN_MENU"
    BY <1>4 DEF OpenSub, OpenOptions, PickOption, CloseOptions, EndRedrawing
  <2> QED
    BY <2>1 DEF MainDrawn
<1>5. CASE MoveSub \/ MoveOption \/ StartProgram \/ PaintOnce
  <2>1. menuState # "MAIN_MENU" /\ menuState' = menuState
    BY <1>5 DEF MoveSub, MoveOption, StartProgram, PaintOnce, Executing, nav
  <2> QED
    BY <2>1 DEF MainDrawn
<1>6. CASE EndReturning \/ UNCHANGED vars
  <2>1. UNCHANGED <<menuState, mainMenuIndex, screen>>
    BY <1>6 DEF EndReturning, vars, nav
  <2> QED
    BY <2>1 DEF MainDrawn, AtHome
<1> QED
  BY <1>1, <1>2, <1>3, <1>4, <1>5, <1>6 DEF Next, KeyD

\* A D over the sub-menu leads to the sub-menu, the next one home, and there
\* it has no effect.
LEMMA KeyDLeadsUp ==
  ASSUME IInv, KeyD
  PROVE  /\ OverSubMenu => InSubMenu'
         /\ InSubMenu => AtHome'
         /\ ~AtHome
<1> USE DEF IInv, SelectionOwnsKeys, OverSubMenu, InSubMenu, AtHome
<1>1. CASE CloseOptions
  BY <1>1 DEF CloseOptions
<1>2. CASE CloseSub
  BY <1>2 DEF CloseSub
<1>3. CASE EndRedrawing
  <2>1. running # "none"
    BY <1>3 DEF EndRedrawing, Redrawing
  <2> QED
    BY <1>3, <2>1 DEF EndRedrawing
<1>4. CASE EndReturning
  <2>1. running # "none"
    BY <1>4 DEF EndReturning, Returning
  <2> QED
    BY <1>4, <2>1 DEF EndReturning, nav
<1> QED
  BY <1>1, <1>2, <1>3, <1>4 DEF KeyD

\* Pressing D, and nothing else, leads from everywhere to the main menu, drawn,
\* for every menu.
THEOREM MenuHomeByD == Spec /\ DIsPressed => HomeByD
<1>1. Spec => [](IInv /\ MainDrawn)
  <2>1. Init => MainDrawn
    BY DEF Init, MainDrawn, AtHome
  <2> QED
    BY <2>1, NextMainDrawn, MenuInvariant, PTL DEF Spec
<1>2. IInv /\ MainDrawn => OverSubMenu \/ InSubMenu \/ AtHome
  BY DEF IInv, TypeOK, MainDrawn, OverSubMenu, InSubMenu
<1>3. IInv /\ MainDrawn => (menuState = "MAIN_MENU" <=> AtHome)
  BY DEF MainDrawn, AtHome
<1>4. IInv /\ KeyD => (OverSubMenu => InSubMenu') /\ (InSubMenu => AtHome') /\ ~AtHome
  BY KeyDLeadsUp
<1>5. UNCHANGED vars => /\ OverSubMenu => OverSubMenu'
                        /\ InSubMenu => InSubMenu'
                        /\ AtHome => AtHome'
  BY DEF vars, nav, OverSubMenu, InSubMenu, AtHome
<1>6. AtHome <=> (menuState = "MAIN_MENU" /\ screen = MainView(mainMenuIndex))
  BY DEF AtHome
<1> QED
  BY <1>1, <1>2, <1>3, <1>4, <1>5, <1>6, PTL DEF DIsPressed, HomeByD
=============================================================================
