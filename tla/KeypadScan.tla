------------------------------ MODULE KeypadScan ------------------------------
(***************************************************************************)
(* The keypad library, src/libraries/Keypad/src/Keypad.cpp: getKey, which  *)
(* every loop of the firmware polls, scans the matrix at most once in      *)
(* debounceTime, keeps the keys it saw on a short list and gives the key   *)
(* of the first slot of that list when it has just been pressed.           *)
(*                                                                         *)
(* A key is its code, its place in the matrix in scanning order. Fingers   *)
(* press and release keys at any time; a contact shakes for less than      *)
(* debounceTime after it, and may be read either way meanwhile.            *)
(***************************************************************************)
EXTENDS Integers, FiniteSets

CONSTANTS
    KeyCodes,   \* the codes of the keys of the matrix
    ListMax     \* the slots of the list, LIST_MAX

ASSUME KeypadAssumption ==
    /\ KeyCodes \subseteq Nat
    /\ ListMax \in Nat \ {0}

NoKey == -1
Slots == 0 .. ListMax - 1
KeyStates == {"IDLE", "PRESSED", "HOLD", "RELEASED"}
Slot == [code : KeyCodes \cup {NoKey}, state : KeyStates, changed : BOOLEAN]

VARIABLES
    key,        \* the list of keys
    held,       \* more than holdTime has passed since holdTimer was set
    rested,     \* more than debounceTime has passed since the last scan
    got,        \* what the last call of getKey returned
    down,       \* the keys under a finger
    shaking,    \* the keys whose contact still shakes
    seen,       \* those of them that shook at the last scan
    due         \* the keys pressed since getKey last returned them

vars == <<key, held, rested, got, down, shaking, seen, due>>
finger == <<down, shaking, due>>

Empty == [code |-> NoKey, state |-> "IDLE", changed |-> FALSE]

Init ==
    /\ key = [i \in Slots |-> Empty]
    /\ held = FALSE
    /\ rested = FALSE
    /\ got = NoKey
    /\ down = {}
    /\ shaking = {}
    /\ seen = {}
    /\ due = {}

-----------------------------------------------------------------------------
(* updateList: idle keys leave the list, the others take a step, and the   *)
(* keys read closed that are not on the list fill its free slots in order. *)

Free == {i \in Slots : key[i].state = "IDLE"}
Listed == {key[i].code : i \in Slots \ Free}
\* Mutant of Fresh: only the first slot is searched.
FreshUnsearched(read) == read \ {key[0].code}
Fresh(read) == read \ Listed

\* The number of members of S before x: the order in which a loop meets them.
Rank(x, S) == Cardinality({y \in S : y < x})

\* The fresh key that finds slot i, if there is one.
FoundBy(i, read) == {k \in Fresh(read) : Rank(k, Fresh(read)) = Rank(i, Free)}
Added(read) == UNION {FoundBy(i, read) : i \in Free}

\* holdTimer is shared: a key added earlier in the same pass sets it back.
HeldAt(code, read) == held /\ \A k \in Added(read) : k > code

\* Mutant of Stay: the mark of a change is never taken back.
StayChanged(slot) == slot
Stay(slot) == [slot EXCEPT !.changed = FALSE]
TransitionTo(slot, state) == [code |-> slot.code, state |-> state, changed |-> TRUE]

\* Mutant of NextKeyState: a released key has no next state.
NextKeyStateStuck(slot, read) ==
    CASE slot.state = "PRESSED" /\ HeldAt(slot.code, read) -> TransitionTo(slot, "HOLD")
      [] /\ \/ slot.state = "PRESSED" /\ ~HeldAt(slot.code, read)
            \/ slot.state = "HOLD"
         /\ slot.code \notin read -> TransitionTo(slot, "RELEASED")
      [] OTHER -> Stay(slot)

NextKeyState(slot, read) ==
    CASE slot.state = "PRESSED" /\ HeldAt(slot.code, read) -> TransitionTo(slot, "HOLD")
      [] slot.state = "RELEASED" -> TransitionTo(slot, "IDLE")
      [] /\ \/ slot.state = "PRESSED" /\ ~HeldAt(slot.code, read)
            \/ slot.state = "HOLD"
         /\ slot.code \notin read -> TransitionTo(slot, "RELEASED")
      [] OTHER -> Stay(slot)

\* Mutant of NewKey: the change is not marked.
NewKeyUnmarked(code) == [code |-> code, state |-> "PRESSED", changed |-> FALSE]
NewKey(code) == [code |-> code, state |-> "PRESSED", changed |-> TRUE]

UpdatedSlot(i, read) ==
    IF i \notin Free THEN NextKeyState(key[i], read)
    ELSE IF FoundBy(i, read) = {} THEN Empty
    ELSE NewKey(CHOOSE k \in FoundBy(i, read) : TRUE)

\* Mutant of UpdateList: the loop over the list runs one slot too far.
UpdateListBeyond(read) ==
    [i \in Slots \cup {ListMax} |-> IF i \in Slots THEN UpdatedSlot(i, read) ELSE Empty]
UpdateList(read) == [i \in Slots |-> UpdatedSlot(i, read)]

-----------------------------------------------------------------------------
(* What a scan may read: shaking contacts either way, the others as they are. *)
Readings == {read \in SUBSET KeyCodes : read \ shaking = down \ shaking}

\* Mutant of ScanDue: every call scans.
ScanAlwaysDue == TRUE
\* getKeys scans only when debounceTime has passed.
ScanDue == rested

\* getKey reports the first slot only, and only in the scan that pressed it.
Pressed(list) == list[0].changed /\ list[0].state = "PRESSED"

Scan(read) ==
    LET list == UpdateList(read)
        k == IF Pressed(list) THEN list[0].code ELSE NoKey
    IN  /\ ScanDue
        /\ key' = list
        /\ held' = (held /\ Added(read) = {})
        /\ rested' = FALSE
        /\ got' = k
        /\ seen' = shaking
        /\ due' = due \ {k}
        /\ UNCHANGED <<down, shaking>>

GetKey == \E read \in Readings : Scan(read)

GetKeyEarly ==
    /\ ~ScanDue
    /\ got' = NoKey
    /\ UNCHANGED <<key, held, rested, seen, finger>>

\* debounceTime passes: no contact shakes that long.
Rest ==
    /\ ~rested
    /\ rested' = TRUE
    /\ shaking' = shaking \ seen
    /\ seen' = {}
    /\ UNCHANGED <<key, held, got, down, due>>

HoldTimePasses ==
    /\ ~held
    /\ held' = TRUE
    /\ UNCHANGED <<key, rested, got, seen, finger>>

\* A finger stays on or off a key for longer than its contact shakes.
Press(k) ==
    /\ k \notin down \cup shaking
    /\ down' = down \cup {k}
    /\ shaking' = shaking \cup {k}
    /\ due' = due \cup {k}
    /\ UNCHANGED <<key, held, rested, got, seen>>

Release(k) ==
    /\ k \in down \ shaking
    /\ down' = down \ {k}
    /\ shaking' = shaking \cup {k}
    /\ UNCHANGED <<key, held, rested, got, seen, due>>

Next ==
    \/ GetKey
    \/ GetKeyEarly
    \/ Rest
    \/ HoldTimePasses
    \/ \E k \in KeyCodes : Press(k) \/ Release(k)

\* Every loop of the firmware polls the keypad, and time passes.
Fairness == WF_vars(GetKey) /\ WF_vars(Rest)
Spec == Init /\ [][Next]_vars /\ Fairness

-----------------------------------------------------------------------------
\* The list keeps its length and its slots their type, getKey returns a key of
\* the matrix or none, and what shook at the last scan is among what shakes.
TypeOK ==
    /\ key \in [Slots -> Slot]
    /\ held \in BOOLEAN /\ rested \in BOOLEAN
    /\ got \in KeyCodes \cup {NoKey}
    /\ down \in SUBSET KeyCodes /\ due \in SUBSET KeyCodes
    /\ shaking \in SUBSET KeyCodes /\ seen \in SUBSET shaking

\* No key is on the list twice, although keys come and go in every slot:
\* findInList would only ever move one of the two, and the other slot,
\* perhaps the first, would be taken for good.
ListedOnce ==
    \A i, j \in Slots : key[i].code = key[j].code /\ key[i].code # NoKey => i = j

\* One press, one report: whatever the contacts do while they shake, and
\* however keys overlap, getKey never returns a key that was not pressed
\* anew since it was last returned.
OncePerPress == [][GetKey => got' \in due \cup {NoKey}]_vars

\* The list empties: with no finger on the keypad every slot comes free
\* again, so that the next press finds the first one.
ListEmpties ==
    down = {} ~> down # {} \/ \A i \in Slots : key[i] = Empty

\* A key pressed alone, while the list is empty and no other contact shakes,
\* is reported if it is held, however late the loop polls.
FirstIsReported ==
    \A k \in KeyCodes :
        /\ down = {k} /\ shaking \subseteq {k} /\ k \in due
        /\ \A i \in Slots : key[i] = Empty
        ~> k \notin due \/ down # {k}

=============================================================================
