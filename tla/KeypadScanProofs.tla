--------------------------- MODULE KeypadScanProofs ---------------------------
(***************************************************************************)
(* What the keypad library keeps for every matrix of keys and every length *)
(* of the list: its type, no key listed twice, and one report per press;   *)
(* and that a key pressed alone is reported, and the list empties.         *)
(***************************************************************************)
EXTENDS KeypadScan, FiniteSetTheorems, TLAPS

LEMMA NoKeyIsNone == NoKey \notin KeyCodes
  BY KeypadAssumption DEF NoKey

LEMMA ZeroIsSlot == 0 \in Slots
  BY KeypadAssumption DEF Slots

LEMMA FreeIsFinite == IsFiniteSet(Free) /\ Free \subseteq Slots /\ Slots \subseteq Int
  <1>1. Free \subseteq Slots /\ Slots \subseteq Int
    BY KeypadAssumption DEF Free, Slots
  <1>2. IsFiniteSet(Slots)
    BY KeypadAssumption, FS_Interval DEF Slots
  <1> QED BY <1>1, <1>2, FS_Subset

\* Two members of a finite set of integers have different ranks: two free
\* slots never take the same fresh key.
LEMMA RankInjective ==
  ASSUME NEW S, IsFiniteSet(S), S \subseteq Int, NEW i \in S, NEW j \in S, i < j
  PROVE  Rank(i, S) # Rank(j, S)
  <1> DEFINE A == {y \in S : y < i}
             B == {y \in S : y < j}
  <1>1. A \subseteq B
    <2> SUFFICES ASSUME NEW y \in S, y < i PROVE y < j
      OBVIOUS
    <2> y \in Int /\ i \in Int /\ j \in Int
      OBVIOUS
    <2> QED OBVIOUS
  <1>2. i \in B /\ i \notin A
    <2> i \in Int
      OBVIOUS
    <2> QED OBVIOUS
  <1>3. IsFiniteSet(B)
    BY FS_Subset
  <1>4. A # B
    BY <1>2
  <1>5. Cardinality(A) # Cardinality(B)
    BY <1>1, <1>3, <1>4, FS_Subset
  <1> QED BY <1>5 DEF Rank

LEMMA StayFields ==
  ASSUME NEW slot \in Slot
  PROVE  /\ Stay(slot) \in Slot
         /\ Stay(slot).code = slot.code
         /\ Stay(slot).state = slot.state
         /\ Stay(slot).changed = FALSE
  BY DEF Stay, Slot

\* A listed key stays in its slot: a step changes neither code nor type, a
\* key that is read closed stays pressed or held unless it was released,
\* and no step makes a key pressed anew.
LEMMA NextKeyStateFacts ==
  ASSUME NEW slot \in Slot, NEW read
  PROVE  /\ NextKeyState(slot, read) \in Slot
         /\ NextKeyState(slot, read).code = slot.code
         /\ slot.state \in {"PRESSED", "HOLD"} /\ slot.code \in read
              => NextKeyState(slot, read).state \in {"PRESSED", "HOLD"}
         /\ NextKeyState(slot, read).state = "PRESSED"
              => NextKeyState(slot, read).changed = FALSE
    <1>0. "IDLE" \in KeyStates /\ "HOLD" \in KeyStates /\ "RELEASED" \in KeyStates
    BY DEF KeyStates
  <1>1. CASE slot.state = "PRESSED" /\ HeldAt(slot.code, read)
    <2>1. NextKeyState(slot, read) = TransitionTo(slot, "HOLD")
      BY <1>1 DEF NextKeyState
    <2>2. /\ TransitionTo(slot, "HOLD") \in Slot
          /\ TransitionTo(slot, "HOLD").code = slot.code
          /\ TransitionTo(slot, "HOLD").state = "HOLD"
      BY <1>0 DEF TransitionTo, Slot
    <2> QED BY <2>1, <2>2, <1>1
  <1>2. CASE slot.state = "RELEASED"
    <2>1. NextKeyState(slot, read) = TransitionTo(slot, "IDLE")
      BY <1>2 DEF NextKeyState
    <2>2. /\ TransitionTo(slot, "IDLE") \in Slot
          /\ TransitionTo(slot, "IDLE").code = slot.code
          /\ TransitionTo(slot, "IDLE").state = "IDLE"
      BY <1>0 DEF TransitionTo, Slot
    <2> QED BY <2>1, <2>2, <1>2
  <1>3. CASE /\ \/ slot.state = "PRESSED" /\ ~HeldAt(slot.code, read)
                \/ slot.state = "HOLD"
             /\ slot.code \notin read
    <2>1. NextKeyState(slot, read) = TransitionTo(slot, "RELEASED")
      BY <1>3 DEF NextKeyState
    <2>2. /\ TransitionTo(slot, "RELEASED") \in Slot
          /\ TransitionTo(slot, "RELEASED").code = slot.code
          /\ TransitionTo(slot, "RELEASED").state = "RELEASED"
      BY <1>0 DEF TransitionTo, Slot
    <2> QED BY <2>1, <2>2, <1>3
  <1>4. CASE /\ ~(slot.state = "PRESSED" /\ HeldAt(slot.code, read))
             /\ slot.state # "RELEASED"
             /\ ~(/\ \/ slot.state = "PRESSED" /\ ~HeldAt(slot.code, read)
                     \/ slot.state = "HOLD"
                  /\ slot.code \notin read)
    <2>1. NextKeyState(slot, read) = Stay(slot)
      BY <1>4 DEF NextKeyState
    <2> QED BY <2>1, <1>0, <1>4, StayFields
  <1> QED BY <1>1, <1>2, <1>3, <1>4

\* A free slot stays empty or takes a key that was read closed and is not
\* on the list.
LEMMA FreeSlotFacts ==
  ASSUME NEW read, read \subseteq KeyCodes, NEW i \in Free
  PROVE  \/ UpdatedSlot(i, read) = Empty
         \/ \E k \in read \ Listed : /\ k \in FoundBy(i, read)
                                     /\ UpdatedSlot(i, read) = NewKey(k)
  <1>1. CASE FoundBy(i, read) = {}
    BY <1>1 DEF UpdatedSlot
  <1>2. CASE FoundBy(i, read) # {}
    <2> DEFINE k == CHOOSE x \in FoundBy(i, read) : TRUE
    <2>1. k \in FoundBy(i, read)
      BY <1>2
    <2>2. k \in read \ Listed
      BY <2>1 DEF FoundBy, Fresh
    <2>3. UpdatedSlot(i, read) = NewKey(k)
      BY <1>2 DEF UpdatedSlot
    <2> QED BY <2>1, <2>2, <2>3
  <1> QED BY <1>1, <1>2

LEMMA EmptyTyped == Empty \in Slot /\ Empty.code = NoKey
  BY DEF Empty, Slot, KeyStates

LEMMA NewKeyTyped ==
  ASSUME NEW k \in KeyCodes
  PROVE  NewKey(k) \in Slot /\ NewKey(k).code = k /\ NewKey(k).state = "PRESSED"
  BY DEF NewKey, Slot, KeyStates

LEMMA UpdateListTyped ==
  ASSUME key \in [Slots -> Slot], NEW read, read \subseteq KeyCodes
  PROVE  UpdateList(read) \in [Slots -> Slot]
  <1> SUFFICES ASSUME NEW i \in Slots PROVE UpdatedSlot(i, read) \in Slot
    BY DEF UpdateList
  <1>1. CASE i \in Free
    BY <1>1, FreeSlotFacts, EmptyTyped, NewKeyTyped
  <1>2. CASE i \notin Free
    <2>1. UpdatedSlot(i, read) = NextKeyState(key[i], read)
      BY <1>2 DEF UpdatedSlot
    <2>2. key[i] \in Slot
      OBVIOUS
    <2> QED BY <2>1, <2>2, NextKeyStateFacts
  <1> QED BY <1>1, <1>2

-----------------------------------------------------------------------------
(* OncePerPress is not an invariant of the list alone. A key that could be *)
(* read closed without a press of its own must still be in a slot, pressed *)
(* or held, so that the scan does not take it for a fresh one; and a       *)
(* contact that still shakes after debounceTime belongs to a new press.    *)

Reporting(k) ==
  \E i \in Slots : key[i].code = k /\ key[i].state \in {"PRESSED", "HOLD"}

Accounted ==
  /\ rested => seen = {}
  /\ \A k \in KeyCodes \ due :
        /\ k \in down => k \notin shaking \ seen
        /\ k \in down \/ k \in shaking \ seen => Reporting(k)

IInv == TypeOK /\ ListedOnce /\ Accounted

LEMMA InitIInv == Init => IInv
  <1> SUFFICES ASSUME Init PROVE IInv
    OBVIOUS
  <1>1. TypeOK
    BY EmptyTyped DEF Init, TypeOK
  <1>2. ListedOnce
    BY EmptyTyped DEF Init, ListedOnce
  <1>3. Accounted
    BY DEF Init, Accounted
  <1> QED BY <1>1, <1>2, <1>3 DEF IInv

LEMMA ScanTyped ==
  ASSUME TypeOK, NEW read \in Readings, Scan(read)
  PROVE  TypeOK'
  <1>0. read \subseteq KeyCodes
    BY DEF Readings
  <1>1. key' \in [Slots -> Slot]
    BY <1>0, UpdateListTyped DEF Scan, TypeOK
  <1>2. 0 \in Slots
    BY ZeroIsSlot
  <1>3. got' \in KeyCodes \cup {NoKey}
    BY <1>0, <1>1, <1>2 DEF Scan, Slot
  <1> QED BY <1>1, <1>3 DEF Scan, TypeOK

LEMMA ScanListsOnce ==
  ASSUME TypeOK, ListedOnce, NEW read \in Readings, Scan(read)
  PROVE  ListedOnce'
  <1>0. read \subseteq KeyCodes /\ key \in [Slots -> Slot]
    BY DEF Readings, TypeOK
  <1>1. ASSUME NEW i \in Slots
        PROVE  /\ key'[i] = UpdatedSlot(i, read)
               /\ i \notin Free => key'[i].code = key[i].code /\ key[i].code \in Listed
               /\ i \in Free /\ key'[i].code # NoKey
                    => key'[i].code \in FoundBy(i, read) \ Listed
    <2>1. key'[i] = UpdatedSlot(i, read)
      BY DEF Scan, UpdateList
    <2>2. CASE i \notin Free
      <3>1. key'[i] = NextKeyState(key[i], read)
        BY <2>1, <2>2 DEF UpdatedSlot
      <3>2. key[i].code \in Listed
        BY <2>2 DEF Listed
      <3>3. key[i] \in Slot
        BY <1>0
      <3>4. key'[i].code = key[i].code
        <4>1. NextKeyState(key[i], read).code = key[i].code
          BY <3>3, NextKeyStateFacts, Zenon
        <4> QED BY <3>1, <4>1, Zenon
      <3> QED BY <2>1, <2>2, <3>2, <3>4
    <2>3. CASE i \in Free
      <3>1. CASE UpdatedSlot(i, read) = Empty
        BY <2>1, <2>3, <3>1, EmptyTyped
      <3>2. ASSUME NEW k \in read \ Listed, k \in FoundBy(i, read), UpdatedSlot(i, read) = NewKey(k)
            PROVE  key'[i].code \in FoundBy(i, read) \ Listed
        BY <1>0, <2>1, <3>2, NewKeyTyped
      <3> QED BY <1>0, <2>1, <2>3, <3>1, <3>2, FreeSlotFacts
    <2> QED BY <2>1, <2>2, <2>3
  <1>2. ASSUME NEW i \in Slots, NEW j \in Slots, i < j,
               key'[i].code = key'[j].code, key'[i].code # NoKey
        PROVE  FALSE
    <2>1. CASE i \notin Free /\ j \notin Free
      BY <1>1, <1>2, <2>1, FreeIsFinite DEF ListedOnce, Slots
    <2>2. CASE i \in Free /\ j \in Free
      <3>1. key'[i].code \in FoundBy(i, read) /\ key'[i].code \in FoundBy(j, read)
        BY <1>1, <1>2, <2>2
      <3>2. Rank(i, Free) = Rank(j, Free)
        BY <3>1 DEF FoundBy
      <3>3. Free \subseteq Int
        BY FreeIsFinite
      <3> QED BY <1>2, <2>2, <3>2, <3>3, FreeIsFinite, RankInjective
    <2>3. CASE (i \in Free /\ j \notin Free) \/ (i \notin Free /\ j \in Free)
      BY <1>1, <1>2, <2>3
    <2> QED BY <2>1, <2>2, <2>3
  <1>3. \A i, j \in Slots : i < j \/ j < i \/ i = j
    BY KeypadAssumption DEF Slots
  <1> QED BY <1>2, <1>3 DEF ListedOnce

LEMMA ScanAccounts ==
  ASSUME TypeOK, Accounted, NEW read \in Readings, Scan(read)
  PROVE  Accounted'
  <1>0. read \subseteq KeyCodes /\ key \in [Slots -> Slot] /\ read \ shaking = down \ shaking
    BY DEF Readings, TypeOK
  <1>1. seen = {} /\ ~rested' /\ shaking' \ seen' = {} /\ down' = down
    BY DEF Scan, ScanDue, Accounted
  <1>2. ASSUME NEW k \in KeyCodes \ due', k \in down
        PROVE  Reporting(k)'
    <2>1. CASE k \in due
      <3>1. Pressed(key') /\ key'[0].code = k
        BY <1>2, <2>1, NoKeyIsNone DEF Scan
      <3> QED BY <3>1, ZeroIsSlot DEF Pressed, Reporting
    <2>2. CASE k \notin due
      <3>1. k \in read
        BY <1>0, <1>1, <1>2, <2>2 DEF Accounted
      <3>2. PICK i \in Slots : key[i].code = k /\ key[i].state \in {"PRESSED", "HOLD"}
        BY <1>2, <2>2 DEF Accounted, Reporting
      <3>3. key'[i] = NextKeyState(key[i], read)
        <4>1. key'[i] = UpdatedSlot(i, read)
          BY DEF Scan, UpdateList
        <4>2. i \notin Free
          BY <3>2 DEF Free
        <4> QED BY <4>1, <4>2 DEF UpdatedSlot
      <3>4. key'[i].code = k /\ key'[i].state \in {"PRESSED", "HOLD"}
        <4>1. key[i] \in Slot
          BY <1>0
        <4>2. /\ NextKeyState(key[i], read).code = key[i].code
              /\ NextKeyState(key[i], read).state \in {"PRESSED", "HOLD"}
          BY <3>1, <3>2, <4>1, NextKeyStateFacts, Zenon
        <4> QED BY <3>2, <3>3, <4>2, Zenon
      <3> QED BY <3>4 DEF Reporting
    <2> QED BY <2>1, <2>2
  <1> QED BY <1>1, <1>2 DEF Accounted

LEMMA NextIInv == IInv /\ [Next]_vars => IInv'
  <1> SUFFICES ASSUME IInv, [Next]_vars PROVE IInv'
    OBVIOUS
  <1> USE DEF IInv
  <1>1. CASE GetKey
    BY <1>1, ScanTyped, ScanListsOnce, ScanAccounts DEF GetKey
  <1>2. CASE GetKeyEarly
    BY <1>2 DEF GetKeyEarly, finger, TypeOK, ListedOnce, Accounted, Reporting
  <1>3. CASE Rest
    BY <1>3 DEF Rest, TypeOK, ListedOnce, Accounted, Reporting
  <1>4. CASE HoldTimePasses
    BY <1>4 DEF HoldTimePasses, finger, TypeOK, ListedOnce, Accounted, Reporting
  <1>5. ASSUME NEW k \in KeyCodes, Press(k) PROVE IInv'
    BY <1>5 DEF Press, TypeOK, ListedOnce, Accounted, Reporting
  <1>6. ASSUME NEW k \in KeyCodes, Release(k) PROVE IInv'
    BY <1>6 DEF Release, TypeOK, ListedOnce, Accounted, Reporting
  <1>7. CASE UNCHANGED vars
    BY <1>7 DEF vars, TypeOK, ListedOnce, Accounted, Reporting
  <1> QED BY <1>1, <1>2, <1>3, <1>4, <1>5, <1>6, <1>7 DEF Next

LEMMA ReportWasDue ==
  ASSUME IInv, GetKey
  PROVE  got' \in due \cup {NoKey}
  <1> USE DEF IInv
  <1>0. PICK read \in Readings : Scan(read)
    BY DEF GetKey
  <1>1. SUFFICES ASSUME Pressed(key') PROVE key'[0].code \in due
    BY <1>0 DEF Scan
  <1>2. read \subseteq KeyCodes /\ key \in [Slots -> Slot] /\ seen = {}
    <2>1. read \subseteq KeyCodes /\ key \in [Slots -> Slot]
      BY DEF Readings, TypeOK
    <2>2. seen = {}
      BY <1>0 DEF Scan, ScanDue, Accounted
    <2> QED BY <2>1, <2>2
  <1>3. key'[0] = UpdatedSlot(0, read)
    BY <1>0, ZeroIsSlot DEF Scan, UpdateList
  <1>4. 0 \in Free
    <2> SUFFICES ASSUME 0 \notin Free PROVE FALSE
      OBVIOUS
    <2>1. key'[0] = NextKeyState(key[0], read)
      BY <1>3 DEF UpdatedSlot
    <2>2. key[0] \in Slot
      BY <1>2, ZeroIsSlot
    <2>3. key'[0].changed = FALSE
      <3>1. key'[0].state = "PRESSED"
        BY <1>1, Zenon DEF Pressed
      <3> QED BY <2>1, <2>2, <3>1, NextKeyStateFacts, Zenon
    <2>4. key'[0].changed
      BY <1>1, Zenon DEF Pressed
    <2> QED BY <2>3, <2>4, Zenon
  <1>5. PICK k \in read \ Listed : key'[0] = NewKey(k)
    BY <1>1, <1>2, <1>3, <1>4, FreeSlotFacts DEF Pressed, Empty
  <1>6. k \in down \/ k \in shaking \ seen
    BY <1>0, <1>2 DEF Readings
  <1>7. ~Reporting(k)
    BY <1>5 DEF Reporting, Listed, Free
  <1>8. k \in due
    BY <1>2, <1>6, <1>7 DEF Accounted
  <1> QED BY <1>2, <1>5, <1>8, NewKeyTyped

\* The strengthened invariant holds for every matrix and every list length.
THEOREM KeypadInvariant == Spec => []IInv
  BY InitIInv, NextIInv, PTL DEF Spec

\* The list keeps its length and its slots their type.
THEOREM KeypadTyped == Spec => []TypeOK
  <1>1. IInv => TypeOK
    BY DEF IInv
  <1> QED BY <1>1, KeypadInvariant, PTL

\* No key of the matrix is ever in two slots of the list.
THEOREM KeypadListedOnce == Spec => []ListedOnce
  <1>1. IInv => ListedOnce
    BY DEF IInv
  <1> QED BY <1>1, KeypadInvariant, PTL

\* However the contacts shake and the keys overlap, no press is reported twice.
THEOREM KeypadOncePerPress == Spec => OncePerPress
  <1>1. IInv => [GetKey => got' \in due \cup {NoKey}]_vars
    BY ReportWasDue
  <1> QED BY <1>1, KeypadInvariant, PTL DEF OncePerPress

-----------------------------------------------------------------------------
(* What the polling brings about. The prover does not reason about         *)
(* ENABLED, so the fairness of Spec is written out: a scan can be made as  *)
(* soon as debounceTime has passed, and until then that can pass.          *)

Safe == Init /\ [][Next]_vars
ScansMade == []<>~rested \/ []<><<GetKey>>_vars
RestPasses == []<>rested \/ []<><<Rest>>_vars

LEMMA SafeInvariant == Safe => []IInv
  BY InitIInv, NextIInv, PTL DEF Safe

ListEmpty == \A i \in Slots : key[i] = Empty

LEMMA EmptyIsFree ==
  ASSUME ListEmpty PROVE Free = Slots /\ Listed = {}
  BY DEF ListEmpty, Free, Listed, Empty

\* A scan that reads no key closed takes every slot one step on.
LEMMA ScanOfNothing ==
  ASSUME TypeOK, Scan({})
  PROVE  \A i \in Slots : IF i \in Free THEN key'[i] = Empty
                          ELSE key'[i] = NextKeyState(key[i], {})
  <1>1. \A i \in Slots : key'[i] = UpdatedSlot(i, {})
    BY DEF Scan, UpdateList
  <1>2. \A i \in Slots : FoundBy(i, {}) = {}
    BY DEF FoundBy, Fresh
  <1> QED BY <1>1, <1>2 DEF UpdatedSlot

-----------------------------------------------------------------------------
(* FirstIsReported: as long as the one key is not reported, its contact    *)
(* shakes for one scan more at the most.                                   *)

\* The key is down alone and due, and the list is empty.
Alone(k) ==
  /\ down = {k} /\ shaking \subseteq {k} /\ k \in due
  /\ \A i \in Slots : key[i] = Empty
Answered(k) == k \notin due \/ down # {k}

\* A scan of a key that is pressed alone reports it if it reads it closed.
LEMMA ScanOfFirst ==
  ASSUME TypeOK, NEW k \in KeyCodes, Alone(k), NEW read \in Readings, Scan(read)
  PROVE  \/ Answered(k)'
         \/ Alone(k)' /\ shaking = {k} /\ UNCHANGED shaking /\ seen' = shaking /\ ~rested'
  <1>1. Free = Slots /\ Listed = {} /\ 0 \in Slots
    BY EmptyIsFree, ZeroIsSlot DEF Alone, ListEmpty
  <1>2. read \subseteq {k} /\ (k \notin shaking => k \in read)
    BY DEF Readings, Alone
  <1>3. CASE read = {k}
    <2>1. Fresh(read) = {k}
      BY <1>1, <1>3 DEF Fresh
    <2>2. Rank(k, Fresh(read)) = 0 /\ Rank(0, Free) = 0
      <3>1. KeyCodes \subseteq Nat
        BY KeypadAssumption
      <3>2. {y \in Fresh(read) : y < k} = {} /\ {y \in Free : y < 0} = {}
        BY <1>1, <2>1, <3>1 DEF Slots
      <3> QED BY <3>2, FS_EmptySet DEF Rank
    <2>3. FoundBy(0, read) = {k}
      BY <2>1, <2>2 DEF FoundBy
    <2>4. key'[0] = NewKey(k)
      BY <1>1, <2>3 DEF Scan, UpdateList, UpdatedSlot
    <2>5. Pressed(key') /\ key'[0].code = k
      <3>1. key'[0].changed /\ key'[0].state = "PRESSED" /\ key'[0].code = k
        BY <2>4 DEF NewKey
      <3> QED BY <3>1, Zenon DEF Pressed
    <2>6. due' = due \ {k}
      BY <2>5 DEF Scan
    <2> QED BY <2>6 DEF Answered
  <1>4. CASE read = {}
    <2>1. \A i \in Slots : key'[i] = Empty
      BY <1>1, <1>4, ScanOfNothing
    <2>2. ~Pressed(key')
      BY <1>1, <2>1 DEF Pressed, Empty
    <2>3. due' = due \ {NoKey} /\ down' = down /\ shaking' = shaking /\ seen' = shaking /\ ~rested'
      BY <2>2 DEF Scan
    <2> QED BY <1>2, <1>4, <2>1, <2>3, NoKeyIsNone DEF Alone
  <1> QED BY <1>2, <1>3, <1>4

\* Until it is reported the key stays alone.
LEMMA AloneStays ==
  ASSUME IInv, NEW k \in KeyCodes, Alone(k), [Next]_vars, ~GetKey, ~Answered(k)'
  PROVE  /\ Alone(k)'
         /\ \/ UNCHANGED <<rested, shaking, seen>>
            \/ ~rested /\ rested' /\ shaking' = shaking \ seen /\ seen' = {}
  <1>1. CASE GetKeyEarly
    BY <1>1 DEF GetKeyEarly, finger, Alone
  <1>2. CASE Rest
    BY <1>2 DEF Rest, Alone
  <1>3. CASE HoldTimePasses
    BY <1>3 DEF HoldTimePasses, finger, Alone
  <1>4. ASSUME NEW j \in KeyCodes, Press(j) PROVE FALSE
    BY <1>4 DEF Press, Alone, Answered
  <1>5. ASSUME NEW j \in KeyCodes, Release(j) PROVE FALSE
    BY <1>5 DEF Release, Alone, Answered
  <1>6. CASE UNCHANGED vars
    BY <1>6 DEF vars, Alone
  <1> QED BY <1>1, <1>2, <1>3, <1>4, <1>5, <1>6 DEF Next

\* A key pressed alone is reported if it is held, for every matrix and every
\* length of the list.
THEOREM KeypadFirstIsReported == Safe /\ ScansMade /\ RestPasses => FirstIsReported
  <1> SUFFICES ASSUME NEW k \in KeyCodes
               PROVE  Safe /\ ScansMade /\ RestPasses => (Alone(k) ~> Answered(k))
    BY DEF FirstIsReported, Alone, Answered
  <1> DEFINE Shakes == Alone(k) /\ k \in shaking
             ShakesUnseen == Shakes /\ ~rested /\ k \notin seen
             ShakesRested == Shakes /\ rested
             ShakesSeen == Shakes /\ ~rested /\ k \in seen
             Still == Alone(k) /\ k \notin shaking
             StillUnrested == Still /\ ~rested
             StillRested == Still /\ rested
  <1>1. Alone(k) => ShakesUnseen \/ ShakesRested \/ ShakesSeen \/ StillUnrested \/ StillRested
    OBVIOUS
  <1>2. IInv /\ ShakesUnseen /\ [Next]_vars => (ShakesUnseen \/ ShakesRested \/ Answered(k))'
        /\ (Rest => ~ShakesUnseen')
    <2> SUFFICES ASSUME IInv, ShakesUnseen, [Next]_vars
                 PROVE  (ShakesUnseen \/ ShakesRested \/ Answered(k))' /\ (Rest => ~ShakesUnseen')
      OBVIOUS
    <2>1. ~GetKey
      BY DEF GetKey, Scan, ScanDue
    <2> QED BY <2>1, AloneStays DEF Rest
  <1>3. IInv /\ ShakesSeen /\ [Next]_vars => (ShakesSeen \/ StillRested \/ Answered(k))'
        /\ (Rest => ~ShakesSeen')
    <2> SUFFICES ASSUME IInv, ShakesSeen, [Next]_vars
                 PROVE  (ShakesSeen \/ StillRested \/ Answered(k))' /\ (Rest => ~ShakesSeen')
      OBVIOUS
    <2>1. ~GetKey
      BY DEF GetKey, Scan, ScanDue
    <2> QED BY <2>1, AloneStays DEF Rest
  <1>4. IInv /\ StillUnrested /\ [Next]_vars => (StillUnrested \/ StillRested \/ Answered(k))'
        /\ (Rest => ~StillUnrested')
    <2> SUFFICES ASSUME IInv, StillUnrested, [Next]_vars
                 PROVE  (StillUnrested \/ StillRested \/ Answered(k))' /\ (Rest => ~StillUnrested')
      OBVIOUS
    <2>1. ~GetKey
      BY DEF GetKey, Scan, ScanDue
    <2> QED BY <2>1, AloneStays DEF Rest
  <1>5. IInv /\ ShakesRested /\ [Next]_vars => (ShakesRested \/ ShakesSeen \/ Answered(k))'
        /\ (GetKey => ~ShakesRested')
    <2> SUFFICES ASSUME IInv, ShakesRested, [Next]_vars
                 PROVE  (ShakesRested \/ ShakesSeen \/ Answered(k))' /\ (GetKey => ~ShakesRested')
      OBVIOUS
    <2>1. CASE GetKey
      <3>1. PICK read \in Readings : Scan(read)
        BY <2>1 DEF GetKey
      <3>2. TypeOK /\ ~rested'
        BY <3>1 DEF IInv, Scan
      <3> QED BY <3>1, <3>2, ScanOfFirst
    <2>2. CASE ~GetKey
      BY <2>2, AloneStays
    <2> QED BY <2>1, <2>2
  <1>6. IInv /\ StillRested /\ [Next]_vars => (StillRested \/ Answered(k))'
        /\ (GetKey => ~StillRested')
    <2> SUFFICES ASSUME IInv, StillRested, [Next]_vars
                 PROVE  (StillRested \/ Answered(k))' /\ (GetKey => ~StillRested')
      OBVIOUS
    <2>1. CASE GetKey
      <3>1. PICK read \in Readings : Scan(read)
        BY <2>1 DEF GetKey
      <3>2. TypeOK /\ ~rested'
        BY <3>1 DEF IInv, Scan
      <3> QED BY <3>1, <3>2, ScanOfFirst
    <2>2. CASE ~GetKey
      BY <2>2, AloneStays
    <2> QED BY <2>1, <2>2
  <1>7. /\ ShakesUnseen \/ ShakesSeen \/ StillUnrested => ~rested
        /\ ShakesRested \/ StillRested => rested
    OBVIOUS
  <1>9. Safe => []IInv
    BY SafeInvariant
  <1> HIDE DEF Shakes, ShakesUnseen, ShakesRested, ShakesSeen, Still, StillUnrested, StillRested
  <1>10. Safe /\ ScansMade /\ RestPasses => (StillRested ~> Answered(k))
    BY <1>6, <1>7, <1>9, PTL DEF Safe, ScansMade, RestPasses
  <1>11. Safe /\ ScansMade /\ RestPasses => (StillUnrested ~> StillRested \/ Answered(k))
    BY <1>4, <1>7, <1>9, PTL DEF Safe, ScansMade, RestPasses
  <1>12. Safe /\ ScansMade /\ RestPasses => (ShakesSeen ~> StillRested \/ Answered(k))
    BY <1>3, <1>7, <1>9, PTL DEF Safe, ScansMade, RestPasses
  <1>13. Safe /\ ScansMade /\ RestPasses => (ShakesRested ~> ShakesSeen \/ Answered(k))
    BY <1>5, <1>7, <1>9, PTL DEF Safe, ScansMade, RestPasses
  <1>14. Safe /\ ScansMade /\ RestPasses => (ShakesUnseen ~> ShakesRested \/ Answered(k))
    BY <1>2, <1>7, <1>9, PTL DEF Safe, ScansMade, RestPasses
  <1> QED BY <1>1, <1>10, <1>11, <1>12, <1>13, <1>14, PTL

-----------------------------------------------------------------------------
(* ListEmpties: with no finger on a key the contacts come to rest; then    *)
(* every scan takes every slot one step closer to IDLE, all of them at a   *)
(* time.                                                                   *)

Untouched == down = {}
Resting == Untouched /\ shaking = {}
\* Every slot is one of S.
Within(S) == Resting /\ \A i \in Slots : key[i] \in S
InStates(A) == {slot \in Slot : slot.state \in A}
Emptied == down # {} \/ \A i \in Slots : key[i] = Empty

\* Where a scan that reads no key closed leads.
After(state) == CASE state = "PRESSED" -> {"HOLD", "RELEASED"}
                  [] state = "HOLD" -> {"RELEASED"}
                  [] OTHER -> {"IDLE"}

LEMMA NextStateOfOpen ==
  ASSUME NEW slot \in Slot
  PROVE  NextKeyState(slot, {}).state \in After(slot.state)
  <1>1. CASE slot.state = "PRESSED" /\ HeldAt(slot.code, {})
    BY <1>1 DEF NextKeyState, TransitionTo, After
  <1>2. CASE slot.state = "PRESSED" /\ ~HeldAt(slot.code, {})
    BY <1>2 DEF NextKeyState, TransitionTo, After
  <1>3. CASE slot.state = "RELEASED"
    BY <1>3 DEF NextKeyState, TransitionTo, After
  <1>4. CASE slot.state = "HOLD"
    BY <1>4 DEF NextKeyState, TransitionTo, After
  <1>5. CASE slot.state = "IDLE"
    <2>1. NextKeyState(slot, {}) = Stay(slot)
      BY <1>5 DEF NextKeyState
    <2> QED BY <1>5, <2>1, StayFields DEF After
  <1> QED BY <1>1, <1>2, <1>3, <1>4, <1>5 DEF Slot, KeyStates

\* Between two scans the list stays, and without fingers the contacts rest.
LEMMA UntouchedStays ==
  ASSUME IInv, Untouched, [Next]_vars, Untouched'
  PROVE  /\ shaking' \subseteq shaking
         /\ ~GetKey => UNCHANGED key
         /\ ~GetKey => \/ UNCHANGED <<rested, shaking, seen>>
                       \/ ~rested /\ rested' /\ shaking' = shaking \ seen /\ seen' = {}
         /\ GetKey => rested /\ ~rested' /\ UNCHANGED shaking /\ seen' = shaking
  <1>1. CASE GetKey
    BY <1>1 DEF GetKey, Scan, ScanDue
  <1>2. CASE GetKeyEarly
    BY <1>2 DEF GetKeyEarly, GetKey, Scan, finger
  <1>3. CASE Rest
    BY <1>3 DEF Rest, GetKey, Scan, ScanDue
  <1>4. CASE HoldTimePasses
    BY <1>4 DEF HoldTimePasses, GetKey, Scan, finger
  <1>5. ASSUME NEW j \in KeyCodes, Press(j) PROVE FALSE
    BY <1>5 DEF Press, Untouched
  <1>6. ASSUME NEW j \in KeyCodes, Release(j) PROVE FALSE
    BY <1>6 DEF Release, Untouched
  <1>7. CASE UNCHANGED vars
    BY <1>7 DEF vars, GetKey, Scan, ScanDue
  <1> QED BY <1>1, <1>2, <1>3, <1>4, <1>5, <1>6, <1>7 DEF Next

\* A scan without fingers and shaking contacts reads no key closed.
LEMMA RestingScan ==
  ASSUME TypeOK, Resting, GetKey PROVE Scan({})
  <1>1. PICK read \in Readings : Scan(read)
    BY DEF GetKey
  <1>2. read = {}
    BY DEF Readings, Resting, Untouched
  <1> QED BY <1>1, <1>2

\* One scan takes all slots from S to T.
LEMMA OneScan ==
  ASSUME NEW S, NEW T, Empty \in T,
         \A s \in S \cap Slot : s.state # "IDLE" => InStates(After(s.state)) \subseteq T
  PROVE  /\ IInv /\ Within(S) /\ ~rested /\ [Next]_vars =>
              (Within(S)' /\ (Rest => rested')) \/ Emptied'
         /\ IInv /\ Within(S) /\ rested /\ [Next]_vars =>
              (Within(S)' /\ rested' /\ ~GetKey) \/ Within(T)' \/ Emptied'
  <1>1. IInv /\ Within(S) /\ GetKey => Within(T)' \/ Emptied'
    <2> SUFFICES ASSUME IInv, Within(S), GetKey, Untouched' PROVE Within(T)'
      BY DEF Emptied, Untouched
    <2>1. Resting'
      BY UntouchedStays DEF Within, Resting, Next
    <2>2. \A i \in Slots : IF i \in Free THEN key'[i] = Empty
                           ELSE key'[i] = NextKeyState(key[i], {})
      BY RestingScan, ScanOfNothing DEF Within, IInv
    <2>3. ASSUME NEW i \in Slots PROVE key'[i] \in T
      <3>1. key[i] \in Slot /\ key[i] \in S
        BY DEF IInv, TypeOK, Within
      <3>2. CASE i \in Free
        BY <2>2, <3>2
      <3>3. CASE i \notin Free
        <4>1. NextKeyState(key[i], {}) \in InStates(After(key[i].state))
          BY <3>1, NextStateOfOpen, NextKeyStateFacts DEF InStates
        <4> QED BY <2>2, <3>1, <3>3, <4>1 DEF Free
      <3> QED BY <3>2, <3>3
    <2> QED BY <2>1, <2>3 DEF Within
  <1>2. ASSUME IInv, Within(S), ~rested, [Next]_vars, Untouched'
        PROVE  Within(S)' /\ (Rest => rested')
    <2>1. ~GetKey
      BY <1>2 DEF GetKey, Scan, ScanDue
    <2>2. Resting' /\ UNCHANGED key
      BY <1>2, <2>1, UntouchedStays DEF Within, Resting
    <2> QED BY <1>2, <2>2 DEF Within, Rest
  <1>3. ASSUME IInv, Within(S), rested, [Next]_vars, Untouched', ~GetKey
        PROVE  Within(S)' /\ rested'
    <2>1. Resting' /\ UNCHANGED <<key, rested>>
      BY <1>3, UntouchedStays DEF Within, Resting
    <2> QED BY <1>3, <2>1 DEF Within
  <1> QED BY <1>1, <1>2, <1>3 DEF Emptied, Untouched

\* With no finger on the keypad every slot comes free again, for every matrix
\* and every length of the list.
THEOREM KeypadListEmpties == Safe /\ ScansMade /\ RestPasses => ListEmpties
  <1> DEFINE L4 == InStates(KeyStates)
             L3 == InStates({"HOLD", "RELEASED", "IDLE"})
             L2 == InStates({"RELEASED", "IDLE"})
             L1 == InStates({"IDLE"})
             Before == Untouched /\ ~rested
             First == Untouched /\ rested
             Second == Untouched /\ ~rested /\ seen = shaking
  <1>1. /\ Untouched => Before \/ First
        /\ Before \/ Second => ~rested
        /\ First => rested
    OBVIOUS
  <1>2. IInv /\ Before /\ [Next]_vars => (Before \/ First \/ Emptied)' /\ (Rest => ~Before')
    BY DEF Rest, Untouched, Emptied
  <1>3. IInv /\ First /\ [Next]_vars => (First \/ Second \/ Emptied)' /\ (GetKey => ~First')
    <2> SUFFICES ASSUME IInv, First, [Next]_vars, Untouched'
                 PROVE  (First \/ Second)' /\ (GetKey => ~First')
      BY DEF Untouched, Emptied, GetKey, Scan
    <2> QED BY UntouchedStays
  <1>4. IInv /\ Second /\ [Next]_vars => (Second \/ Within(L4) \/ Emptied)' /\ (Rest => ~Second')
    <2> SUFFICES ASSUME IInv, Second, [Next]_vars, Untouched'
                 PROVE  (Second \/ Within(L4))' /\ (Rest => ~Second')
      BY DEF Untouched, Emptied, Rest
    <2>1. ~GetKey
      BY DEF GetKey, Scan, ScanDue
    <2>2. \A i \in Slots : key[i] \in L4
      BY DEF IInv, TypeOK, InStates, Slot
    <2> QED BY <2>1, <2>2, UntouchedStays DEF Within, Resting, Rest
  <1>5. Empty \in L3 /\ Empty \in L2 /\ Empty \in L1
    BY EmptyTyped DEF Empty, InStates
  <1>6. /\ \A s \in L4 \cap Slot : s.state # "IDLE" => InStates(After(s.state)) \subseteq L3
        /\ \A s \in L3 \cap Slot : s.state # "IDLE" => InStates(After(s.state)) \subseteq L2
        /\ \A s \in L2 \cap Slot : s.state # "IDLE" => InStates(After(s.state)) \subseteq L1
        /\ \A s \in L1 \cap Slot : s.state # "IDLE" => InStates(After(s.state)) \subseteq {Empty}
    BY DEF InStates, After, KeyStates
  <1>8. Safe => []IInv
    BY SafeInvariant
  <1>9. Within({Empty}) => Emptied
    BY DEF Within, Emptied
  <1>10. ListEmpties <=> (Untouched ~> Emptied)
    BY DEF ListEmpties, Untouched, Emptied
  <1> HIDE DEF L4, L3, L2, L1, Before, First, Second
  <1>11. Safe /\ ScansMade /\ RestPasses => (Before ~> First \/ Emptied)
    BY <1>1, <1>2, <1>8, PTL DEF Safe, ScansMade, RestPasses
  <1>12. Safe /\ ScansMade /\ RestPasses => (First ~> Second \/ Emptied)
    BY <1>1, <1>3, <1>8, PTL DEF Safe, ScansMade, RestPasses
  <1>13. Safe /\ ScansMade /\ RestPasses => (Second ~> Within(L4) \/ Emptied)
    BY <1>1, <1>4, <1>8, PTL DEF Safe, ScansMade, RestPasses
  <1>14. Safe /\ ScansMade /\ RestPasses => (Within(L4) ~> Within(L3) \/ Emptied)
    <2>1. /\ IInv /\ Within(L4) /\ ~rested /\ [Next]_vars =>
               (Within(L4)' /\ (Rest => rested')) \/ Emptied'
          /\ IInv /\ Within(L4) /\ rested /\ [Next]_vars =>
               (Within(L4)' /\ rested' /\ ~GetKey) \/ Within(L3)' \/ Emptied'
      BY <1>5, <1>6, OneScan
    <2> QED BY <1>8, <2>1, PTL DEF Safe, ScansMade, RestPasses
  <1>15. Safe /\ ScansMade /\ RestPasses => (Within(L3) ~> Within(L2) \/ Emptied)
    <2>1. /\ IInv /\ Within(L3) /\ ~rested /\ [Next]_vars =>
               (Within(L3)' /\ (Rest => rested')) \/ Emptied'
          /\ IInv /\ Within(L3) /\ rested /\ [Next]_vars =>
               (Within(L3)' /\ rested' /\ ~GetKey) \/ Within(L2)' \/ Emptied'
      BY <1>5, <1>6, OneScan
    <2> QED BY <1>8, <2>1, PTL DEF Safe, ScansMade, RestPasses
  <1>16. Safe /\ ScansMade /\ RestPasses => (Within(L2) ~> Within(L1) \/ Emptied)
    <2>1. /\ IInv /\ Within(L2) /\ ~rested /\ [Next]_vars =>
               (Within(L2)' /\ (Rest => rested')) \/ Emptied'
          /\ IInv /\ Within(L2) /\ rested /\ [Next]_vars =>
               (Within(L2)' /\ rested' /\ ~GetKey) \/ Within(L1)' \/ Emptied'
      BY <1>5, <1>6, OneScan
    <2> QED BY <1>8, <2>1, PTL DEF Safe, ScansMade, RestPasses
  <1>17. Safe /\ ScansMade /\ RestPasses => (Within(L1) ~> Within({Empty}) \/ Emptied)
    <2>1. /\ IInv /\ Within(L1) /\ ~rested /\ [Next]_vars =>
               (Within(L1)' /\ (Rest => rested')) \/ Emptied'
          /\ IInv /\ Within(L1) /\ rested /\ [Next]_vars =>
               (Within(L1)' /\ rested' /\ ~GetKey) \/ Within({Empty})' \/ Emptied'
      BY <1>6, OneScan
    <2> QED BY <1>8, <2>1, PTL DEF Safe, ScansMade, RestPasses
  <1> QED BY <1>1, <1>9, <1>10, <1>11, <1>12, <1>13, <1>14, <1>15, <1>16, <1>17, PTL
=============================================================================
