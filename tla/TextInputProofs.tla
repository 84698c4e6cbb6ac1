--------------------------- MODULE TextInputProofs ---------------------------
(***************************************************************************)
(* Proofs about TextInput, for every table of rows and every bound.        *)
(*                                                                         *)
(* CycleHasTarget is what makes inputText[inputText.length() - 1] a legal  *)
(* index.  With the types it is inductive: a digit is the last key only    *)
(* after a step that wrote the last character, and every key that shortens *)
(* or leaves the text stores itself as the last key.                       *)
(*                                                                         *)
(* The last part shows that the prompt implements TextEditor: the pending  *)
(* character is the last one, while its key may still be cycled.           *)
(***************************************************************************)
EXTENDS TextInput, SequenceTheorems, TLAPS

IInv == TypeOK /\ CycleHasTarget

\* Every position of a cycle is a cell of the table.
LEMMA CharType ==
  ASSUME NEW d \in Digits, NEW i \in 0..CharCount(d) - 1, NEW u \in BOOLEAN
  PROVE  Char(d, i, u) \in Chars
<1>1. RowWidth \in Nat \ {0} /\ RowSize[d] \in 1..RowWidth
  BY RowAssumption
<1>2. CharCount(d) \in Nat \ {0}
  BY RowAssumption DEF CharCount, Full, Digits
<1>3. (IF i < RowWidth THEN d ELSE d + 1) \in Digits
  <2>1. CASE Full(d)
    BY <2>1, RowAssumption DEF Digits
  <2>2. CASE ~Full(d)
    BY <2>2, <1>1, <1>2 DEF CharCount
  <2> QED
    BY <2>1, <2>2
<1>4. i % RowWidth \in 0..RowWidth - 1
  BY <1>1, <1>2
<1>5. (u /\ i % RowWidth # 0) \in BOOLEAN
  OBVIOUS
<1> QED
  BY <1>3, <1>4, <1>5 DEF Char, Chars

\* A cycle has at least one position, so keyIndex + 1 can be reduced by it.
LEMMA CycleType ==
  ASSUME NEW d \in Digits
  PROVE  /\ CharCount(d) \in Nat \ {0}
         /\ \A k \in Nat : (k + 1) % CharCount(d) \in 0..CharCount(d) - 1
<1>1. CharCount(d) \in Nat \ {0}
  BY RowAssumption DEF CharCount, Full, Digits
<1> QED
  BY <1>1

LEMMA InitIInv == Init => IInv
<1> SUFFICES ASSUME Init PROVE IInv
  OBVIOUS
<1>1. None \notin Typed
  BY TypedAssumption DEF None, Digits
<1>2. prompting \in BOOLEAN /\ uppercase \in BOOLEAN
  BY Zenon DEF Init
<1>3. TypeOK
  BY <1>1, <1>2, MaxTextAssumption DEF Init, TypeOK
<1> QED
  BY <1>1, <1>3 DEF Init, IInv, CycleHasTarget

\* None of the other keys is a digit.
LEMMA OtherKeys == None \notin Typed /\ Star \notin Typed /\ Hash \notin Typed
                   /\ LetterKey \notin Typed
BY TypedAssumption DEF None, Star, Hash, LetterKey, Digits

LEMMA NextIInv == IInv /\ [Next]_vars => IInv'
<1> SUFFICES ASSUME IInv, [Next]_vars PROVE IInv'
  OBVIOUS
<1> USE DEF IInv, TypeOK, CycleHasTarget
<1>1. CASE Open
  BY <1>1, OtherKeys, MaxTextAssumption DEF Open
<1>2. ASSUME NEW d \in Typed, NextChar(d) PROVE IInv'
  <2> DEFINE n == Len(inputText)
             k == (keyIndex + 1) % CharCount(d)
  <2>1. d \in Digits
    BY TypedAssumption
  <2>2. n \in Nat \ {0} /\ inputText \in Seq(Chars) /\ lastKey = d
    BY <1>2 DEF NextChar
  <2>3. k \in 0..CharCount(d) - 1 /\ CharCount(d) \in Nat
    BY <2>1, CycleType
  <2>4. Char(d, k, uppercase) \in Chars
    BY <2>1, <2>3, CharType
  <2>5. keyIndex' = k /\ inputText' = [inputText EXCEPT ![n] = Char(d, k, uppercase)]
    BY <1>2 DEF NextChar
  <2>6. /\ inputText' \in Seq(Chars) /\ Len(inputText') = n
        /\ Last(inputText') = Char(d, k, uppercase)
    <3> HIDE DEF k
    <3> QED
      BY <2>2, <2>4, <2>5 DEF Last
  <2>7. UNCHANGED <<prompting, uppercase, lastKey, answer>>
    BY <1>2 DEF NextChar
  <2>8. TypeOK'
    <3> HIDE DEF k, n
    <3> QED
      BY <2>2, <2>3, <2>5, <2>6, <2>7 DEF n
  <2>9. CycleHasTarget'
    <3>1. inputText' # <<>>
      BY <2>2, <2>6
    <3>2. uppercase \in BOOLEAN
      BY DEF TypeOK
    <3>3. Last(inputText') = Char(lastKey', keyIndex', uppercase)
      BY <2>2, <2>5, <2>6, <2>7
    <3> QED
      BY <3>1, <3>2, <3>3
  <2> QED
    BY <2>8, <2>9
<1>3. ASSUME NEW d \in Typed, NewChar(d) PROVE IInv'
  <2>1. d \in Digits
    BY TypedAssumption
  <2>2. 0 \in 0..CharCount(d) - 1 /\ 0 < CharCount(d)
    BY <2>1, CycleType
  <2>3. Char(d, 0, uppercase) \in Chars
    BY <2>1, <2>2, CharType
  <2>4. inputText' = Append(inputText, Char(d, 0, uppercase))
    BY <1>3 DEF NewChar
  <2>5. /\ inputText' \in Seq(Chars) /\ Len(inputText') <= MaxText
        /\ inputText' # <<>> /\ Last(inputText') = Char(d, 0, uppercase)
    BY <1>3, <2>3, <2>4, MaxTextAssumption DEF NewChar, Last
  <2>6. /\ keyIndex' = 0 /\ lastKey' = d
        /\ UNCHANGED <<prompting, uppercase, answer>>
    BY <1>3 DEF NewChar
  <2>7. TypeOK'
    BY ONLY TypeOK, d \in Typed, <2>2, <2>5, <2>6 DEF TypeOK
  <2> QED
    BY <2>5, <2>6, <2>7
<1>4. CASE DeleteLast
  <2>1. inputText' \in Seq(Chars) /\ Len(inputText') <= MaxText
    BY <1>4, MaxTextAssumption DEF DeleteLast
  <2>2. /\ lastKey' = Star
        /\ UNCHANGED <<prompting, uppercase, keyIndex, answer>>
    BY <1>4 DEF DeleteLast
  <2> QED
    BY <2>1, <2>2, OtherKeys
<1>5. CASE ToggleCase
  <2>1. uppercase' \in BOOLEAN
    BY <1>5, Zenon DEF ToggleCase
  <2>2. /\ lastKey' = Hash
        /\ UNCHANGED <<prompting, inputText, keyIndex, answer>>
    BY <1>5 DEF ToggleCase
  <2> QED
    BY <2>1, <2>2, OtherKeys
<1>6. CASE Idle
  BY <1>6, OtherKeys DEF Idle
<1>7. ASSUME NEW key \in {"B", "D"}, Close(key) PROVE IInv'
  BY <1>7, ExitAssumption DEF Close
<1>8. CASE UNCHANGED vars
  BY <1>8 DEF vars
<1> QED
  BY <1>1, <1>2, <1>3, <1>4, <1>5, <1>6, <1>7, <1>8 DEF Next

\* In every reachable state of the prompt the variables have their types and a
\* key that can be cycled has the last character as its target.
THEOREM TextInputInvariant == Spec => []IInv
<1>1. Init => IInv
  BY InitIInv
<1>2. IInv /\ [Next]_vars => IInv'
  BY NextIInv
<1> QED
  BY <1>1, <1>2, PTL DEF Spec

\* The type invariant, for every table of rows.
THEOREM TextInputTyped == Spec => []TypeOK
BY TextInputInvariant, PTL DEF IInv

\* The index of the character that a repeated press replaces is legal.
THEOREM TextInputCycleHasTarget == Spec => []CycleHasTarget
BY TextInputInvariant, PTL DEF IInv

-----------------------------------------------------------------------------
(* The refinement: every step of the prompt is one of the editor, or none. *)

\* A text of which nothing is pending, and one with a pending character.
LEMMA CutNothing ==
  ASSUME NEW s \in Seq(Chars)
  PROVE  SubSeq(s, 1, Len(s) - 0) = s /\ SubSeq(s, Len(s) - 0 + 1, Len(s)) = <<>>
<1>1. Len(s) \in Nat
  BY LenProperties
<1>2. Len(s) - 0 = Len(s) /\ Len(s) + 1 \in Int /\ Len(s) < Len(s) + 1
  BY <1>1
<1>3. SubSeq(s, 1, Len(s)) = s
  BY SubSeqFull
<1>4. SubSeq(s, Len(s) + 1, Len(s)) = <<>>
  BY <1>1, <1>2, SubSeqEmpty
<1> QED
  BY <1>2, <1>3, <1>4

LEMMA CutLast ==
  ASSUME NEW s \in Seq(Chars), NEW c \in Chars
  PROVE  /\ SubSeq(Append(s, c), 1, Len(Append(s, c)) - 1) = s
         /\ SubSeq(Append(s, c), Len(Append(s, c)) - 1 + 1, Len(Append(s, c))) = <<c>>
         /\ s \o <<c>> = Append(s, c)
<1> DEFINE t == Append(s, c)
           n == Len(s)
<1>1. /\ n \in Nat /\ t \in Seq(Chars) /\ Len(t) = n + 1
      /\ \A i \in 1 .. n : t[i] = s[i]
      /\ t[n + 1] = c
  BY LenProperties, AppendProperties
<1>2. \A i \in 1 .. n + 1 : t[i] \in Chars
  BY <1>1, ElementOfSeq
<1> HIDE DEF t, n
<1>3. SubSeq(t, 1, n) = s
  <2> DEFINE u == SubSeq(t, 1, n)
  <2>1. u \in Seq(Chars) /\ Len(u) = n /\ \A i \in 1 .. n : u[i] = t[i]
    BY <1>1, <1>2, SubSeqProperties
  <2>2. \A i \in 1 .. Len(u) : u[i] = s[i]
    BY <1>1, <2>1
  <2> HIDE DEF u
  <2>3. u = s
    BY <2>1, <2>2, SeqEqual DEF n
  <2> QED
    BY <2>3 DEF u
<1>4. SubSeq(t, n + 1, n + 1) = <<c>>
  <2> DEFINE u == SubSeq(t, n + 1, n + 1)
  <2>1. u \in Seq(Chars) /\ Len(u) = 1 /\ u[1] = c
    <3>1. n + 1 \in Int /\ \A i \in n + 1 .. n + 1 : t[i] \in Chars
      BY <1>1, <1>2
    <3>2. /\ u \in Seq(Chars) /\ Len(u) = 1
          /\ \A i \in 1 .. (n + 1) - (n + 1) + 1 : u[i] = t[(n + 1) + i - 1]
      BY <1>1, <3>1, SubSeqProperties
    <3> QED
      BY <1>1, <3>2
  <2> HIDE DEF u
  <2>2. u = <<c>>
    BY <2>1
  <2> QED
    BY <2>2 DEF u
<1>5. Len(t) - 1 = n /\ Len(t) - 1 + 1 = n + 1
  BY <1>1
<1>6. s \o <<c>> = t
  BY AppendIsConcat DEF t
<1> QED
  BY <1>1, <1>3, <1>4, <1>5, <1>6 DEF t

\* What the mapping makes of the text.
SettledText == SubSeq(inputText, 1, Len(inputText) - Pending)
PendingText == SubSeq(inputText, Len(inputText) - Pending + 1, Len(inputText))

\* The text as the editor sees it before a step.
LEMMA Mapped ==
  ASSUME IInv
  PROVE  /\ SettledText \o PendingText = inputText
         /\ lastKey \notin Typed => SettledText = inputText /\ PendingText = <<>>
         /\ lastKey \in Typed =>
              \E f \in Seq(Chars), c \in Chars :
                 inputText = Append(f, c) /\ SettledText = f /\ PendingText = <<c>>
<1>1. inputText \in Seq(Chars) /\ (lastKey \in Typed => inputText # <<>>)
  BY DEF IInv, TypeOK, CycleHasTarget
<1>2. CASE lastKey \notin Typed
  <2>1. Pending = 0
    BY <1>2 DEF Pending
  <2>2. SettledText = inputText /\ PendingText = <<>>
    BY <1>1, <2>1, CutNothing DEF SettledText, PendingText
  <2> QED
    BY <1>1, <1>2, <2>2, ConcatEmptySeq
<1>3. CASE lastKey \in Typed
  <2>1. Pending = 1
    BY <1>1, <1>3 DEF Pending
  <2>2. PICK f \in Seq(Chars), c \in Chars : inputText = Append(f, c)
    BY <1>1, <1>3, SequenceEmptyOrAppend
  <2>3. SettledText = f /\ PendingText = <<c>> /\ f \o <<c>> = inputText
    BY <2>1, <2>2, CutLast DEF SettledText, PendingText
  <2> QED
    BY <1>3, <2>2, <2>3
<1> QED
  BY <1>2, <1>3

\* And after it: nothing is pending unless the last key was a digit.
LEMMA MappedSettled ==
  ASSUME IInv', lastKey' \notin Typed
  PROVE  SettledText' = inputText' /\ PendingText' = <<>>
<1>1. inputText' \in Seq(Chars)
  BY DEF IInv, TypeOK
<1>2. Pending' = 0
  BY DEF Pending
<1> QED
  BY <1>1, <1>2, CutNothing DEF SettledText, PendingText

LEMMA MappedPending ==
  ASSUME lastKey' \in Typed, NEW f \in Seq(Chars), NEW c \in Chars, inputText' = Append(f, c)
  PROVE  SettledText' = f /\ PendingText' = <<c>>
<1>1. inputText' # <<>>
  BY AppendProperties
<1>2. Pending' = 1
  BY <1>1 DEF Pending
<1> QED
  BY <1>2, CutLast DEF SettledText, PendingText

\* The character that is written, in either way.
LEMMA Written ==
  ASSUME IInv, NEW d \in Typed
  PROVE  /\ Char(d, (keyIndex + 1) % CharCount(d), uppercase) \in Chars
         /\ Char(d, 0, uppercase) \in Chars
<1>1. d \in Digits /\ uppercase \in BOOLEAN /\ keyIndex \in Nat
  BY TypedAssumption DEF IInv, TypeOK
<1>2. /\ (keyIndex + 1) % CharCount(d) \in 0..CharCount(d) - 1
      /\ 0 \in 0..CharCount(d) - 1
  BY <1>1, CycleType
<1> QED
  BY <1>1, <1>2, CharType

\* The last character is exchanged: the rest stays.
LEMMA ExchangeLast ==
  ASSUME NEW f \in Seq(Chars), NEW b \in Chars, NEW c \in Chars
  PROVE  LET t == Append(f, b) IN [t EXCEPT ![Len(t)] = c] = Append(f, c)
<1> DEFINE t == Append(f, b)
           u == [t EXCEPT ![Len(t)] = c]
           v == Append(f, c)
           n == Len(f)
<1>1. /\ n \in Nat /\ t \in Seq(Chars) /\ Len(t) = n + 1
      /\ \A i \in 1 .. n : t[i] = f[i]
  BY LenProperties, AppendProperties
<1>2. /\ v \in Seq(Chars) /\ Len(v) = n + 1 /\ v[n + 1] = c
      /\ \A i \in 1 .. n : v[i] = f[i]
  BY AppendProperties
<1> HIDE DEF t, v, n
<1>3. Len(t) \in 1 .. Len(t)
  BY <1>1
<1>4. /\ u \in Seq(Chars) /\ Len(u) = n + 1
      /\ \A i \in 1 .. n + 1 : u[i] = IF i = n + 1 THEN c ELSE t[i]
  BY <1>1, <1>3, ExceptSeq
<1> HIDE DEF u
<1>5. \A i \in 1 .. Len(u) : u[i] = v[i]
  BY <1>1, <1>2, <1>4
<1>6. u = v
  BY <1>2, <1>4, <1>5, SeqEqual
<1> QED
  BY <1>6 DEF u, v, t

\* The editor's initial state: nothing typed, nothing pending.
LEMMA InitMaps == Init => Editor!EdInit
<1> SUFFICES ASSUME Init PROVE Editor!EdInit
  OBVIOUS
<1>1. prompting = FALSE /\ inputText = <<>> /\ answer = <<>>
  BY Zenon DEF Init
<1>2. Pending = 0
  BY <1>1 DEF Pending
<1>3. <<>> \in Seq(Chars)
  OBVIOUS
<1>4. SettledText = <<>> /\ PendingText = <<>>
  BY <1>1, <1>2, <1>3, CutNothing DEF SettledText, PendingText
<1> QED
  BY <1>1, <1>4, Zenon DEF Editor!EdInit, SettledText, PendingText

\* Every action of the prompt is one of the editor: the cycle replaces, a new
\* character is a tap, and every other key settles what is pending.
LEMMA NextMaps ==
  ASSUME IInv, IInv', [Next]_vars
  PROVE  [Editor!EdNext]_(Editor!edVars)
<1>1. Editor!Text = inputText
  BY Mapped DEF Editor!Text, SettledText, PendingText
<1>2. CASE Open
  <2>1. /\ ~prompting /\ prompting' = TRUE
        /\ inputText' = <<>> /\ lastKey' = None /\ answer' = <<>>
    BY <1>2, Zenon DEF Open
  <2>2. SettledText' = <<>> /\ PendingText' = <<>>
    BY <2>1, OtherKeys, MappedSettled
  <2>3. Editor!Start
    BY <2>1, <2>2, Zenon DEF Editor!Start, SettledText, PendingText
  <2> QED
    BY <2>3 DEF Editor!EdNext
<1>3. ASSUME NEW d \in Typed, NextChar(d) PROVE Editor!Replace
  <2> DEFINE c == Char(d, (keyIndex + 1) % CharCount(d), uppercase)
  <2>1. /\ prompting /\ lastKey = d /\ lastKey' = d
        /\ inputText' = [inputText EXCEPT ![Len(inputText)] = c]
        /\ UNCHANGED <<prompting, answer>>
    BY <1>3 DEF NextChar
  <2>2. c \in Chars
    BY Written
  <2> HIDE DEF c
  <2>3. PICK f \in Seq(Chars), b \in Chars :
          inputText = Append(f, b) /\ SettledText = f /\ PendingText = <<b>>
    BY <2>1, Mapped
  <2>4. inputText' = Append(f, c)
    BY <2>1, <2>2, <2>3, ExchangeLast
  <2>5. SettledText' = f /\ PendingText' = <<c>>
    BY <2>1, <2>2, <2>4, MappedPending
  <2>6. PendingText # <<>> /\ SettledText' = SettledText
    BY <2>3, <2>5
  <2> QED
    BY <2>1, <2>2, <2>5, <2>6, Zenon DEF Editor!Replace, SettledText, PendingText
<1>4. ASSUME NEW d \in Typed, NewChar(d) PROVE Editor!Tap
  <2> DEFINE c == Char(d, 0, uppercase)
  <2>1. /\ prompting /\ lastKey' = d /\ inputText' = Append(inputText, c)
        /\ UNCHANGED <<prompting, answer>>
    BY <1>4 DEF NewChar
  <2>2. c \in Chars /\ inputText \in Seq(Chars)
    BY Written DEF IInv, TypeOK
  <2> HIDE DEF c
  <2>3. SettledText' = inputText /\ PendingText' = <<c>>
    BY <2>1, <2>2, MappedPending
  <2> QED
    BY <1>1, <2>1, <2>2, <2>3, Zenon DEF Editor!Tap, SettledText, PendingText
<1>5. CASE DeleteLast
  <2>1. /\ prompting /\ lastKey' = Star /\ UNCHANGED <<prompting, answer>>
        /\ inputText' = IF inputText = <<>> THEN <<>>
                        ELSE SubSeq(inputText, 1, Len(inputText) - 1)
    BY <1>5 DEF DeleteLast
  <2>2. SettledText' = inputText' /\ PendingText' = <<>>
    BY <2>1, OtherKeys, MappedSettled
  <2>3. Editor!Erase
    BY <1>1, <2>1, <2>2, Zenon DEF Editor!Erase, SettledText, PendingText
  <2> QED
    BY <2>3 DEF Editor!EdNext
<1>6. CASE ToggleCase \/ Idle
  <2>1. /\ prompting /\ lastKey' \in {Hash, LetterKey}
        /\ UNCHANGED <<prompting, inputText, answer>>
    BY <1>6 DEF ToggleCase, Idle
  <2>2. SettledText' = inputText /\ PendingText' = <<>>
    BY <2>1, OtherKeys, MappedSettled
  <2>3. Editor!Settle
    BY <1>1, <2>1, <2>2, Zenon DEF Editor!Settle, SettledText, PendingText
  <2> QED
    BY <2>3 DEF Editor!EdNext
<1>7. ASSUME NEW key \in {"B", "D"}, Close(key) PROVE Editor!Finish \/ Editor!GiveUp
  <2>1. /\ prompting /\ prompting' = FALSE
        /\ answer' = inputText \/ answer' = ExitText
        /\ UNCHANGED <<inputText, lastKey>>
    BY <1>7, Zenon DEF Close
  <2>2. Pending' = Pending
    BY <2>1 DEF Pending
  <2>3. SettledText' = SettledText /\ PendingText' = PendingText
    BY <2>1, <2>2 DEF SettledText, PendingText
  <2> QED
    BY <1>1, <2>1, <2>3, Zenon DEF Editor!Finish, Editor!GiveUp, SettledText, PendingText
<1>8. CASE UNCHANGED vars
  <2>1. UNCHANGED <<prompting, inputText, lastKey, answer>>
    BY <1>8 DEF vars
  <2>2. Pending' = Pending
    BY <2>1 DEF Pending
  <2> QED
    BY <2>1, <2>2 DEF Editor!edVars
<1> QED
  BY <1>2, <1>3, <1>4, <1>5, <1>6, <1>7, <1>8 DEF Next, Editor!EdNext

\* The prompt implements the abstract multi-tap editor, for every table of
\* rows and every bound: a settled character is never replaced, and the answer
\* is the text as it stands, or that of a prompt given up.
THEOREM TextInputImplementsEditor == Spec => ImplementsEditor
<1>1. Init => Editor!EdInit
  BY InitMaps
<1>2. IInv /\ IInv' /\ [Next]_vars => [Editor!EdNext]_(Editor!edVars)
  BY NextMaps
<1> QED
  BY <1>1, <1>2, TextInputInvariant, PTL DEF Spec, ImplementsEditor, Editor!EdSpec
=============================================================================
