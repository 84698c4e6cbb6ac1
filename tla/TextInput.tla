------------------------------ MODULE TextInput ------------------------------
(***************************************************************************)
(* getTextInput() of src/main/SettingKeypad.h: text typed on the ten digit *)
(* keys, each press of the same key within half a second turning the last  *)
(* character into the next one of the key's row of t9Mapping.              *)
(*                                                                         *)
(* A character is the cell of t9Mapping it was read from, with its case.   *)
(* The table is char[10][6], so a row of six characters has no terminating *)
(* zero and strlen, which finds the length of the cycle, runs on into the  *)
(* next row.                                                               *)
(*                                                                         *)
(* Time appears only as the outcome of the comparison with 500 ms: the     *)
(* person typing may press again soon or late, as he likes.                *)
(***************************************************************************)
EXTENDS Integers, Sequences

CONSTANTS
  RowSize,   \* characters in each row of t9Mapping
  RowWidth,  \* cells of a row, used or zero
  Typed,     \* the digit keys that are pressed
  MaxText,   \* bound: no more characters than this are typed
  ExitText   \* the text "EXIT", returned on D

Digits == 0..9

\* The other keys, as values that are no digits.
None == -1
Star == -2
Hash == -3
LetterKey == -4  \* A or C

Full(d) == RowSize[d] = RowWidth

ASSUME RowAssumption ==
  /\ RowWidth \in Nat \ {0}
  /\ RowSize \in [Digits -> 1..RowWidth]
  /\ \A d \in Digits : Full(d) => d < 9 /\ ~Full(d + 1)
ASSUME TypedAssumption == Typed \subseteq Digits
ASSUME MaxTextAssumption == MaxText \in Nat

\* What strlen(t9Mapping[d]) counts.
CharCount(d) == IF Full(d) THEN RowWidth + RowSize[d + 1] ELSE RowSize[d]

\* The cell that t9Mapping[d][i] reads, in the case the prompt is in; the
\* first cell of a row is its digit and has no case.
Char(d, i, upper) ==
  [row   |-> IF i < RowWidth THEN d ELSE d + 1,
   index |-> i % RowWidth,
   upper |-> upper /\ i % RowWidth # 0]

Chars == [row : Digits, index : 0..RowWidth - 1, upper : BOOLEAN]

ASSUME ExitAssumption == ExitText \in Seq(Chars)

VARIABLES
  prompting,  \* getTextInput is running
  inputText,  \* the text
  uppercase,  \* case of the next letters; survives the prompt
  lastKey,    \* the key of the last press, None at the start of a prompt
  keyIndex,   \* position in the cycle of lastKey
  answer      \* the String returned, until the next prompt

vars == <<prompting, inputText, uppercase, lastKey, keyIndex, answer>>

Last(s) == s[Len(s)]

Init ==
  /\ prompting = FALSE
  /\ inputText = <<>>
  /\ uppercase = FALSE
  /\ lastKey = None
  /\ keyIndex = 0
  /\ answer = <<>>

-----------------------------------------------------------------------------

\* The caller opens the prompt; uppercase is not reset.
Open ==
  /\ ~prompting /\ prompting' = TRUE
  /\ inputText' = <<>>
  /\ lastKey' = None
  /\ keyIndex' = 0
  /\ answer' = <<>>
  /\ UNCHANGED uppercase

\* Mutant of NextChar: the index runs past the end of the row's characters.
NextCharUnwrapped(d) ==
  /\ prompting
  /\ lastKey = d
  /\ keyIndex < CharCount(d)
  /\ keyIndex' = keyIndex + 1
  /\ inputText' = [inputText EXCEPT ![Len(inputText)] = Char(d, keyIndex', uppercase)]
  /\ UNCHANGED <<prompting, uppercase, lastKey, answer>>

\* The same digit within 500 ms: the last character is replaced.
NextChar(d) ==
  /\ prompting
  /\ lastKey = d
  /\ keyIndex' = (keyIndex + 1) % CharCount(d)
  /\ inputText' = [inputText EXCEPT ![Len(inputText)] = Char(d, keyIndex', uppercase)]
  /\ UNCHANGED <<prompting, uppercase, lastKey, answer>>

\* Another digit, or the same one later: a new character.
NewChar(d) ==
  /\ prompting
  /\ Len(inputText) < MaxText
  /\ inputText' = Append(inputText, Char(d, 0, uppercase))
  /\ keyIndex' = 0
  /\ lastKey' = d
  /\ UNCHANGED <<prompting, uppercase, answer>>

\* Mutant of DeleteLast: the key is not remembered, as if the branch left the
\* loop before its end.
DeleteLastForgotten ==
  /\ prompting
  /\ inputText' = IF inputText = <<>> THEN <<>>
                  ELSE SubSeq(inputText, 1, Len(inputText) - 1)
  /\ UNCHANGED <<prompting, uppercase, lastKey, keyIndex, answer>>

\* Key *.
DeleteLast ==
  /\ prompting
  /\ inputText' = IF inputText = <<>> THEN <<>>
                  ELSE SubSeq(inputText, 1, Len(inputText) - 1)
  /\ lastKey' = Star
  /\ UNCHANGED <<prompting, uppercase, keyIndex, answer>>

\* Key #.
ToggleCase ==
  /\ prompting
  /\ uppercase' = ~uppercase
  /\ lastKey' = Hash
  /\ UNCHANGED <<prompting, inputText, keyIndex, answer>>

\* Keys A and C only refresh the display, but they end the cycle.
Idle ==
  /\ prompting
  /\ lastKey' = LetterKey
  /\ UNCHANGED <<prompting, inputText, uppercase, keyIndex, answer>>

\* Mutant of Close: the text is reset before it is returned.
CloseReset(key) ==
  /\ prompting /\ prompting' = FALSE
  /\ answer' = IF key = "B" THEN <<>> ELSE ExitText
  /\ UNCHANGED <<inputText, uppercase, lastKey, keyIndex>>

\* Key B returns the text, key D the text "EXIT".
Close(key) ==
  /\ prompting /\ prompting' = FALSE
  /\ answer' = IF key = "B" THEN inputText ELSE ExitText
  /\ UNCHANGED <<inputText, uppercase, lastKey, keyIndex>>

Next ==
  \/ Open
  \/ \E d \in Typed : NextChar(d) \/ NewChar(d)
  \/ DeleteLast \/ ToggleCase \/ Idle
  \/ \E key \in {"B", "D"} : Close(key)

Spec == Init /\ [][Next]_vars

-----------------------------------------------------------------------------
(* Properties.                                                             *)

\* Every variable keeps to its type, the text to its bound, and keyIndex to
\* the cycle of the key that was pressed.
TypeOK ==
  /\ prompting \in BOOLEAN /\ uppercase \in BOOLEAN
  /\ inputText \in Seq(Chars) /\ Len(inputText) <= MaxText
  /\ lastKey \in Typed \cup {None, Star, Hash, LetterKey}
  /\ keyIndex \in Nat
  /\ lastKey \in Typed => keyIndex < CharCount(lastKey)
  /\ answer \in Seq(Chars)

\* inputText[inputText.length() - 1] is the character the cycle is at: when a
\* digit was pressed last, the text is not empty, and its last character is the
\* one that key wrote.  (Indexing the empty String would write before it.)
CycleHasTarget ==
  lastKey \in Typed =>
    /\ inputText # <<>>
    /\ \E u \in BOOLEAN : Last(inputText) = Char(lastKey, keyIndex, u)

\* The prompt implements the abstract editor: the pending character is the
\* last one while its key may still be cycled.
Pending == IF lastKey \in Typed /\ inputText # <<>> THEN 1 ELSE 0
Editor == INSTANCE TextEditor WITH
            Alphabet <- Chars, GivenUp <- ExitText,
            active  <- prompting,
            settled <- SubSeq(inputText, 1, Len(inputText) - Pending),
            pending <- SubSeq(inputText, Len(inputText) - Pending + 1, Len(inputText))
ImplementsEditor == Editor!EdSpec
=============================================================================
