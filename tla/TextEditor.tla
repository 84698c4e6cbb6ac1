----------------------------- MODULE TextEditor -----------------------------
(***************************************************************************)
(* What a multi-tap text prompt promises, whatever the keyboard: a text of *)
(* settled characters and at most one pending character, the only one that *)
(* a further tap may replace.  Settled characters change only by being     *)
(* erased from the end, and the prompt answers with the text as it stands. *)
(***************************************************************************)
EXTENDS Integers, Sequences

CONSTANTS
  Alphabet,    \* the characters that can be typed
  GivenUp      \* the answer of a prompt that was given up

VARIABLES
  active,   \* the prompt is open
  settled,  \* sequence of characters
  pending,  \* sequence of at most one character
  answer    \* what the prompt returned last

edVars == <<active, settled, pending, answer>>

Text == settled \o pending

\* Every prompt starts empty; a tap then opens the first pending character.
EdInit == active = FALSE /\ settled = <<>> /\ pending = <<>> /\ answer = <<>>

Start ==
  /\ ~active /\ active' = TRUE
  /\ settled' = <<>> /\ pending' = <<>> /\ answer' = <<>>

\* A new character settles the pending one.
Tap ==
  /\ active
  /\ \E c \in Alphabet : pending' = <<c>>
  /\ settled' = Text
  /\ UNCHANGED <<active, answer>>

Replace ==
  /\ active /\ pending # <<>>
  /\ \E c \in Alphabet : pending' = <<c>>
  /\ UNCHANGED <<active, settled, answer>>

Settle ==
  /\ active
  /\ settled' = Text /\ pending' = <<>>
  /\ UNCHANGED <<active, answer>>

Erase ==
  /\ active
  /\ \/ Text = <<>> /\ settled' = <<>>
     \/ Text # <<>> /\ settled' = SubSeq(Text, 1, Len(Text) - 1)
  /\ pending' = <<>>
  /\ UNCHANGED <<active, answer>>

\* The prompt ends: with the text, or given up.
Finish ==
  /\ active /\ active' = FALSE
  /\ answer' = Text
  /\ UNCHANGED <<settled, pending>>

GiveUp ==
  /\ active /\ active' = FALSE
  /\ answer' = GivenUp
  /\ UNCHANGED <<settled, pending>>

EdNext == Start \/ Tap \/ Replace \/ Settle \/ Erase \/ Finish \/ GiveUp

EdSpec == EdInit /\ [][EdNext]_edVars
=============================================================================
