---------------------------- MODULE MCTextInput ----------------------------
(***************************************************************************)
(* getTextInput with the rows of t9Mapping.                                *)
(***************************************************************************)
EXTENDS TextInput

\* t9Mapping: '0',' ' / '1','.',',','@','#','!' / '2','A','B','C' / ...
T9Rows == [d \in Digits |-> CASE d = 0 -> 2 [] d = 1 -> 6 [] d \in {7, 9} -> 5
                              [] OTHER -> 4]

\* E X I T, each a capital letter of its row.
Capital(d, i) == [row |-> d, index |-> i, upper |-> TRUE]
TypedExit == <<Capital(3, 2), Capital(9, 2), Capital(4, 3), Capital(8, 1)>>
=============================================================================
