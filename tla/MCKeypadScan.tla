----------------------------- MODULE MCKeypadScan -----------------------------
(* Three keys of the matrix and a list of two slots, so that the list fills. *)
EXTENDS KeypadScan

MCKeyCodes == 0 .. 2
MCListMax == 2
=============================================================================
