-------------------------------- MODULE MCOled --------------------------------
(* Two pages that the loop draws in turn. *)
EXTENDS Oled

CONSTANTS p, q

MCPages == {p, q}
=============================================================================
