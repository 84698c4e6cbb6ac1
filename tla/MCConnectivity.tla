--------------------------- MODULE MCConnectivity ---------------------------
(***************************************************************************)
(* The connection with two tasks that connect, and one retry.              *)
(***************************************************************************)
EXTENDS Connectivity

CONSTANTS auto1, auto2

\* A good radio; a bad one; a good one with the web console in use.
MixedWorlds == {{}, {"ap", "drop", "radio"}, {"web"}}
=============================================================================
