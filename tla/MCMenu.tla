------------------------------- MODULE MCMenu -------------------------------
(***************************************************************************)
(* The menu with the tables of src/main/Menu.h.                            *)
(***************************************************************************)
EXTENDS Menu

\* subMenuSize
DeviceSizes == <<6, 2, 4, 2, 2, 2>>
=============================================================================
