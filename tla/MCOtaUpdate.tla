----------------------------- MODULE MCOtaUpdate -----------------------------
(* A firmware of two pieces, another and a file system of one; and one of  *)
(* each kind, of one piece.                                                *)
EXTENDS OtaUpdate, TLC

CONSTANTS f, g, h

MCUploads == {f, g, h}
MCFirmware == {f, g}
MCSize == f :> 2 @@ g :> 1 @@ h :> 1

MCTwoUploads == {f, h}
MCOneFirmware == {f}
MCOnePieceEach == f :> 1 @@ h :> 1
=============================================================================
