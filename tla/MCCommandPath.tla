--------------------------- MODULE MCCommandPath ---------------------------
(***************************************************************************)
(* The instances of the command's way that TLC checks: every body.         *)
(***************************************************************************)
EXTENDS CommandPath
=============================================================================
