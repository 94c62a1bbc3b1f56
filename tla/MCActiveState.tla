--------------------------- MODULE MCActiveState ---------------------------
(***************************************************************************)
(* The instances of the stored state that TLC checks.                      *)
(***************************************************************************)
EXTENDS ActiveState, TLC

Symmetry == Permutations(Handlers)
=============================================================================
