---------------------------- MODULE MCConnection ----------------------------
(***************************************************************************)
(* The instances of the connection that TLC checks.                        *)
(***************************************************************************)
EXTENDS ConnectionProperties, TLC

Symmetry == Permutations(Sockets)
=============================================================================
