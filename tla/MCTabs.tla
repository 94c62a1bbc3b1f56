------------------------------- MODULE MCTabs -------------------------------
(***************************************************************************)
(* The instances of the tab registry that TLC checks.                      *)
(***************************************************************************)
EXTENDS TabsProperties, TLC

Symmetry == Permutations(Requests) \cup Permutations(Tabs)
=============================================================================
