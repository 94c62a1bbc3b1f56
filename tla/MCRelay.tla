------------------------------ MODULE MCRelay ------------------------------
(***************************************************************************)
(* The instances of the relay that TLC checks.                             *)
(***************************************************************************)
EXTENDS RelayProperties
=============================================================================
