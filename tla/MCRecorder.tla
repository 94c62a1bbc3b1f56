----------------------------- MODULE MCRecorder -----------------------------
(***************************************************************************)
(* The instances of the network recorder that TLC checks.                  *)
(***************************************************************************)
EXTENDS RecorderProperties
=============================================================================
