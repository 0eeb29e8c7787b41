------------------------------ MODULE MCModels ------------------------------
(***************************************************************************)
(* What fails in the small instance of Models that drain_dies checks.      *)
(***************************************************************************)
EXTENDS Models

SlowCalls == {"timeout"}
=============================================================================
