------------------------------- MODULE MCGate -------------------------------
(***************************************************************************)
(* Small instances of Gate.                                                *)
(***************************************************************************)
EXTENDS Gate, TLC

CONSTANTS m1, c1, c2

(* -- residency: two connections to the gate of one model, and a client of *)
(*    the API, with the drain loop and another loop on two workers.        *)
GatesToM1 == c1 :> m1 @@ c2 :> m1

(* -- draining: a client of the API that ensures two models, no gates.     *)
NoGates == << >>
Refused == {"start_fails", "nvml_fails"}
=============================================================================
