------------------------------- MODULE Floors -------------------------------
(***************************************************************************)
(* The sum of the VRAM floors of a set of leases.  The floors are laid     *)
(* side by side, one slot per unit and lease, and the sum is the number of *)
(* slots: no recursion, so that proofs can reason about it.                *)
(***************************************************************************)
EXTENDS Integers, FiniteSets

Slots(S, floor) == UNION {{l} \X (1 .. floor[l]) : l \in S}

SumFloors(S, floor) == Cardinality(Slots(S, floor))
=============================================================================
