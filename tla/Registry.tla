------------------------------ MODULE Registry ------------------------------
(***************************************************************************)
(* What the lease registry promises, with nothing of how it is kept: a     *)
(* table of leases, granted one at a time against the leases already there *)
(* and ended at any moment (release, expiry, reclaim).  A grant respects   *)
(* the exclusive lane of the card and the VRAM floors already promised on  *)
(* it.  Leases.tla implements this table with readings, locks and rows.    *)
(***************************************************************************)
EXTENDS Integers, FiniteSets, Floors

CONSTANTS
  Gpu,        \* the cards
  Total,      \* Total[g]: the VRAM of card g
  Margin,     \* the safety margin between "free" and "grantable"
  LeaseId,    \* identities a lease can have
  Offers,     \* the leases that anyone may be granted: card, initiator,
              \* floor and whether the card's lane is exclusive
  NoLease     \* an id under which nothing is granted

VARIABLE table   \* table[l]: the lease granted under id l, or NoLease

ModelManager == "model-manager"

Tenants(g) == {l \in LeaseId : table[l] # NoLease /\ table[l].gpu = g}

(* The VRAM promised to the leases of S.                                    *)
Promised(S) == SumFloors(S, [l \in S |-> table[l].vram])

Init == table = [l \in LeaseId |-> NoLease]

Admit(l, r) ==
  /\ table[l] = NoLease
  /\ \A t \in Tenants(r.gpu) : ~table[t].exclusive
  /\ r.exclusive => \A t \in Tenants(r.gpu) : table[t].initiator = ModelManager
  /\ r.vram # 0 => Promised(Tenants(r.gpu)) + r.vram + Margin <= Total[r.gpu]
  /\ table' = [table EXCEPT ![l] = r]

End(S) == table' = [l \in LeaseId |-> IF l \in S THEN NoLease ELSE table[l]]

Next == \/ \E l \in LeaseId, r \in Offers : Admit(l, r)
        \/ \E S \in SUBSET LeaseId : End(S)

Spec == Init /\ [][Next]_table
=============================================================================
