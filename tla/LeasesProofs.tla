---------------------------- MODULE LeasesProofs ----------------------------
(***************************************************************************)
(* Proofs about Leases, for every number of cards, clients, processes and  *)
(* rows: the types, that a grant is sound for routing and holds, the       *)
(* exclusive lane however many manager processes race for it, and that     *)
(* only its own client ends the lease of a running process. With one       *)
(* manager process: what an exclusive lease and the floors promise, one    *)
(* row per holder, whose turn the admission lock is, and that the table    *)
(* implements Registry.                                                    *)
(***************************************************************************)
EXTENDS Leases, FiniteSetTheorems, TLAPS

(* SumFloors is a natural number, monotone in the set, and a newcomer adds *)
(* its own floor to it.                                                    *)

(* A floor of n units has n slots.                                         *)
LEMMA OneFloor ==
  ASSUME NEW x, NEW n \in Nat
  PROVE  /\ IsFiniteSet({x} \X (1 .. n))
         /\ Cardinality({x} \X (1 .. n)) = n
<1> DEFINE D == 1 .. n
           E == {x} \X D
           b == [i \in D |-> <<x, i>>]
<1>1. IsFiniteSet(D) /\ Cardinality(D) = n
  <2>1. Cardinality(D) = IF 1 > n THEN 0 ELSE n - 1 + 1
    BY FS_Interval
  <2> QED BY <2>1, FS_Interval
<1>2. ExistsBijection(D, E)
  <2>1. b \in [D -> E]
    OBVIOUS
  <2>2. \A i, k \in D : b[i] = b[k] => i = k
    OBVIOUS
  <2>3. \A e \in E : \E i \in D : b[i] = e
    OBVIOUS
  <2> HIDE DEF D, E, b
  <2>4. b \in Injection(D, E) /\ b \in Surjection(D, E)
    BY <2>1, <2>2, <2>3 DEF Injection, Surjection, IsInjective
  <2> QED BY <2>4 DEF Bijection, ExistsBijection
<1> QED BY <1>1, <1>2, FS_Bijection

(* Finitely many leases promise finitely many units.                       *)
LEMMA SlotsFinite ==
  ASSUME NEW S, IsFiniteSet(S), NEW f \in [S -> Nat]
  PROVE  IsFiniteSet(Slots(S, f)) /\ SumFloors(S, f) \in Nat
<1> DEFINE R == {{l} \X (1 .. f[l]) : l \in S}
           h == [l \in S |-> {l} \X (1 .. f[l])]
<1>1. h \in Surjection(S, R)
  <2>1. h \in [S -> R] /\ \A r \in R : \E l \in S : h[l] = r
    OBVIOUS
  <2> HIDE DEF h, R
  <2> QED BY <2>1 DEF Surjection
<1>2. IsFiniteSet(R)
  BY <1>1, FS_Surjection
<1>3. \A r \in R : IsFiniteSet(r)
  <2> SUFFICES ASSUME NEW l \in S PROVE IsFiniteSet({l} \X (1 .. f[l]))
    OBVIOUS
  <2>1. f[l] \in Nat
    OBVIOUS
  <2> QED BY <2>1, OneFloor
<1>4. IsFiniteSet(UNION R)
  BY <1>2, <1>3, FS_UNION
<1> QED BY <1>4, FS_CardinalityType DEF Slots, SumFloors

(* Fewer leases with the same floors promise no more.                      *)
LEMMA SumMonotone ==
  ASSUME NEW S, IsFiniteSet(S), NEW f \in [S -> Nat],
         NEW T \in SUBSET S, NEW h \in [T -> Nat], \A l \in T : h[l] = f[l]
  PROVE  SumFloors(T, h) <= SumFloors(S, f)
<1>1. Slots(T, h) \subseteq Slots(S, f)
  BY DEF Slots
<1> QED BY <1>1, SlotsFinite, FS_Subset DEF SumFloors

(* The floors of the leases present and of a newcomer add up.              *)
LEMMA SumAdd ==
  ASSUME NEW S, IsFiniteSet(S), NEW f \in [S -> Nat],
         NEW x, x \notin S, NEW n \in Nat,
         NEW h \in [S \cup {x} -> Nat], \A l \in S : h[l] = f[l], h[x] = n
  PROVE  SumFloors(S \cup {x}, h) = SumFloors(S, f) + n
<1>1. Slots(S \cup {x}, h) = Slots(S, f) \cup ({x} \X (1 .. n))
  BY DEF Slots
<1>2. Slots(S, f) \cap ({x} \X (1 .. n)) = {}
  BY DEF Slots
<1>3. Cardinality(Slots(S, f) \cap ({x} \X (1 .. n))) = 0
  BY <1>2, FS_EmptySet
<1> DEFINE A == Slots(S, f)
           B == {x} \X (1 .. n)
<1>4. IsFiniteSet(A) /\ Cardinality(A) \in Nat
  BY SlotsFinite DEF SumFloors
<1>5. IsFiniteSet(B) /\ Cardinality(B) = n
  BY OneFloor
<1> HIDE DEF A, B
<1>6. Cardinality(A \cup B) = Cardinality(A) + Cardinality(B) - Cardinality(A \cap B)
  BY <1>4, <1>5, FS_Union
<1>7. Cardinality(A \cup B) = Cardinality(A) + n
  BY <1>3, <1>4, <1>5, <1>6 DEF A, B
<1> QED BY <1>1, <1>7 DEF A, B, SumFloors
-----------------------------------------------------------------------------
(* A card about to be inserted is one of the configured cards.             *)
PlanOK == \A j \in Job : pc[j] = "insert" => plan[j].gpu \in Gpu

TypeInv == TypeOK /\ PlanOK
-----------------------------------------------------------------------------
(* Ending the leases of any set keeps the table a table.                   *)
LEMMA WithoutType ==
  ASSUME lease \in [LeaseId -> Row \cup {NoLease}], NEW S
  PROVE  Without(S) \in [LeaseId -> Row \cup {NoLease}]
BY DEF Without

(* A client that forgets its lease is idle or done.                        *)
LEMMA ForgetType ==
  ASSUME TypeOK, NEW S, Forget(S)
  PROVE  /\ pc' \in [Job -> {"idle", "probe", "choose", "insert", "reply", "holding", "done"}]
         /\ mine' \in [Job -> LeaseId \cup {NoId}]
         /\ \A j \in Job : pc'[j] = "insert" => pc[j] = "insert"
BY DEF TypeOK, Forget, After

(* A heartbeat and the passing of time keep a row a row.                   *)
LEMMA RowUpdate ==
  ASSUME NEW r \in Row, NEW d \in BOOLEAN, NEW p \in Pid \cup {NoPid}
  PROVE  [r EXCEPT !.due = d, !.pid = p] \in Row /\ [r EXCEPT !.due = d] \in Row
BY DEF Row

LEMMA NewRowType ==
  ASSUME TypeInv, NEW j \in Job, pc[j] = "insert"
  PROVE  NewRow(j) \in Row
BY LeasesAssumption DEF TypeInv, TypeOK, PlanOK, NewRow, Row, AskBody

LEMMA NoSnapType == NoSnap \in [Gpu -> Reading \cup {Offline}]
BY DEF NoSnap

LEMMA NoPlanType == NoPlan \in [gpu : Gpu \cup {NoId}, exclusive : BOOLEAN]
BY DEF NoPlan

LEMMA NextCandidateType ==
  ASSUME TypeInv, NEW j \in Job, NEW g \in Gpu, NextCandidate(j, g)
  PROVE  /\ pc' \in [Job -> {"idle", "probe", "choose", "insert", "reply", "holding", "done"}]
         /\ pc'[j] # "insert"
         /\ \A k \in Job \ {j} : pc'[k] = pc[k]
         /\ lock' \in [Manager -> Job \cup {Free}]
         /\ todo' \in [Job -> SUBSET Gpu]
         /\ clear' \in [Job -> SUBSET Gpu]
         /\ snap' \in [Job -> [Gpu -> Reading \cup {Offline}]]
         /\ \A k \in Job, h \in Gpu : snap'[k][h] \in Readings[h] \cup {Offline}
<1> USE DEF TypeInv, TypeOK, NextCandidate
<1>1. \E s \in {"idle", "choose"} : pc' = [pc EXCEPT ![j] = s]
  OBVIOUS
<1>2. lock' \in [Manager -> Job \cup {Free}] /\ todo' \in [Job -> SUBSET Gpu]
  OBVIOUS
<1>3. clear' \in [Job -> SUBSET Gpu]
  OBVIOUS
<1>4. snap' \in [Job -> [Gpu -> Reading \cup {Offline}]]
  BY NoSnapType
<1>5. ASSUME NEW k \in Job, NEW h \in Gpu
      PROVE  snap'[k][h] \in Readings[h] \cup {Offline}
  <2>1. CASE snap' = snap
    BY <2>1
  <2>2. CASE snap' = [snap EXCEPT ![j] = NoSnap]
    BY <2>2 DEF NoSnap
  <2> QED BY <2>1, <2>2
<1> QED BY <1>1, <1>2, <1>3, <1>4, <1>5
-----------------------------------------------------------------------------
LEMMA TypeInit == Init => TypeInv
BY DEF Init, TypeInv, TypeOK, PlanOK, NoSnap, NoPlan

LEMMA TypeNext == TypeInv /\ [Next]_vars => TypeInv'
<1> SUFFICES ASSUME TypeInv, [Next]_vars PROVE TypeInv'
  OBVIOUS
<1> USE DEF TypeInv, TypeOK, PlanOK
<1>1. ASSUME NEW j \in Job, NEW m \in Manager, Refuse(j, m) PROVE TypeInv'
  BY <1>1, WithoutType DEF Refuse, Asks
<1>2. ASSUME NEW j \in Job, NEW m \in Manager, Request(j, m) PROVE TypeInv'
  BY <1>2, WithoutType DEF Request, Asks, Candidates, Named, InRole, Spill
<1>3. ASSUME NEW j \in Job, Probe(j) PROVE TypeInv'
  BY <1>3, LeasesAssumption DEF Probe
<1>4. ASSUME NEW j \in Job, ProbeRaises(j) PROVE TypeInv'
  BY <1>4 DEF ProbeRaises
<1>5. ASSUME NEW j \in Job, NEW g \in Gpu, NEW back, Choose(j, g, back) PROVE TypeInv'
  BY <1>5, WithoutType DEF Choose, Looks, EffExclusive
<1>6. ASSUME NEW j \in Job, NEW g \in Gpu, NEW back, PassOver(j, g, back) PROVE TypeInv'
  BY <1>6, WithoutType, NextCandidateType DEF PassOver, Looks
<1>7. ASSUME NEW j \in Job, NEW l \in LeaseId, Insert(j, l) PROVE TypeInv'
  BY <1>7, NewRowType, NoSnapType, NoPlanType DEF Insert, NoSnap
<1>8. ASSUME NEW j \in Job, RacedAway(j) PROVE TypeInv'
  BY <1>8, NextCandidateType, NoPlanType DEF RacedAway
<1>9. ASSUME NEW j \in Job, Reply(j) PROVE TypeInv'
  BY <1>9 DEF Reply
<1>10. ASSUME NEW j \in Job, LoseReply(j) PROVE TypeInv'
  BY <1>10, ForgetType DEF LoseReply
<1>11. ASSUME NEW j \in Job, NEW m \in Manager, Heartbeat(j, m) PROVE TypeInv'
  <2> DEFINE q == IF Child[j] = NoPid THEN lease[mine[j]].pid ELSE Child[j]
  <2>1. lease[mine[j]] \in Row /\ mine[j] \in LeaseId
    BY <1>11 DEF Heartbeat, Granted
  <2>2. q \in Pid \cup {NoPid}
    BY <2>1, LeasesAssumption DEF Row
  <2>3. lease' = [lease EXCEPT ![mine[j]] = [lease[mine[j]] EXCEPT !.due = FALSE, !.pid = q]]
    BY <1>11, <2>1 DEF Heartbeat, Row
  <2> HIDE DEF q
  <2>4. lease' \in [LeaseId -> Row \cup {NoLease}]
    BY <2>1, <2>2, <2>3, RowUpdate
  <2> QED BY <1>11, <2>4 DEF Heartbeat
<1>12. ASSUME NEW j \in Job, NEW m \in Manager, Release(j, m) PROVE TypeInv'
  BY <1>12, WithoutType, ForgetType DEF Release
<1>13. ASSUME NEW j \in Job, Abandon(j) PROVE TypeInv'
  BY <1>13, ForgetType DEF Abandon
<1>14. ASSUME NEW m \in Manager, Reap(m) PROVE TypeInv'
  BY <1>14, WithoutType DEF Reap
<1>15. ASSUME NEW l \in LeaseId, Lapse(l) PROVE TypeInv'
  <2>1. lease[l] \in Row
    BY <1>15 DEF Lapse, Granted
  <2>2. lease' = [lease EXCEPT ![l] = [lease[l] EXCEPT !.due = TRUE]]
    BY <1>15 DEF Lapse
  <2>3. lease' \in [LeaseId -> Row \cup {NoLease}]
    BY <2>1, <2>2, RowUpdate
  <2> QED BY <1>15, <2>3 DEF Lapse
<1>16. ASSUME NEW p \in Pid, Exit(p) PROVE TypeInv'
  BY <1>16, ForgetType DEF Exit
<1>17. ASSUME NEW p \in Pid, Spawn(p) PROVE TypeInv'
  BY <1>17 DEF Spawn
<1>18. ASSUME NEW m \in Manager, Restart(m) PROVE TypeInv'
  <2>1. /\ snap' \in [Job -> [Gpu -> Reading \cup {Offline}]]
        /\ \A j \in Job, g \in Gpu : snap'[j][g] \in Readings[g] \cup {Offline}
    BY <1>18, NoSnapType DEF Restart, NoSnap
  <2>2. plan' \in [Job -> [gpu : Gpu \cup {NoId}, exclusive : BOOLEAN]]
    BY <1>18, NoPlanType DEF Restart
  <2>3. todo' \in [Job -> SUBSET Gpu] /\ clear' \in [Job -> SUBSET Gpu]
    BY <1>18 DEF Restart
  <2>4. lock' \in [Manager -> Job \cup {Free}] /\ hold' \subseteq Gpu
    BY <1>18 DEF Restart
  <2>5. \A j \in Job : pc'[j] = "insert" => plan'[j] = plan[j] /\ pc[j] = "insert"
    BY <1>18 DEF Restart, Forget, After, Waiting, InFlight
  <2>6. PlanOK'
    BY <2>5
  <2> QED BY <1>18, <2>1, <2>2, <2>3, <2>4, <2>6, ForgetType DEF Restart
<1>19. ASSUME NEW g \in Gpu, SetHold(g) PROVE TypeInv'
  BY <1>19 DEF SetHold
<1>22. ASSUME NEW g \in Gpu, ClearHold(g) PROVE TypeInv'
  <2>1. clear' \in [Job -> SUBSET Gpu]
    BY <1>22 DEF ClearHold
  <2> QED BY <1>22, <2>1 DEF ClearHold
<1>20. CASE MpsToggle
  BY <1>20 DEF MpsToggle
<1>21. CASE UNCHANGED vars
  BY <1>21 DEF vars
<1> QED
  BY <1>1, <1>2, <1>3, <1>4, <1>5, <1>6, <1>7, <1>8, <1>9, <1>10, <1>11, <1>12, <1>13,
     <1>14, <1>15, <1>16, <1>17, <1>18, <1>19, <1>20, <1>21, <1>22
  DEF Next, ClientStep, HandlerStep, EnvironmentStep

LEMMA TypeInvCorrect == Spec => []TypeInv
<1> QED BY TypeInit, TypeNext, PTL DEF Spec

(* Every variable has its type: the ids and cards a request, its row and   *)
(* its client name are those there are (admission.py:157-299).             *)
THEOREM TypeCorrect == Spec => []TypeOK
<1>1. TypeInv => TypeOK
  BY DEF TypeInv
<1> QED BY <1>1, TypeInvCorrect, PTL
-----------------------------------------------------------------------------
(* What a step does to the table: it inserts one row, or it ends some rows *)
(* and leaves what the others promise alone.                               *)

Shrinks == \A l \in LeaseId : lease'[l] # NoLease =>
             lease[l] # NoLease /\ Abstract(lease'[l]) = Abstract(lease[l])

LEMMA RowNotNoLease == \A r \in Row : r # NoLease
BY LeasesAssumption

LEMMA WithoutShrinks ==
  ASSUME TypeInv, NEW S, lease' = Without(S)
  PROVE  Shrinks
BY DEF TypeInv, TypeOK, Without, Shrinks

LEMMA TableStep ==
  ASSUME TypeInv, [Next]_vars
  PROVE  Shrinks \/ \E j \in Job, l \in LeaseId : Insert(j, l)
<1>1. ASSUME NEW j \in Job, NEW m \in Manager, Heartbeat(j, m) PROVE Shrinks
  <2>1. mine[j] \in LeaseId /\ lease[mine[j]] \in Row
    BY <1>1 DEF Heartbeat, Granted, TypeInv, TypeOK
  <2>2. \A l \in LeaseId \ {mine[j]} : lease'[l] = lease[l]
    BY <1>1, <2>1 DEF Heartbeat, TypeInv, TypeOK
  <2>3. Abstract(lease'[mine[j]]) = Abstract(lease[mine[j]]) /\ lease[mine[j]] # NoLease
    BY <1>1, <2>1, RowNotNoLease DEF Heartbeat, TypeInv, TypeOK, Row, Abstract
  <2> QED BY <2>1, <2>2, <2>3 DEF Shrinks
<1>2. ASSUME NEW k \in LeaseId, Lapse(k) PROVE Shrinks
  <2>1. lease[k] \in Row
    BY <1>2 DEF Lapse, Granted, TypeInv, TypeOK
  <2>2. \A l \in LeaseId \ {k} : lease'[l] = lease[l]
    BY <1>2 DEF Lapse, TypeInv, TypeOK
  <2>3. Abstract(lease'[k]) = Abstract(lease[k]) /\ lease[k] # NoLease
    BY <1>2, <2>1, RowNotNoLease DEF Lapse, TypeInv, TypeOK, Row, Abstract
  <2> QED BY <2>2, <2>3 DEF Shrinks
<1>3. ASSUME UNCHANGED lease PROVE Shrinks
  BY <1>3 DEF Shrinks
<1>4. ASSUME NEW j \in Job, ClientStep(j) PROVE Shrinks
  BY <1>1, <1>3, <1>4, WithoutShrinks
  DEF ClientStep, Refuse, Request, Asks, Release, Reply, LoseReply, Abandon
<1>5. ASSUME NEW j \in Job, HandlerStep(j), \A l \in LeaseId : ~Insert(j, l)
      PROVE  Shrinks
  BY <1>3, <1>5, WithoutShrinks
  DEF HandlerStep, Probe, ProbeRaises, Choose, PassOver, Looks, RacedAway
<1>6. ASSUME NEW m \in Manager, Reap(m) PROVE Shrinks
  BY <1>6, WithoutShrinks DEF Reap
<1>7. ASSUME EnvironmentStep PROVE Shrinks
  BY <1>2, <1>3, <1>7
  DEF EnvironmentStep, Exit, Spawn, Restart, SetHold, ClearHold, MpsToggle
<1> QED BY <1>3, <1>4, <1>5, <1>6, <1>7 DEF Next, vars
-----------------------------------------------------------------------------
(* The exclusive lane, for any number of manager processes.                *)

LEMMA InsertTable ==
  ASSUME TypeInv, NEW j \in Job, NEW l \in LeaseId, Insert(j, l)
  PROVE  /\ lease[l] = NoLease /\ lease'[l] = NewRow(j) /\ NewRow(j) \in Row
         /\ \A k \in LeaseId \ {l} : lease'[k] = lease[k]
         /\ Granted' = Granted \cup {l} /\ l \notin Granted
BY NewRowType, RowNotNoLease DEF Insert, FreshIds, Granted, TypeInv, TypeOK

LEMMA ShrinksTable ==
  ASSUME Shrinks
  PROVE  /\ Granted' \subseteq Granted
         /\ \A l \in Granted' : /\ lease'[l].gpu = lease[l].gpu
                                /\ lease'[l].initiator = lease[l].initiator
                                /\ lease'[l].vram = lease[l].vram
                                /\ lease'[l].exclusive = lease[l].exclusive
BY DEF Shrinks, Granted, Abstract

LEMMA LaneNext == TypeInv /\ ExclusiveLane /\ [Next]_vars => ExclusiveLane'
<1> SUFFICES ASSUME TypeInv, ExclusiveLane, [Next]_vars PROVE ExclusiveLane'
  OBVIOUS
<1>1. CASE Shrinks
  BY <1>1, ShrinksTable DEF ExclusiveLane
<1>2. ASSUME NEW j \in Job, NEW l \in LeaseId, Insert(j, l) PROVE ExclusiveLane'
  <2>1. Unique(NewRow(j))
    BY <1>2 DEF Insert
  <2>2. SUFFICES ASSUME NEW k \in Granted, k # l, lease[k].gpu = NewRow(j).gpu
                 PROVE  ~(lease[k].exclusive /\ NewRow(j).exclusive)
    BY <1>2, InsertTable DEF ExclusiveLane, Granted
  <2> QED BY <2>1, <2>2 DEF Unique, Holders
<1> QED BY <1>1, <1>2, TableStep

(* No card ever has two exclusive leases, whatever processes share the     *)
(* database.                                                               *)
THEOREM LaneCorrect == Spec => []ExclusiveLane
<1>1. Init => ExclusiveLane
  BY DEF Init, ExclusiveLane, Granted
<1> QED BY <1>1, LaneNext, TypeInvCorrect, PTL DEF Spec
-----------------------------------------------------------------------------
(* The lock: whoever is about to insert holds the lock of its manager.     *)

OneManager == \A m, n \in Manager : m = n

LockHeld == \A j \in Job : pc[j] = "insert" => lock[mgr[j]] = j

LEMMA LockNext == TypeInv /\ LockHeld /\ [Next]_vars => LockHeld'
<1> SUFFICES ASSUME TypeInv, LockHeld, [Next]_vars PROVE LockHeld'
  OBVIOUS
<1> USE DEF TypeInv, TypeOK, LockHeld
<1>1. ASSUME NEW j \in Job, ClientStep(j) PROVE LockHeld'
  BY <1>1
  DEF ClientStep, Refuse, Request, Asks, Heartbeat, Release, Reply, LoseReply, Abandon,
      Forget, After
<1>2. ASSUME NEW j \in Job, NEW g \in Gpu, NEW back, Choose(j, g, back) PROVE LockHeld'
  BY <1>2, LeasesAssumption DEF Choose, Looks
<1>3. ASSUME NEW j \in Job, NEW g \in Gpu, NextCandidate(j, g), mgr' = mgr,
             pc[j] = "insert" \/ lock[mgr[j]] \in {Free, j}
      PROVE  LockHeld'
  <2> SUFFICES ASSUME NEW k \in Job, pc'[k] = "insert" PROVE lock'[mgr'[k]] = k
    OBVIOUS
  <2>1. k # j /\ pc[k] = "insert"
    BY <1>3 DEF NextCandidate
  <2>2. lock[mgr[k]] = k /\ mgr[k] # mgr[j]
    BY <1>3, <2>1, LeasesAssumption
  <2> QED BY <1>3, <2>2 DEF NextCandidate
<1>4. ASSUME NEW j \in Job, NEW l \in LeaseId, Insert(j, l) PROVE LockHeld'
  BY <1>4 DEF Insert
<1>5. ASSUME NEW j \in Job, HandlerStep(j) PROVE LockHeld'
  BY <1>2, <1>3, <1>4, <1>5
  DEF HandlerStep, Probe, ProbeRaises, PassOver, RacedAway, Looks, PlanOK
<1>6. ASSUME NEW m \in Manager, Restart(m) PROVE LockHeld'
  BY <1>6 DEF Restart, Forget, After, Waiting, InFlight
<1>7. ASSUME NEW p \in Pid, Exit(p) PROVE LockHeld'
  BY <1>7 DEF Exit, Forget, After
<1>8. ASSUME EnvironmentStep PROVE LockHeld'
  BY <1>6, <1>7, <1>8 DEF EnvironmentStep, Lapse, Spawn, SetHold, ClearHold, MpsToggle
<1> QED BY <1>1, <1>5, <1>8 DEF Next, Reap, vars

(* A job is about to insert because it just chose, or it was so before.    *)
LEMMA PlanStep ==
  ASSUME TypeInv, [Next]_vars, NEW j \in Job, pc'[j] = "insert"
  PROVE  \/ pc[j] = "insert" /\ plan'[j] = plan[j]
         \/ \E g \in Gpu : \E back \in Reclaims(Ask[j], g) : Choose(j, g, back)
<1> USE DEF TypeInv, TypeOK
<1>1. ASSUME NEW k \in Job, ClientStep(k) PROVE pc[j] = "insert" /\ plan'[j] = plan[j]
  BY <1>1
  DEF ClientStep, Refuse, Request, Asks, Heartbeat, Release, Reply, LoseReply, Abandon,
      Forget, After
<1>2. ASSUME NEW k \in Job, HandlerStep(k),
             ~\E g \in Gpu : \E back \in Reclaims(Ask[j], g) : Choose(j, g, back)
      PROVE  pc[j] = "insert" /\ plan'[j] = plan[j]
  <2>1. ASSUME NEW g \in Gpu, NEW back \in Reclaims(Ask[k], g), Choose(k, g, back)
        PROVE  pc[j] = "insert" /\ plan'[j] = plan[j]
    BY <1>2, <2>1 DEF Choose
  <2>2. ASSUME NEW g \in Gpu, NEW back, PassOver(k, g, back)
        PROVE  pc[j] = "insert" /\ plan'[j] = plan[j]
    BY <2>2 DEF PassOver, NextCandidate
  <2>3. ASSUME NEW l \in LeaseId, Insert(k, l)
        PROVE  pc[j] = "insert" /\ plan'[j] = plan[j]
    BY <2>3 DEF Insert
  <2>4. ASSUME RacedAway(k) PROVE pc[j] = "insert" /\ plan'[j] = plan[j]
    BY <2>4 DEF RacedAway, NextCandidate
  <2> QED BY <1>2, <2>1, <2>2, <2>3, <2>4 DEF HandlerStep, Probe, ProbeRaises
<1>3. ASSUME EnvironmentStep PROVE pc[j] = "insert" /\ plan'[j] = plan[j]
  <2>1. ASSUME NEW m \in Manager, Restart(m)
        PROVE  pc[j] = "insert" /\ plan'[j] = plan[j]
    BY <2>1 DEF Restart, Forget, After, Waiting, InFlight
  <2>2. ASSUME NEW p \in Pid, Exit(p)
        PROVE  pc[j] = "insert" /\ plan'[j] = plan[j]
    BY <2>2 DEF Exit, Forget, After
  <2> QED BY <1>3, <2>1, <2>2
          DEF EnvironmentStep, Lapse, Spawn, SetHold, ClearHold, MpsToggle
<1> QED BY <1>1, <1>2, <1>3 DEF Next, Reap, vars
-----------------------------------------------------------------------------
(* Where a job lands, and the holds in its way, for any number of manager  *)
(* processes.                                                              *)

Suits(j, g) ==
  LET a == Ask[j]
  IN  /\ a.cap # NoCap => a.cap \in Card[g].caps \ NonLeasable
      /\ a.cap = NoCap /\ a.target \notin Gpu => ~Card[g].remote
      /\ Card[g].role = "interactive" /\ a.target \notin {g, "interactive"} =>
           a.vram \in 1 .. Card[g].spill

(* What a request still has to try are candidates; what it has chosen, and *)
(* what it was granted, suits it.                                          *)
Seeks(j) == /\ todo[j] \subseteq Candidates(Ask[j])
            /\ todo[j] # {} => Ask[j].cap \notin NonLeasable
Placed(j) == /\ Seeks(j)
             /\ pc[j] = "insert" => Suits(j, plan[j].gpu)
             /\ mine[j] \in Granted => Suits(j, lease[mine[j]].gpu)

LEMMA CandidateSuits ==
  ASSUME NEW j \in Job, NEW g \in Candidates(Ask[j]), CanRun(Ask[j], g),
         Ask[j].cap \notin NonLeasable
  PROVE  Suits(j, g)
<1> USE LeasesAssumption DEF Suits, CanRun
<1>1. CASE g \in Named(Ask[j])
  BY <1>1 DEF Named
<1>2. CASE g \in InRole(Ask[j]) /\ Named(Ask[j]) = {}
  BY <1>2 DEF InRole, Named
<1>3. CASE g \in Spill(Ask[j]) /\ Named(Ask[j]) = {}
  BY <1>3 DEF Spill, Named, AskBody
<1> QED BY <1>1, <1>2, <1>3 DEF Candidates

LEMMA SeeksNext ==
  ASSUME TypeInv, [Next]_vars, NEW j \in Job, Seeks(j)
  PROVE  Seeks(j)'
<1> USE DEF TypeInv, TypeOK, Seeks
<1>1. ASSUME todo'[j] \subseteq todo[j] PROVE Seeks(j)'
  BY <1>1 DEF Candidates, Named, InRole, Spill, CanRun
<1>2. ASSUME NEW m \in Manager, Request(j, m) PROVE Seeks(j)'
  <2>1. todo'[j] = Candidates(Ask[j]) /\ Ask[j].cap \notin NonLeasable
    BY <1>2 DEF Request
  <2> QED BY <2>1 DEF Candidates, Named, InRole, Spill, CanRun
<1>3. ASSUME NEW k \in Job, ClientStep(k) PROVE Seeks(j)'
  BY <1>1, <1>2, <1>3
  DEF ClientStep, Refuse, Request, Heartbeat, Release, Reply, LoseReply, Abandon
<1>4. ASSUME NEW k \in Job, HandlerStep(k) PROVE Seeks(j)'
  <2>1. ASSUME NEW l \in LeaseId, Insert(k, l) PROVE Seeks(j)'
    BY <1>1, <2>1 DEF Insert
  <2>2. ASSUME NEW g \in Gpu, NEW back, Choose(k, g, back) PROVE Seeks(j)'
    BY <1>1, <2>2 DEF Choose
  <2>3. ASSUME NEW g, NextCandidate(k, g) PROVE Seeks(j)'
    <3>1. todo'[j] \subseteq todo[j]
      BY <2>3 DEF NextCandidate
    <3> QED BY <1>1, <3>1
  <2>4. ASSUME Probe(k) \/ ProbeRaises(k) PROVE Seeks(j)'
    BY <1>1, <2>4 DEF Probe, ProbeRaises
  <2> QED BY <1>4, <2>1, <2>2, <2>3, <2>4 DEF HandlerStep, PassOver, RacedAway
<1>5. ASSUME EnvironmentStep PROVE Seeks(j)'
  <2>1. ASSUME NEW m \in Manager, Restart(m) PROVE Seeks(j)'
    <3>1. todo'[j] \subseteq todo[j]
      BY <2>1 DEF Restart
    <3> QED BY <1>1, <3>1
  <2> QED BY <1>1, <1>5, <2>1
          DEF EnvironmentStep, Lapse, Exit, Spawn, SetHold, ClearHold, MpsToggle
<1> QED BY <1>1, <1>3, <1>4, <1>5 DEF Next, Reap, vars

(* A client comes to its lease by an insert alone.                         *)
LEMMA MineStep ==
  ASSUME TypeInv, [Next]_vars, NEW j \in Job, ~\E l \in LeaseId : Insert(j, l)
  PROVE  mine'[j] \in {mine[j], NoId} /\ (pc'[j] = "reply" => pc[j] = "reply")
<1> USE DEF TypeInv, TypeOK
<1>1. ASSUME NEW k \in Job, ClientStep(k)
      PROVE  mine'[j] \in {mine[j], NoId} /\ (pc'[j] = "reply" => pc[j] = "reply")
  BY <1>1
  DEF ClientStep, Refuse, Request, Asks, Heartbeat, Release, Reply, LoseReply, Abandon,
      Forget, After
<1>2. ASSUME NEW k \in Job, HandlerStep(k)
      PROVE  mine'[j] \in {mine[j], NoId} /\ (pc'[j] = "reply" => pc[j] = "reply")
  <2>1. ASSUME NEW l \in LeaseId, Insert(k, l)
        PROVE  mine'[j] = mine[j] /\ pc'[j] = pc[j]
    BY <2>1 DEF Insert
  <2>2. ASSUME NEW g \in Gpu, NEW back, Choose(k, g, back) \/ PassOver(k, g, back)
        PROVE  mine'[j] = mine[j] /\ (pc'[j] = "reply" => pc[j] = "reply")
    BY <2>2 DEF Choose, PassOver, Looks, NextCandidate
  <2>3. ASSUME RacedAway(k)
        PROVE  mine'[j] = mine[j] /\ (pc'[j] = "reply" => pc[j] = "reply")
    BY <2>3 DEF RacedAway, NextCandidate
  <2> QED BY <1>2, <2>1, <2>2, <2>3 DEF HandlerStep, Probe, ProbeRaises
<1>3. ASSUME EnvironmentStep
      PROVE  mine'[j] \in {mine[j], NoId} /\ (pc'[j] = "reply" => pc[j] = "reply")
  <2>1. ASSUME NEW m \in Manager, Restart(m)
        PROVE  mine'[j] \in {mine[j], NoId} /\ (pc'[j] = "reply" => pc[j] = "reply")
    BY <2>1 DEF Restart, Forget, After
  <2>2. ASSUME NEW p \in Pid, Exit(p)
        PROVE  mine'[j] \in {mine[j], NoId} /\ (pc'[j] = "reply" => pc[j] = "reply")
    BY <2>2 DEF Exit, Forget, After
  <2> QED BY <1>3, <2>1, <2>2
          DEF EnvironmentStep, Lapse, Spawn, SetHold, ClearHold, MpsToggle
<1> QED BY <1>1, <1>2, <1>3 DEF Next, Reap, vars

(* ... and while it remembers its lease the row is where it was put.       *)
LEMMA MineKept ==
  ASSUME TypeInv, [Next]_vars, NEW j \in Job, ~\E l \in LeaseId : Insert(j, l),
         mine'[j] \in Granted'
  PROVE  /\ mine'[j] = mine[j] /\ mine[j] \in Granted
         /\ lease'[mine[j]].gpu = lease[mine[j]].gpu
<1>1. mine'[j] = mine[j] /\ mine[j] \in LeaseId
  BY MineStep, LeasesAssumption DEF Granted, TypeInv, TypeOK
<1>2. ASSUME NEW k \in Job, NEW l \in LeaseId, Insert(k, l)
      PROVE  mine[j] \in Granted /\ lease'[mine[j]] = lease[mine[j]]
  <2>1. mine[j] # l
    BY <1>2 DEF Insert, FreshIds
  <2> QED BY <1>1, <1>2, <2>1, InsertTable DEF Granted
<1>3. CASE Shrinks
  BY <1>1, <1>3, ShrinksTable
<1> QED BY <1>1, <1>2, <1>3, TableStep

LEMMA PlacedNext ==
  ASSUME TypeInv, [Next]_vars, NEW j \in Job, Placed(j)
  PROVE  Placed(j)'
<1>1. Seeks(j)'
  BY SeeksNext DEF Placed
<1>2. ASSUME pc'[j] = "insert" PROVE Suits(j, plan'[j].gpu)
  <2>1. ASSUME NEW g \in Gpu, NEW back, Choose(j, g, back) PROVE Suits(j, plan'[j].gpu)
    <3>1. g \in todo[j] /\ plan'[j].gpu = g /\ CanRun(Ask[j], g)
      BY <2>1 DEF Choose, Looks, Admits, TypeInv, TypeOK
    <3> QED BY <3>1, CandidateSuits DEF Placed, Seeks
  <2> QED BY <1>2, <2>1, PlanStep DEF Placed
<1>3. ASSUME mine'[j] \in Granted' PROVE Suits(j, lease'[mine'[j]].gpu)
  <2>1. ASSUME NEW l \in LeaseId, Insert(j, l) PROVE Suits(j, lease'[mine'[j]].gpu)
    <3>1. mine'[j] = l /\ lease'[l].gpu = plan[j].gpu /\ pc[j] = "insert"
      BY <2>1, InsertTable DEF Insert, NewRow, TypeInv, TypeOK
    <3> QED BY <3>1 DEF Placed
  <2> QED BY <1>3, <2>1, MineKept DEF Placed
<1> QED BY <1>1, <1>2, <1>3 DEF Placed, Suits

(* A granted job can run on its card, and landed there by its role or      *)
(* within the bound of an overflow (admission.py:123-155, 189-195).        *)
THEOREM RoutedCorrect == Spec => []RoutedRight
<1> DEFINE AllPlaced == \A j \in Job : Placed(j)
<1>1. Init => AllPlaced
  BY LeasesAssumption DEF Init, Placed, Seeks, Granted
<1>2. TypeInv /\ AllPlaced /\ [Next]_vars => AllPlaced'
  BY PlacedNext
<1>3. AllPlaced => RoutedRight
  BY DEF Placed, Suits, RoutedRight
<1> QED BY <1>1, <1>2, <1>3, TypeInvCorrect, PTL DEF Spec
-----------------------------------------------------------------------------
(* clear[j] holds every card that was without a hold at some time of j's   *)
(* request: what is chosen is in it, unless the model manager asked.       *)
MayTake(j, g) == Ask[j].initiator # ModelManager => g \in clear[j]

Minds(j) == /\ j \in Waiting => Gpu \ hold \subseteq clear[j]
            /\ pc[j] = "insert" => MayTake(j, plan[j].gpu)
            /\ pc[j] = "reply" /\ mine[j] \in Granted => MayTake(j, lease[mine[j]].gpu)

(* The request's own history only grows while it waits.                    *)
LEMMA ClearStep ==
  ASSUME TypeInv, [Next]_vars, NEW j \in Job, j \in Waiting'
  PROVE  /\ Gpu \ hold \subseteq clear[j] \/ j \notin Waiting => Gpu \ hold' \subseteq clear'[j]
         /\ j \in Waiting /\ pc'[j] \in {"insert", "reply"} => clear[j] \subseteq clear'[j]
<1> USE DEF TypeInv, TypeOK, Waiting, InFlight
<1> DEFINE Goal ==
      /\ Gpu \ hold \subseteq clear[j] \/ j \notin Waiting => Gpu \ hold' \subseteq clear'[j]
      /\ j \in Waiting /\ pc'[j] \in {"insert", "reply"} => clear[j] \subseteq clear'[j]
<1>1. ASSUME NEW k \in Job, ClientStep(k) PROVE Goal
  <2>1. ASSUME NEW m \in Manager, Request(k, m) PROVE Goal
    BY <2>1 DEF Request, Asks
  <2>2. ASSUME NEW m \in Manager, Refuse(k, m) \/ Heartbeat(k, m) PROVE Goal
    BY <2>2 DEF Refuse, Heartbeat
  <2>3. ASSUME NEW m \in Manager, Release(k, m) PROVE Goal
    BY <2>3 DEF Release, Forget, After
  <2>4. CASE Reply(k)
    BY <2>4 DEF Reply
  <2>5. CASE LoseReply(k)
    BY <2>5 DEF LoseReply, Forget, After
  <2>6. CASE Abandon(k)
    BY <2>6 DEF Abandon, Forget, After
  <2> QED BY <1>1, <2>1, <2>2, <2>3, <2>4, <2>5, <2>6 DEF ClientStep
<1>2. ASSUME NEW k \in Job, HandlerStep(k) PROVE Goal
  <2>1. ASSUME NEW l \in LeaseId, Insert(k, l) PROVE Goal
    BY <2>1 DEF Insert
  <2>2. ASSUME NEW g \in Gpu, NEW back, Choose(k, g, back) PROVE Goal
    BY <2>2 DEF Choose, Looks
  <2>3. ASSUME NEW g \in Gpu, NEW back, PassOver(k, g, back) PROVE Goal
    BY <2>3 DEF PassOver, Looks, NextCandidate
  <2>4. ASSUME RacedAway(k) PROVE Goal
    BY <2>4 DEF RacedAway, NextCandidate
  <2> QED BY <1>2, <2>1, <2>2, <2>3, <2>4 DEF HandlerStep, Probe, ProbeRaises
<1>3. ASSUME EnvironmentStep PROVE Goal
  <2>1. ASSUME NEW m \in Manager, Restart(m) PROVE Goal
    BY <2>1 DEF Restart, Forget, After
  <2>2. ASSUME NEW p \in Pid, Exit(p) PROVE Goal
    BY <2>2 DEF Exit, Forget, After
  <2>3. ASSUME NEW g \in Gpu, SetHold(g) \/ ClearHold(g) PROVE Goal
    BY <2>3 DEF SetHold, ClearHold
  <2> QED BY <1>3, <2>1, <2>2, <2>3 DEF EnvironmentStep, Lapse, Spawn, MpsToggle
<1> QED BY <1>1, <1>2, <1>3 DEF Next, Reap, vars

LEMMA MindsNext ==
  ASSUME TypeInv, [Next]_vars, NEW j \in Job, Minds(j)
  PROVE  Minds(j)'
<1> USE DEF Minds, MayTake
<1>1. ASSUME j \in Waiting' PROVE Gpu \ hold' \subseteq clear'[j]
  BY <1>1, ClearStep
<1>2. ASSUME pc'[j] = "insert" PROVE MayTake(j, plan[j].gpu)'
  <2>1. j \in Waiting'
    BY <1>2 DEF Waiting, InFlight
  <2>2. ASSUME NEW g \in Gpu, NEW back, Choose(j, g, back) PROVE MayTake(j, plan[j].gpu)'
    <3>1. plan'[j].gpu = g /\ (g \in hold => Ask[j].initiator = ModelManager)
      BY <2>2 DEF Choose, Admits, TypeInv, TypeOK
    <3>2. hold' = hold
      BY <2>2 DEF Choose, Looks
    <3> QED BY <1>1, <2>1, <3>1, <3>2
  <2>3. ASSUME pc[j] = "insert", plan'[j] = plan[j] PROVE MayTake(j, plan[j].gpu)'
    <3>1. j \in Waiting
      BY <2>3 DEF Waiting, InFlight
    <3> QED BY <1>2, <2>1, <2>3, <3>1, ClearStep
  <2> QED BY <1>2, <2>2, <2>3, PlanStep
<1>3. ASSUME pc'[j] = "reply", mine'[j] \in Granted' PROVE MayTake(j, lease[mine[j]].gpu)'
  <2>1. j \in Waiting'
    BY <1>3 DEF Waiting
  <2>2. ASSUME NEW l \in LeaseId, Insert(j, l) PROVE MayTake(j, lease[mine[j]].gpu)'
    <3>1. mine'[j] = l /\ lease'[l].gpu = plan[j].gpu /\ pc[j] = "insert"
      BY <2>2, InsertTable DEF Insert, NewRow, TypeInv, TypeOK
    <3>2. clear[j] \subseteq clear'[j]
      BY <2>2 DEF Insert
    <3> QED BY <3>1, <3>2
  <2>3. ASSUME ~\E l \in LeaseId : Insert(j, l) PROVE MayTake(j, lease[mine[j]].gpu)'
    <3>1. pc[j] = "reply" /\ j \in Waiting
      BY <1>3, <2>3, MineStep DEF Waiting
    <3> QED BY <1>3, <2>1, <2>3, <3>1, MineKept, ClearStep
  <2> QED BY <2>2, <2>3
<1> QED BY <1>1, <1>2, <1>3

(* A hold that is up during the whole of a request keeps it off the card,  *)
(* the model manager excepted (admission.py:196-210).                      *)
THEOREM HoldCorrect == Spec => []HoldHonoured
<1> DEFINE AllMind == \A j \in Job : Minds(j)
<1>1. Init => AllMind
  BY DEF Init, Minds, Waiting, InFlight
<1>2. TypeInv /\ AllMind /\ [Next]_vars => AllMind'
  BY MindsNext
<1>3. AllMind => HoldHonoured
  BY DEF Minds, MayTake, HoldHonoured
<1> QED BY <1>1, <1>2, <1>3, TypeInvCorrect, PTL DEF Spec
-----------------------------------------------------------------------------
(* One manager process: the decision stands until the row is written.      *)

FloorMap(S) == [l \in S |-> lease[l].vram]

(* Any set of granted leases is finite and has floors to sum.              *)
LEMMA GrantedFloors ==
  ASSUME TypeInv, NEW S \in SUBSET Granted
  PROVE  /\ IsFiniteSet(S) /\ FloorMap(S) \in [S -> Nat]
         /\ FloorsOf(S) = SumFloors(S, FloorMap(S)) /\ FloorsOf(S) \in Nat
<1>1. IsFiniteSet(S)
  BY LeasesAssumption, FS_Subset DEF Granted
<1>2. FloorMap(S) \in [S -> Nat]
  BY DEF FloorMap, TypeInv, TypeOK, Granted, Row
<1>3. FloorsOf(S) = SumFloors(S, FloorMap(S))
  BY DEF FloorsOf, FloorMap
<1> QED BY <1>1, <1>2, <1>3, SlotsFinite

(* A step that only ends leases leaves less promised on every card.        *)
LEMMA FloorsShrink ==
  ASSUME TypeInv, TypeInv', Shrinks, NEW g
  PROVE  /\ Holders(g)' \subseteq Holders(g)
         /\ FloorsOf(Holders(g))' <= FloorsOf(Holders(g))
         /\ FloorsOf(Holders(g)) \in Nat /\ FloorsOf(Holders(g))' \in Nat
<1> DEFINE S == Holders(g)
           T == Holders(g)'
<1>1. T \subseteq S /\ S \subseteq Granted /\ T \subseteq Granted'
  BY ShrinksTable DEF Holders
<1>2. \A l \in T : lease'[l].vram = lease[l].vram
  BY <1>1, ShrinksTable
<1>3. IsFiniteSet(S) /\ FloorMap(S) \in [S -> Nat]
  BY <1>1, GrantedFloors
<1>4. FloorsOf(S) = SumFloors(S, FloorMap(S)) /\ FloorsOf(S) \in Nat
  BY <1>1, GrantedFloors
<1> DEFINE h == [l \in T |-> lease'[l].vram]
<1>5. h \in [T -> Nat] /\ IsFiniteSet(T)
  <2>1. \A l \in T : lease'[l].vram = FloorMap(S)[l] /\ FloorMap(S)[l] \in Nat
    BY <1>1, <1>2, <1>3 DEF FloorMap
  <2> QED BY <1>1, <1>3, <2>1, FS_Subset
<1>6. FloorsOf(Holders(g))' = SumFloors(T, h)
  BY DEF FloorsOf
<1>7. SumFloors(T, h) <= SumFloors(S, FloorMap(S))
  <2>1. \A l \in T : h[l] = FloorMap(S)[l]
    BY <1>1, <1>2 DEF FloorMap
  <2> HIDE DEF h, S, T
  <2> QED BY <1>1, <1>3, <1>5, <2>1, SumMonotone
<1>8. SumFloors(T, h) \in Nat
  <2> HIDE DEF h, T
  <2> QED BY <1>5, SlotsFinite
<1> QED BY <1>1, <1>4, <1>6, <1>7, <1>8

LEMMA ShrinkStands ==
  ASSUME TypeInv, TypeInv', Shrinks, NEW j \in Job, StillAdmits(j), plan'[j] = plan[j],
         plan[j].gpu \in Gpu
  PROVE  StillAdmits(j)'
<1> DEFINE H == Holders(plan[j].gpu)
<1>1. H' = Holders(plan[j].gpu)' /\ H' \subseteq H /\ H' \subseteq Granted'
  BY FloorsShrink DEF Holders
<1>2. FloorsOf(H)' <= FloorsOf(H) /\ FloorsOf(H) \in Nat /\ FloorsOf(H)' \in Nat
  BY FloorsShrink DEF Holders
<1>3. \A l \in H' : /\ lease'[l].initiator = lease[l].initiator
                    /\ lease'[l].exclusive = lease[l].exclusive
  BY <1>1, ShrinksTable
<1>4. Ask[j].vram \in Nat /\ Margin \in Nat /\ Card[plan[j].gpu].total \in Nat
  BY LeasesAssumption DEF AskBody
<1> QED BY <1>1, <1>2, <1>3, <1>4 DEF StillAdmits

(* A card reading that covers the ask beside the holders left on the card  *)
(* means that all their floors and the new one fit in the card.            *)
LEMMA ReadingCovers ==
  ASSUME TypeInv, NEW g \in Gpu, NEW r \in Readings[g], NEW S \in SUBSET Granted,
         NEW v \in Nat, Grantable(r, S) >= v
  PROVE  FloorsOf(S) + v + Margin <= Card[g].total
<1>1. FloorsOf(S) \in Nat
  BY GrantedFloors
<1>2. r.used \in Nat /\ r.free \in Nat /\ r.used + r.free <= Card[g].total
  BY LeasesAssumption, ReadingsAssumption DEF Reading
<1>3. Margin \in Nat /\ Card[g].total \in Nat
  BY LeasesAssumption
<1>4. CASE FloorsOf(S) > r.used
  BY <1>1, <1>2, <1>3, <1>4 DEF Grantable, Unrealized
<1>5. CASE ~(FloorsOf(S) > r.used)
  BY <1>1, <1>2, <1>3, <1>5 DEF Grantable, Unrealized
<1> QED BY <1>4, <1>5

LEMMA ChooseStands ==
  ASSUME TypeInv, NEW j \in Job, NEW g \in Gpu, NEW back \in Reclaims(Ask[j], g),
         Choose(j, g, back)
  PROVE  StillAdmits(j)'
<1> DEFINE S == Holders(g) \ back
<1>1. lease' = Without(back)
  BY DEF Choose, Looks
<1>2. plan'[j] = [gpu |-> g, exclusive |-> EffExclusive(Ask[j], g)]
  BY DEF Choose, TypeInv, TypeOK
<1>3. Admits(Ask[j], g, snap[j][g], S)
  BY DEF Choose
<1>4. Holders(g)' = S /\ \A l \in S : lease'[l] = lease[l]
  BY <1>1 DEF Without, Holders, Granted, TypeInv, TypeOK
<1>5. FloorsOf(Holders(g))' = FloorsOf(S)
  <2>1. [l \in S |-> lease'[l].vram] = [l \in S |-> lease[l].vram]
    BY <1>4
  <2> QED BY <1>4, <2>1 DEF FloorsOf
<1>6. Ask[j].vram # 0 => FloorsOf(S) + Ask[j].vram + Margin <= Card[g].total
  <2>1. snap[j][g] # Offline => snap[j][g] \in Readings[g]
    BY DEF TypeInv, TypeOK
  <2>2. Ask[j].vram \in Nat /\ S \subseteq Granted
    BY LeasesAssumption DEF AskBody, Holders
  <2> QED BY <1>3, <2>1, <2>2, ReadingCovers DEF Admits
<1>7. \A l \in S : ~lease[l].exclusive
  BY <1>3 DEF Admits
<1>8. EffExclusive(Ask[j], g) => \A l \in S : lease[l].initiator = ModelManager
  BY <1>3 DEF Admits
<1>9. plan'[j].gpu = g /\ (plan'[j].exclusive => EffExclusive(Ask[j], g))
  BY <1>2
<1> HIDE DEF S
<1> QED BY <1>4, <1>5, <1>6, <1>7, <1>8, <1>9 DEF StillAdmits

LEMMA DecisionNext ==
  ASSUME OneManager
  PROVE  TypeInv /\ TypeInv' /\ DecisionStands /\ [Next]_vars => DecisionStands'
<1> SUFFICES ASSUME TypeInv, TypeInv', DecisionStands, [Next]_vars,
                    NEW j \in Job, pc'[j] = "insert"
             PROVE  lock'[mgr'[j]] = j /\ StillAdmits(j)'
  BY DEF DecisionStands
<1>1. lock'[mgr'[j]] = j
  BY LockNext DEF DecisionStands, LockHeld
<1>2. ASSUME NEW g \in Gpu, NEW back \in Reclaims(Ask[j], g), Choose(j, g, back)
      PROVE  StillAdmits(j)'
  BY <1>2, ChooseStands
<1>3. ASSUME pc[j] = "insert", plan'[j] = plan[j] PROVE StillAdmits(j)'
  <2>1. StillAdmits(j) /\ plan[j].gpu \in Gpu
    BY <1>3 DEF DecisionStands, TypeInv, PlanOK
  <2>2. ASSUME NEW k \in Job, NEW l \in LeaseId, Insert(k, l) PROVE FALSE
    <3>1. pc[k] = "insert" /\ pc'[k] = "reply"
      BY <2>2 DEF Insert, TypeInv, TypeOK
    <3>2. mgr[j] = mgr[k]
      BY DEF OneManager, TypeInv, TypeOK
    <3> QED BY <1>3, <3>1, <3>2 DEF DecisionStands
  <2> QED BY <1>3, <2>1, <2>2, TableStep, ShrinkStands
<1> QED BY <1>1, <1>2, <1>3, PlanStep

(* With one manager process, what the candidate loop decided still holds   *)
(* at the insert.                                                          *)
THEOREM DecisionCorrect == ASSUME OneManager PROVE Spec => []DecisionStands
<1>1. Init => DecisionStands
  BY DEF Init, DecisionStands
<1> QED BY <1>1, DecisionNext, TypeInvCorrect, PTL DEF Spec
-----------------------------------------------------------------------------
(* One manager process: what an exclusive lease and the floors promise.    *)

LEMMA AloneNext ==
  TypeInv /\ DecisionStands /\ ExclusiveAlone /\ [Next]_vars => ExclusiveAlone'
<1> SUFFICES ASSUME TypeInv, DecisionStands, ExclusiveAlone, [Next]_vars
             PROVE  ExclusiveAlone'
  OBVIOUS
<1>1. CASE Shrinks
  BY <1>1, ShrinksTable DEF ExclusiveAlone
<1>2. ASSUME NEW j \in Job, NEW l \in LeaseId, Insert(j, l) PROVE ExclusiveAlone'
  <2>1. /\ lease'[l].gpu = plan[j].gpu /\ lease'[l].exclusive = plan[j].exclusive
        /\ Granted' = Granted \cup {l} /\ l \notin Granted
        /\ \A k \in Granted : lease'[k] = lease[k]
    <3>1. lease'[l] = NewRow(j) /\ Granted' = Granted \cup {l} /\ l \notin Granted
      BY <1>2, InsertTable
    <3>2. \A k \in Granted : lease'[k] = lease[k]
      BY <1>2, <3>1, InsertTable DEF Granted
    <3> QED BY <3>1, <3>2 DEF NewRow
  <2>2. StillAdmits(j)
    BY <1>2 DEF Insert, DecisionStands
  <2>3. \A k \in Granted : lease[k].gpu = plan[j].gpu =>
          /\ ~lease[k].exclusive
          /\ plan[j].exclusive => lease[k].initiator = ModelManager
    BY <2>2 DEF StillAdmits, Holders
  <2> QED BY <2>1, <2>3 DEF ExclusiveAlone
<1> QED BY <1>1, <1>2, TableStep

(* An exclusive lease shares its card with resident models at most.        *)
THEOREM AloneCorrect == ASSUME OneManager PROVE Spec => []ExclusiveAlone
<1>1. Init => ExclusiveAlone
  BY DEF Init, ExclusiveAlone, Granted
<1> QED BY <1>1, AloneNext, TypeInvCorrect, DecisionCorrect, PTL DEF Spec

(* The new row adds its floor to those of its card, and to no other's.     *)
LEMMA InsertFloors ==
  ASSUME TypeInv, NEW j \in Job, NEW l \in LeaseId, Insert(j, l), NEW g \in Gpu
  PROVE  /\ FloorsOf(Holders(g)) \in Nat
         /\ g # plan[j].gpu => FloorsOf(Holders(g))' = FloorsOf(Holders(g))
         /\ g = plan[j].gpu =>
              FloorsOf(Holders(g))' = FloorsOf(Holders(g)) + Ask[j].vram
<1> DEFINE S == Holders(g)
           f == FloorMap(S)
           n == Ask[j].vram
<1>1. /\ lease'[l] = NewRow(j) /\ Granted' = Granted \cup {l} /\ l \notin Granted
  BY InsertTable
<1>2. \A k \in Granted : lease'[k] = lease[k]
  BY <1>1, InsertTable DEF Granted
<1>3. NewRow(j).gpu = plan[j].gpu /\ NewRow(j).vram = n
  BY DEF NewRow
<1>4. S \subseteq Granted /\ l \notin S /\ \A k \in S : lease'[k].vram = f[k]
  BY <1>1, <1>2 DEF Holders, FloorMap
<1>5. IsFiniteSet(S) /\ f \in [S -> Nat] /\ FloorsOf(S) = SumFloors(S, f)
      /\ FloorsOf(S) \in Nat
  BY <1>4, GrantedFloors
<1>6. n \in Nat
  BY LeasesAssumption DEF AskBody
<1>7. CASE g # plan[j].gpu
  <2>1. Holders(g)' = S
    BY <1>1, <1>2, <1>3, <1>7 DEF Holders
  <2>2. [k \in S |-> lease'[k].vram] = f
    BY <1>4 DEF FloorMap
  <2>3. FloorsOf(Holders(g))' = SumFloors(S, f)
    BY <2>1, <2>2 DEF FloorsOf
  <2> QED BY <1>5, <1>7, <2>3
<1>8. CASE g = plan[j].gpu
  <2> DEFINE h == [k \in S \cup {l} |-> lease'[k].vram]
  <2>1. Holders(g)' = S \cup {l}
    BY <1>1, <1>2, <1>3, <1>8 DEF Holders
  <2>2. h \in [S \cup {l} -> Nat] /\ h[l] = n /\ \A k \in S : h[k] = f[k]
    BY <1>1, <1>3, <1>4, <1>5, <1>6
  <2>3. FloorsOf(Holders(g))' = SumFloors(S \cup {l}, h)
    BY <2>1 DEF FloorsOf
  <2>4. SumFloors(S \cup {l}, h) = SumFloors(S, f) + n
    <3> HIDE DEF h, f, S, n
    <3> QED BY <1>4, <1>5, <1>6, <2>2, SumAdd
  <2> QED BY <1>5, <1>8, <2>3, <2>4
<1> QED BY <1>5, <1>7, <1>8

LEMMA FloorsNext ==
  TypeInv /\ TypeInv' /\ DecisionStands /\ FloorsFit /\ [Next]_vars => FloorsFit'
<1> SUFFICES ASSUME TypeInv, TypeInv', DecisionStands, FloorsFit, [Next]_vars,
                    NEW g \in Gpu
             PROVE  \/ FloorsOf(Holders(g))' = 0
                    \/ FloorsOf(Holders(g))' + Margin <= Card[g].total
  BY DEF FloorsFit
<1>1. Margin \in Nat /\ Card[g].total \in Nat
  BY LeasesAssumption
<1>2. CASE Shrinks
  BY <1>1, <1>2, FloorsShrink DEF FloorsFit
<1>3. ASSUME NEW j \in Job, NEW l \in LeaseId, Insert(j, l)
      PROVE  \/ FloorsOf(Holders(g))' = 0
             \/ FloorsOf(Holders(g))' + Margin <= Card[g].total
  <2>1. StillAdmits(j) /\ Ask[j].vram \in Nat
    BY <1>3, LeasesAssumption DEF Insert, DecisionStands, AskBody
  <2>2. CASE g # plan[j].gpu
    BY <1>3, <2>2, InsertFloors DEF FloorsFit
  <2>3. CASE g = plan[j].gpu /\ Ask[j].vram = 0
    BY <1>3, <2>3, InsertFloors DEF FloorsFit
  <2>4. CASE g = plan[j].gpu /\ Ask[j].vram # 0
    BY <1>3, <2>1, <2>4, InsertFloors DEF StillAdmits
  <2> QED BY <2>2, <2>3, <2>4
<1> QED BY <1>2, <1>3, TableStep

(* The floors promised on a card fit in it with the margin, although every *)
(* one was admitted on a reading taken before the lock.                    *)
THEOREM FloorsCorrect == ASSUME OneManager PROVE Spec => []FloorsFit
<1>1. Init => FloorsFit
  <2> SUFFICES ASSUME Init, NEW g \in Gpu PROVE FloorsOf(Holders(g)) = 0
    BY DEF FloorsFit
  <2>1. Holders(g) = {}
    BY DEF Init, Holders, Granted
  <2>2. Slots({}, [l \in {} |-> lease[l].vram]) = {}
    BY DEF Slots
  <2> QED BY <2>1, <2>2, FS_EmptySet DEF FloorsOf, SumFloors
<1> QED BY <1>1, FloorsNext, TypeInvCorrect, DecisionCorrect, PTL DEF Spec
-----------------------------------------------------------------------------
(* One manager process: the rows are the abstract registry's table.        *)

LEMMA AbstractTerms == \A r \in Row : Abstract(r) \in Terms /\ Abstract(r) # NoLease
BY LeasesAssumption DEF Row, Terms, Abstract

LEMMA ShrinkEnds ==
  ASSUME TypeInv, TypeInv', Shrinks
  PROVE  Promise!Next
<1> DEFINE S == {l \in LeaseId : lease'[l] = NoLease}
<1>1. \A l \in LeaseId : Table'[l] = IF l \in S THEN NoLease ELSE Table[l]
  BY DEF Table, Shrinks
<1>2. Table' = [l \in LeaseId |-> IF l \in S THEN NoLease ELSE Table[l]]
  BY <1>1 DEF Table
<1>3. Promise!End(S)
  BY <1>2 DEF Promise!End
<1> QED BY <1>3 DEF Promise!Next

(* Registry sums floors as Leases does.                                    *)
LEMMA SameSum ==
  ASSUME NEW S, NEW f
  PROVE  Promise!SumFloors(S, f) = SumFloors(S, f)
BY Zenon
DEF Promise!SumFloors, Promise!Slots, SumFloors, Slots, Promise!Cardinality, Cardinality

LEMMA TenantsHolders ==
  ASSUME TypeInv, NEW g
  PROVE  /\ Promise!Tenants(g) = Holders(g)
         /\ \A l \in Holders(g) : Table[l] = Abstract(lease[l])
         /\ Promise!Promised(Holders(g)) = FloorsOf(Holders(g))
<1>1. \A l \in LeaseId : Table[l] = NoLease <=> lease[l] = NoLease
  BY AbstractTerms DEF Table, TypeInv, TypeOK
<1>2. \A l \in Granted : Table[l] = Abstract(lease[l]) /\ Table[l].gpu = lease[l].gpu
                       /\ Table[l].vram = lease[l].vram
  BY DEF Table, Granted, Abstract
<1>3. Promise!Tenants(g) = Holders(g)
  BY <1>1, <1>2 DEF Promise!Tenants, Holders, Granted
<1>4. [l \in Holders(g) |-> Table[l].vram] = [l \in Holders(g) |-> lease[l].vram]
  BY <1>2 DEF Holders
<1>5. Promise!Promised(Holders(g)) = FloorsOf(Holders(g))
  BY <1>4, SameSum DEF Promise!Promised, FloorsOf
<1> QED BY <1>2, <1>3, <1>5 DEF Holders

LEMMA InsertAdmits ==
  ASSUME TypeInv, TypeInv', DecisionStands, NEW j \in Job, NEW l \in LeaseId, Insert(j, l)
  PROVE  Promise!Next
<1> DEFINE r == Abstract(NewRow(j))
           g == plan[j].gpu
<1>1. StillAdmits(j) /\ g \in Gpu /\ plan[j].exclusive \in BOOLEAN
  BY DEF Insert, DecisionStands, TypeInv, TypeOK, PlanOK
<1>2. r = [gpu |-> g, initiator |-> Ask[j].initiator, vram |-> Ask[j].vram,
           exclusive |-> plan[j].exclusive]
  BY DEF NewRow, Abstract
<1>3. r \in Offered
  BY <1>1, <1>2 DEF Offered
<1>4. Table[l] = NoLease
  BY InsertTable DEF Table
<1>5. Table' = [Table EXCEPT ![l] = r]
  <2>1. lease'[l] = NewRow(j) /\ NewRow(j) # NoLease
        /\ \A k \in LeaseId \ {l} : lease'[k] = lease[k]
    BY InsertTable, RowNotNoLease
  <2>2. Table'[l] = r /\ \A k \in LeaseId \ {l} : Table'[k] = Table[k]
    BY <2>1 DEF Table
  <2> QED BY <2>2 DEF Table
<1>0. \A t \in Holders(g) : /\ Table[t].exclusive = lease[t].exclusive
                            /\ Table[t].initiator = lease[t].initiator
  <2>1. \A t \in Holders(g) : Table[t] = Abstract(lease[t])
    BY TenantsHolders
  <2> QED
    <3> SUFFICES ASSUME NEW t \in Holders(g), Table[t] = Abstract(lease[t])
                 PROVE  /\ Table[t].exclusive = lease[t].exclusive
                        /\ Table[t].initiator = lease[t].initiator
      BY <2>1, Zenon
    <3> QED BY DEF Abstract
<1>6. \A t \in Promise!Tenants(g) : ~Table[t].exclusive
  BY <1>0, <1>1, TenantsHolders DEF StillAdmits
<1>7. r.exclusive => \A t \in Promise!Tenants(g) : Table[t].initiator = ModelManager
  BY <1>0, <1>1, <1>2, TenantsHolders DEF StillAdmits
<1>8. r.vram # 0 =>
        Promise!Promised(Promise!Tenants(g)) + r.vram + Margin <= Card[g].total
  BY <1>1, <1>2, TenantsHolders DEF StillAdmits
<1>9. Promise!Admit(l, r)
  <2>1. r.gpu = g /\ [h \in Gpu |-> Card[h].total][g] = Card[g].total
    BY <1>1, <1>2
  <2> HIDE DEF r, g
  <2> QED BY <1>4, <1>5, <1>6, <1>7, <1>8, <2>1
          DEF Promise!Admit, Promise!ModelManager, ModelManager
<1> QED BY <1>3, <1>9 DEF Promise!Next

LEMMA StepKept ==
  TypeInv /\ TypeInv' /\ DecisionStands /\ [Next]_vars => [Promise!Next]_Table
BY TableStep, ShrinkEnds, InsertAdmits

(* The lease registry implements the abstract one.                         *)
THEOREM Implements == ASSUME OneManager PROVE Spec => Kept
<1>1. Init => Promise!Init
  BY DEF Init, Promise!Init, Table
<1> QED BY <1>1, StepKept, TypeInvCorrect, DecisionCorrect, PTL
        DEF Spec, Kept, Promise!Spec
-----------------------------------------------------------------------------
(* How a row's process changes, how a row ends, and how a client comes to  *)
(* its lease and leaves it: what each theorem below asks of a step.        *)

(* A row keeps its initiator, and its pid but for its holder's heartbeat.  *)
LEMMA RowStep ==
  ASSUME TypeInv, [Next]_vars, NEW l \in Granted, l \in Granted'
  PROVE  /\ lease'[l].initiator = lease[l].initiator /\ lease'[l].gpu = lease[l].gpu
         /\ \/ lease'[l].pid = lease[l].pid
            \/ \E k \in Job, m \in Manager :
                 /\ Heartbeat(k, m) /\ mine[k] = l
                 /\ Child[k] # NoPid /\ lease'[l].pid = Child[k]
<1> USE DEF TypeInv, TypeOK, Granted
<1>1. lease'[l].initiator = lease[l].initiator /\ lease'[l].gpu = lease[l].gpu
  BY TableStep, ShrinksTable, InsertTable
<1> DEFINE Beats == \E k \in Job, m \in Manager : /\ Heartbeat(k, m) /\ mine[k] = l
                                                  /\ Child[k] # NoPid /\ lease'[l].pid = Child[k]
           Same == lease'[l].pid = lease[l].pid
<1>2. ASSUME NEW k \in Job, NEW m \in Manager, Heartbeat(k, m) PROVE Same \/ Beats
  <2>1. lease[l] \in Row /\ mine[k] \in LeaseId /\ lease[mine[k]] \in Row
    BY <1>2 DEF Heartbeat
  <2>2. CASE mine[k] = l
    <3>1. lease'[l].pid = IF Child[k] = NoPid THEN lease[l].pid ELSE Child[k]
      BY <1>2, <2>1, <2>2 DEF Heartbeat, Row
    <3> QED BY <1>2, <2>2, <3>1
  <2>3. CASE mine[k] # l
    BY <1>2, <2>1, <2>3 DEF Heartbeat
  <2> QED BY <2>2, <2>3
<1>3. ASSUME NEW i \in LeaseId, Lapse(i) PROVE Same
  <2>1. lease[l] \in Row
    OBVIOUS
  <2> QED BY <1>3, <2>1 DEF Lapse, Row
<1>4. ASSUME NEW S, lease' = Without(S) PROVE Same
  BY <1>4 DEF Without
<1>5. ASSUME NEW j \in Job, NEW i \in LeaseId, Insert(j, i) PROVE Same
  BY <1>5, InsertTable
<1>6. ASSUME UNCHANGED lease PROVE Same
  BY <1>6
<1>7. ASSUME NEW j \in Job, ClientStep(j) PROVE Same \/ Beats
  BY <1>2, <1>4, <1>6, <1>7
  DEF ClientStep, Refuse, Request, Asks, Release, Reply, LoseReply, Abandon
<1>8. ASSUME NEW j \in Job, HandlerStep(j) PROVE Same
  BY <1>4, <1>5, <1>6, <1>8
  DEF HandlerStep, Probe, ProbeRaises, Choose, PassOver, Looks, RacedAway
<1>9. ASSUME EnvironmentStep PROVE Same
  BY <1>3, <1>6, <1>9
  DEF EnvironmentStep, Exit, Spawn, Restart, SetHold, ClearHold, MpsToggle
<1>10. ASSUME NEW m \in Manager, Reap(m) PROVE Same
  BY <1>4, <1>10 DEF Reap
<1>11. Same \/ Beats
  BY <1>6, <1>7, <1>8, <1>9, <1>10 DEF Next, vars
<1> QED BY <1>1, <1>11

(* A row ends because it is overdue and its process is gone, because its   *)
(* holder releases it, or because its own process asks again.              *)
LEMMA EndStep ==
  ASSUME TypeInv, [Next]_vars, NEW l \in Granted, l \notin Granted'
  PROVE  \/ l \in Overdue
         \/ \E k \in Job, m \in Manager : Release(k, m) /\ mine[k] = l
         \/ \E k \in Job, g \in Gpu : /\ pc[k] = "choose"
                                      /\ l \in Orphans(Ask[k], g)
<1> USE DEF TypeInv, TypeOK, Granted
<1> DEFINE Released == \E k \in Job, m \in Manager : Release(k, m) /\ mine[k] = l
           Reclaimed == \E k \in Job, g \in Gpu : pc[k] = "choose" /\ l \in Orphans(Ask[k], g)
<1>1. ASSUME NEW S, lease' = Without(S) PROVE l \in S
  BY <1>1 DEF Without
<1>2. ASSUME lease'[l] \in Row PROVE FALSE
  BY <1>2, RowNotNoLease
<1>3. lease[l] \in Row
  OBVIOUS
<1>4. ASSUME UNCHANGED lease PROVE FALSE
  BY <1>4
<1>5. ASSUME NEW k \in Job, NEW m \in Manager, Heartbeat(k, m) PROVE FALSE
  <2>1. mine[k] \in LeaseId /\ lease[mine[k]] \in Row
    BY <1>5 DEF Heartbeat
  <2>2. CASE mine[k] = l
    <3> DEFINE q == IF Child[k] = NoPid THEN lease[l].pid ELSE Child[k]
    <3>1. q \in Pid \cup {NoPid}
      BY <1>3, LeasesAssumption DEF Row
    <3>2. lease'[l] = [lease[l] EXCEPT !.due = FALSE, !.pid = q]
      BY <1>3, <1>5, <2>1, <2>2 DEF Heartbeat, Row
    <3> HIDE DEF q
    <3>3. [lease[l] EXCEPT !.due = FALSE, !.pid = q] \in Row
      BY <1>3, <3>1, RowUpdate
    <3> QED BY <1>2, <3>2, <3>3
  <2>3. CASE mine[k] # l
    BY <1>5, <2>1, <2>3 DEF Heartbeat
  <2> QED BY <2>2, <2>3
<1>6. ASSUME NEW i \in LeaseId, Lapse(i) PROVE FALSE
  <2>1. lease[i] \in Row
    BY <1>6 DEF Lapse
  <2>2. lease'[i] = [lease[i] EXCEPT !.due = TRUE] /\ (l # i => lease'[l] = lease[l])
    BY <1>6 DEF Lapse
  <2>3. lease'[i] \in Row
    BY <2>1, <2>2, RowUpdate
  <2> QED BY <1>2, <1>3, <2>2, <2>3
<1>7. ASSUME NEW j \in Job, NEW i \in LeaseId, Insert(j, i) PROVE FALSE
  BY <1>7, InsertTable
<1>8. ASSUME NEW k \in Job, ClientStep(k) PROVE l \in Overdue \/ Released
  BY <1>1, <1>4, <1>5, <1>8
  DEF ClientStep, Refuse, Request, Asks, Release, Reply, LoseReply, Abandon
<1>9. ASSUME NEW k \in Job, HandlerStep(k) PROVE Reclaimed
  <2>1. ASSUME NEW g \in Gpu, NEW back \in Reclaims(Ask[k], g), Looks(k, g, back)
        PROVE  Reclaimed
    <3>1. l \in back /\ pc[k] = "choose"
      BY <1>1, <2>1 DEF Looks
    <3>2. l \in Orphans(Ask[k], g)
      BY <3>1 DEF Reclaims
    <3> QED BY <3>1, <3>2
  <2> QED BY <1>4, <1>7, <1>9, <2>1
          DEF HandlerStep, Probe, ProbeRaises, Choose, PassOver, RacedAway
<1>10. ASSUME EnvironmentStep PROVE FALSE
  BY <1>4, <1>6, <1>10
  DEF EnvironmentStep, Exit, Spawn, Restart, SetHold, ClearHold, MpsToggle
<1>11. ASSUME NEW m \in Manager, Reap(m) PROVE l \in Overdue
  BY <1>1, <1>11 DEF Reap
<1> QED BY <1>4, <1>8, <1>9, <1>10, <1>11 DEF Next, vars

(* Which rows a client may call its own, for the steps that leave it alone. *)
LEMMA HolderStep ==
  ASSUME TypeInv, [Next]_vars, NEW j \in Job, ~\E l \in LeaseId : Insert(j, l)
  PROVE  /\ pc'[j] \in {"reply", "holding"} =>
              pc[j] \in {"reply", "holding"} /\ mine'[j] = mine[j]
         /\ pc[j] \in {"reply", "holding"} =>
              \/ pc'[j] \in {"reply", "holding"}
              \/ pc'[j] = After(j) /\ mine'[j] = NoId
         /\ pc[j] = "holding" /\ pc'[j] # After(j) => pc'[j] = "holding"
         /\ pc[j] = "done" => pc'[j] = "done"
<1> USE DEF TypeInv, TypeOK
<1> DEFINE Goal ==
      /\ pc'[j] \in {"reply", "holding"} =>
           pc[j] \in {"reply", "holding"} /\ mine'[j] = mine[j]
      /\ pc[j] \in {"reply", "holding"} =>
           \/ pc'[j] \in {"reply", "holding"}
           \/ pc'[j] = After(j) /\ mine'[j] = NoId
      /\ pc[j] = "holding" /\ pc'[j] # After(j) => pc'[j] = "holding"
      /\ pc[j] = "done" => pc'[j] = "done"
<1>1. After(j) \notin {"reply", "holding"}
  BY DEF After
<1>2. ASSUME pc'[j] = pc[j], mine'[j] = mine[j] PROVE Goal
  BY <1>2
<1>3. ASSUME pc[j] \in {"idle", "probe", "choose", "insert"},
             pc'[j] \in {"idle", "probe", "choose", "insert"}
      PROVE  Goal
  BY <1>3
<1>4. ASSUME NEW S, Forget(S), j \in S => pc[j] # "done" PROVE Goal
  BY <1>1, <1>2, <1>4 DEF Forget
<1>5. ASSUME NEW k \in Job, ClientStep(k) PROVE Goal
  <2>1. ASSUME NEW m \in Manager, Request(k, m) PROVE Goal
    BY <1>2, <1>3, <2>1 DEF Request, Asks
  <2>2. CASE Reply(k)
    BY <1>2, <2>2 DEF Reply
  <2> QED
    BY <1>2, <1>4, <1>5, <2>1, <2>2
    DEF ClientStep, Refuse, Heartbeat, Release, LoseReply, Abandon
<1>6. ASSUME NEW k \in Job, HandlerStep(k) PROVE Goal
  <2>1. ASSUME k # j PROVE Goal
    <3>1. pc'[j] = pc[j] /\ mine'[j] = mine[j]
      BY <1>6, <2>1
      DEF HandlerStep, Probe, ProbeRaises, Choose, PassOver, Looks, Insert, RacedAway,
          NextCandidate
    <3> QED BY <1>2, <3>1
  <2>2. ASSUME k = j PROVE Goal
    <3>1. /\ pc[j] \in {"idle", "probe", "choose", "insert"}
          /\ pc'[j] \in {"idle", "probe", "choose", "insert"}
      BY <1>6, <2>2
      DEF HandlerStep, Probe, ProbeRaises, Choose, PassOver, Looks, RacedAway, NextCandidate
    <3> QED BY <1>3, <3>1
  <2> QED BY <2>1, <2>2
<1>7. ASSUME EnvironmentStep PROVE Goal
  <2>1. ASSUME NEW m \in Manager, Restart(m) PROVE Goal
    BY <1>4, <2>1 DEF Restart, Waiting, InFlight
  <2>2. ASSUME NEW p \in Pid, Exit(p) PROVE Goal
    BY <1>4, <2>2 DEF Exit
  <2> QED BY <1>2, <1>7, <2>1, <2>2
          DEF EnvironmentStep, Lapse, Spawn, SetHold, ClearHold, MpsToggle
<1> QED BY <1>2, <1>5, <1>6, <1>7 DEF Next, Reap, vars
-----------------------------------------------------------------------------
(* A client's own row: no two clients remember one id, and the row a       *)
(* client remembers bears its initiator and one of its two processes.      *)
OwnRow(j) == mine[j] # NoId =>
  /\ pc[j] \in {"reply", "holding"}
  /\ mine[j] \in Granted =>
       /\ lease[mine[j]].initiator = Ask[j].initiator
       /\ lease[mine[j]].pid \in {Ask[j].pid} \cup ({Child[j]} \ {NoPid})

Apart == \A j, k \in Job : mine[j] = mine[k] /\ mine[j] # NoId => j = k

OwnInv == Apart /\ \A j \in Job : OwnRow(j)

LEMMA OneInsert ==
  ASSUME TypeInv, NEW j \in Job, NEW l \in LeaseId, Insert(j, l),
         NEW k \in Job, NEW i \in LeaseId, Insert(k, i)
  PROVE  j = k
BY DEF Insert, TypeInv, TypeOK

LEMMA ApartNext ==
  ASSUME TypeInv, OwnInv, [Next]_vars
  PROVE  Apart'
<1> SUFFICES ASSUME NEW j \in Job, NEW k \in Job, j # k,
                    mine'[j] = mine'[k], mine'[j] # NoId
             PROVE  FALSE
  BY DEF Apart
<1>1. ASSUME NEW a \in Job, NEW b \in Job, a # b, mine'[a] = mine'[b],
             NEW l \in LeaseId, Insert(a, l)
      PROVE  FALSE
  <2>1. mine'[a] = l /\ mine'[b] = mine[b] /\ mine[b] # l
    BY <1>1 DEF Insert, FreshIds, TypeInv, TypeOK
  <2> QED BY <1>1, <2>1
<1>2. (\A l \in LeaseId : ~Insert(j, l)) /\ (\A l \in LeaseId : ~Insert(k, l))
  BY <1>1
<1>3. mine'[j] = mine[j] /\ mine'[k] = mine[k]
  BY <1>2, MineStep
<1> QED BY <1>3 DEF OwnInv, Apart

LEMMA OwnRowNext ==
  ASSUME TypeInv, OwnInv, [Next]_vars, NEW j \in Job
  PROVE  OwnRow(j)'
<1> SUFFICES ASSUME mine'[j] # NoId
             PROVE  /\ pc'[j] \in {"reply", "holding"}
                    /\ mine'[j] \in Granted' =>
                         /\ lease'[mine'[j]].initiator = Ask[j].initiator
                         /\ lease'[mine'[j]].pid \in {Ask[j].pid} \cup ({Child[j]} \ {NoPid})
  BY DEF OwnRow
<1>1. ASSUME NEW l \in LeaseId, Insert(j, l)
      PROVE  /\ pc'[j] = "reply" /\ mine'[j] = l
             /\ lease'[l].initiator = Ask[j].initiator /\ lease'[l].pid = Ask[j].pid
  BY <1>1, InsertTable DEF Insert, NewRow, TypeInv, TypeOK
<1>2. ASSUME ~\E l \in LeaseId : Insert(j, l)
      PROVE  pc'[j] \in {"reply", "holding"} /\ mine'[j] = mine[j]
  BY <1>2, MineStep, HolderStep DEF OwnInv, OwnRow
<1>3. ASSUME ~\E l \in LeaseId : Insert(j, l), mine'[j] \in Granted'
      PROVE  /\ lease'[mine'[j]].initiator = Ask[j].initiator
             /\ lease'[mine'[j]].pid \in {Ask[j].pid} \cup ({Child[j]} \ {NoPid})
  <2> DEFINE l == mine[j]
  <2>1. mine'[j] = l /\ l \in Granted /\ l \in Granted' /\ l # NoId
    BY <1>2, <1>3, MineKept
  <2>2. /\ lease[l].initiator = Ask[j].initiator
        /\ lease[l].pid \in {Ask[j].pid} \cup ({Child[j]} \ {NoPid})
    BY <2>1 DEF OwnInv, OwnRow
  <2>3. ASSUME NEW k \in Job, mine[k] = l PROVE k = j
    BY <2>1, <2>3 DEF OwnInv, Apart
  <2> QED BY <2>1, <2>2, <2>3, RowStep
<1> QED BY <1>1, <1>2, <1>3

LEMMA OwnInvCorrect == Spec => []OwnInv
<1>1. Init => OwnInv
  BY DEF Init, OwnInv, Apart, OwnRow
<1>2. TypeInv /\ OwnInv /\ [Next]_vars => OwnInv'
  BY ApartNext, OwnRowNext DEF OwnInv
<1> QED BY <1>1, <1>2, TypeInvCorrect, PTL DEF Spec
-----------------------------------------------------------------------------
(* Clients of one initiator ask with pids of their own: none is another's  *)
(* process, or a request of the one would reclaim the row of the other.    *)
OwnPids ==
  \A j, k \in Job :
    j # k /\ Ask[k].initiator = Ask[j].initiator /\ Ask[k].pid # NoPid
    => Ask[k].pid \notin {Ask[j].pid, Child[j]}

LEMMA WorkingStays ==
  ASSUME OwnPids, TypeInv, OwnInv, [Next]_vars, NEW j \in Job, Working(j),
         mine[j] \in Granted, mine'[j] = mine[j]
  PROVE  mine[j] \in Granted'
<1> DEFINE l == mine[j]
<1>1. /\ pc[j] \in {"reply", "holding"} /\ l \in LeaseId /\ l # NoId
      /\ lease[l].initiator = Ask[j].initiator
      /\ lease[l].pid \in {Ask[j].pid} \cup ({Child[j]} \ {NoPid})
  BY LeasesAssumption DEF OwnInv, OwnRow, Granted
<1>2. l \notin Overdue
  BY <1>1 DEF Overdue, Working
<1>3. ASSUME NEW k \in Job, NEW m \in Manager, Release(k, m), mine[k] = l PROVE FALSE
  <2>1. k = j /\ mine'[k] = NoId
    BY <1>1, <1>3 DEF OwnInv, Apart, Release, Forget
  <2> QED BY <1>1, <2>1
<1>4. ASSUME NEW k \in Job, NEW g \in Gpu, pc[k] = "choose", l \in Orphans(Ask[k], g)
      PROVE  FALSE
  <2>1. k # j
    BY <1>1, <1>4
  <2>2. /\ Ask[k].pid # NoPid /\ lease[l].pid = Ask[k].pid
        /\ lease[l].initiator = Ask[k].initiator
    BY <1>4 DEF Orphans
  <2> QED BY <1>1, <2>1, <2>2 DEF OwnPids
<1> QED BY <1>2, <1>3, <1>4, EndStep

(* Only its own release ends the lease of a client whose processes run,    *)
(* with any number of manager processes on the database and pids that are  *)
(* given out again (admission.py:99-121, 215-231, 301-323).                *)
THEOREM StaysCorrect == ASSUME OwnPids PROVE Spec => LeaseStays
<1>1. ASSUME TypeInv, OwnInv, [Next]_vars
      PROVE  [\A j \in Job : Working(j) /\ mine[j] \in Granted /\ mine'[j] = mine[j] =>
                mine[j] \in Granted']_vars
  BY <1>1, WorkingStays
<1> QED BY <1>1, TypeInvCorrect, OwnInvCorrect, PTL DEF Spec, LeaseStays

(* From its insert on a client has a row, while its processes run.         *)
Keeps(j) == pc[j] \in {"reply", "holding"} =>
              mine[j] # NoId /\ (Working(j) => mine[j] \in Granted)

LEMMA KeepsNext ==
  ASSUME OwnPids, ~Recycle, TypeInv, OwnInv, [Next]_vars, NEW j \in Job, Keeps(j)
  PROVE  Keeps(j)'
<1> SUFFICES ASSUME pc'[j] \in {"reply", "holding"}
             PROVE  mine'[j] # NoId /\ (Working(j)' => mine'[j] \in Granted')
  BY DEF Keeps
<1>1. ASSUME NEW l \in LeaseId, Insert(j, l) PROVE mine'[j] # NoId /\ mine'[j] \in Granted'
  <2>1. mine'[j] = l
    BY <1>1 DEF Insert, TypeInv, TypeOK
  <2>2. l \in Granted' /\ l # NoId
    BY <1>1, InsertTable, LeasesAssumption
  <2> QED BY <2>1, <2>2
<1>2. ASSUME ~\E l \in LeaseId : Insert(j, l)
      PROVE  mine'[j] # NoId /\ (Working(j)' => mine'[j] \in Granted')
  <2>1. pc[j] \in {"reply", "holding"} /\ mine'[j] = mine[j]
    BY <1>2, HolderStep
  <2>2. alive' \subseteq alive
    <3>1. ASSUME NEW k \in Job, ClientStep(k) PROVE alive' = alive
      BY <3>1
      DEF ClientStep, Refuse, Request, Heartbeat, Release, Reply, LoseReply, Abandon
    <3>2. ASSUME NEW k \in Job, HandlerStep(k) PROVE alive' = alive
      BY <3>2
      DEF HandlerStep, Probe, ProbeRaises, Choose, PassOver, Looks, Insert, RacedAway
    <3>3. ASSUME EnvironmentStep PROVE alive' \subseteq alive
      BY <3>3
      DEF EnvironmentStep, Lapse, Exit, Spawn, Restart, SetHold, ClearHold, MpsToggle
    <3> QED BY <3>1, <3>2, <3>3 DEF Next, Reap, vars
  <2>3. Working(j)' => Working(j)
    BY <2>2 DEF Working
  <2> QED BY <2>1, <2>3, WorkingStays DEF Keeps
<1> QED BY <1>1, <1>2

(* A job whose registered processes run keeps its lease, if a pid is not   *)
(* given out again within the run (admission.py:99-121).                   *)
THEOREM WorkingCorrect == ASSUME OwnPids, ~Recycle PROVE Spec => []WorkingJobKeepsLease
<1> DEFINE AllKeep == \A j \in Job : Keeps(j)
<1>1. Init => AllKeep
  BY DEF Init, Keeps
<1>2. TypeInv /\ OwnInv /\ AllKeep /\ [Next]_vars => AllKeep'
  BY KeepsNext
<1>3. AllKeep => WorkingJobKeepsLease
  BY DEF Keeps, WorkingJobKeepsLease
<1> QED BY <1>1, <1>2, <1>3, TypeInvCorrect, OwnInvCorrect, PTL DEF Spec
-----------------------------------------------------------------------------
(* The child that a wrapped command rebinds its lease to is a process of   *)
(* its own: nobody with the same initiator asks with it or rebinds to it.  *)
OwnChildren ==
  \A j, k \in Job :
    Child[j] # NoPid /\ Ask[k].initiator = Ask[j].initiator
    => Ask[k].pid # Child[j] /\ (Child[k] = Child[j] => k = j)

(* A row bound to a child is the one its client holds, or the client is    *)
(* gone: it never asks again.                                              *)
ChildRow(k) ==
  \A l \in Granted :
    Child[k] # NoPid /\ lease[l].pid = Child[k] /\ lease[l].initiator = Ask[k].initiator
    => pc[k] = "done" \/ (pc[k] = "holding" /\ mine[k] = l)

(* No row of the same process is left on the card about to be inserted on. *)
InsertFree(j) == pc[j] = "insert" => Orphans(Ask[j], plan[j].gpu) = {}

HolderInv == /\ OneLeasePerHolder
             /\ \A j \in Job : ChildRow(j) /\ InsertFree(j)

LEMMA NewRowStep ==
  ASSUME TypeInv, [Next]_vars, NEW l \in Granted', l \notin Granted
  PROVE  \E j \in Job : /\ Insert(j, l) /\ lease'[l].pid = Ask[j].pid
                        /\ lease'[l].initiator = Ask[j].initiator
                        /\ lease'[l].gpu = plan[j].gpu
                        /\ \A k \in Granted : k # l /\ lease'[k] = lease[k]
<1>1. PICK j \in Job, i \in LeaseId : Insert(j, i)
  BY TableStep, ShrinksTable
<1>2. i = l
  BY <1>1, InsertTable
<1>3. lease'[l] = NewRow(j) /\ \A k \in Granted : k # l /\ lease'[k] = lease[k]
  BY <1>1, <1>2, InsertTable DEF Granted
<1> QED BY <1>1, <1>2, <1>3 DEF NewRow

LEMMA ChildRowNext ==
  ASSUME OwnChildren, TypeInv, OwnInv, [Next]_vars, NEW k \in Job, ChildRow(k)
  PROVE  ChildRow(k)'
<1> SUFFICES ASSUME NEW l \in Granted', Child[k] # NoPid, lease'[l].pid = Child[k],
                    lease'[l].initiator = Ask[k].initiator
             PROVE  pc'[k] = "done" \/ (pc'[k] = "holding" /\ mine'[k] = l)
  BY DEF ChildRow
<1>1. l \in Granted
  BY NewRowStep DEF OwnChildren
<1>2. lease[l].initiator = Ask[k].initiator
  BY <1>1, RowStep
<1>3. ASSUME lease[l].pid = Child[k]
      PROVE  pc'[k] = "done" \/ (pc'[k] = "holding" /\ mine'[k] = l)
  <2>1. pc[k] = "done" \/ (pc[k] = "holding" /\ mine[k] = l)
    BY <1>1, <1>2, <1>3 DEF ChildRow
  <2>2. ~\E i \in LeaseId : Insert(k, i)
    BY <2>1 DEF Insert
  <2>3. After(k) = "done"
    BY DEF After
  <2> QED BY <2>1, <2>2, <2>3, HolderStep
<1>4. ASSUME NEW i \in Job, NEW m \in Manager, Heartbeat(i, m), mine[i] = l,
             Child[i] # NoPid, lease'[l].pid = Child[i]
      PROVE  pc'[k] = "holding" /\ mine'[k] = l
  <2>1. l # NoId
    BY <1>1, LeasesAssumption DEF Granted
  <2>2. Ask[i].initiator = Ask[k].initiator
    BY <1>1, <1>2, <1>4, <2>1 DEF OwnInv, OwnRow
  <2>3. i = k
    BY <1>4, <2>2 DEF OwnChildren
  <2> QED BY <1>4, <2>3 DEF Heartbeat
<1> QED BY <1>1, <1>3, <1>4, RowStep

LEMMA InsertFreeNext ==
  ASSUME OneManager, OwnChildren, TypeInv, OwnInv, LockHeld, HolderInv, [Next]_vars,
         NEW j \in Job
  PROVE  InsertFree(j)'
<1> SUFFICES ASSUME pc'[j] = "insert", NEW l \in Orphans(Ask[j], plan[j].gpu)' PROVE FALSE
  BY DEF InsertFree
<1>1. /\ l \in Granted' /\ lease'[l].gpu = plan'[j].gpu /\ Ask[j].pid # NoPid
      /\ lease'[l].pid = Ask[j].pid /\ lease'[l].initiator = Ask[j].initiator
  BY DEF Orphans, Holders
<1>2. ASSUME NEW g \in Gpu, NEW back \in Reclaims(Ask[j], g), Choose(j, g, back) PROVE FALSE
  <2>1. plan'[j].gpu = g /\ lease' = Without(back)
    BY <1>2 DEF Choose, Looks, TypeInv, TypeOK
  <2>2. l \in Granted /\ l \notin back /\ lease'[l] = lease[l]
    BY <1>1, <2>1 DEF Granted, Without
  <2>3. l \in Orphans(Ask[j], g)
    BY <1>1, <2>1, <2>2 DEF Orphans, Holders
  <2>4. PICK i \in Orphans(Ask[j], g) : back = {i}
    BY <2>3 DEF Reclaims
  <2>5. i = l
    BY <1>1, <2>3, <2>4 DEF HolderInv, OneLeasePerHolder, Orphans, Holders
  <2> QED BY <2>2, <2>4, <2>5
<1>3. ASSUME pc[j] = "insert", plan'[j] = plan[j] PROVE FALSE
  <2>1. CASE l \notin Granted
    <3>1. PICK k \in Job : Insert(k, l)
      BY <1>1, <2>1, NewRowStep
    <3>2. mgr[j] = mgr[k] /\ pc[k] = "insert"
      BY <3>1 DEF OneManager, Insert, TypeInv, TypeOK
    <3>3. j = k
      BY <1>3, <3>2 DEF LockHeld
    <3> QED BY <3>1, <3>3 DEF Insert, TypeInv, TypeOK
  <2>2. CASE l \in Granted
    <3>1. lease[l].initiator = Ask[j].initiator /\ lease[l].gpu = plan[j].gpu
      BY <1>1, <1>3, <2>2, RowStep
    <3>2. lease[l].pid # Ask[j].pid
      BY <1>1, <1>3, <2>2, <3>1 DEF HolderInv, InsertFree, Orphans, Holders
    <3>3. PICK i \in Job : mine[i] = l /\ Child[i] # NoPid /\ lease'[l].pid = Child[i]
      BY <1>1, <2>2, <3>2, RowStep
    <3>4. Ask[i].initiator = Ask[j].initiator
      BY <2>2, <3>1, <3>3, LeasesAssumption DEF OwnInv, OwnRow, Granted
    <3> QED BY <1>1, <3>3, <3>4 DEF OwnChildren
  <2> QED BY <2>1, <2>2
<1> QED BY <1>2, <1>3, PlanStep

LEMMA OnePerHolderNext ==
  ASSUME OwnChildren, TypeInv, OwnInv, HolderInv, [Next]_vars
  PROVE  OneLeasePerHolder'
<1> DEFINE Twins(l, k) == /\ lease[l].gpu = lease[k].gpu /\ lease[l].pid = lease[k].pid
                          /\ lease[l].initiator = lease[k].initiator
                          /\ lease[l].pid # NoPid /\ l # k
<1> SUFFICES ASSUME NEW l \in Granted', NEW k \in Granted', Twins(l, k)' PROVE FALSE
  BY DEF OneLeasePerHolder
<1>1. ASSUME NEW a \in Granted', NEW b \in Granted', Twins(a, b)' PROVE a \in Granted
  <2> SUFFICES ASSUME a \notin Granted PROVE FALSE
    OBVIOUS
  <2>1. PICK j \in Job : /\ Insert(j, a) /\ lease'[a].pid = Ask[j].pid
                         /\ lease'[a].initiator = Ask[j].initiator
                         /\ lease'[a].gpu = plan[j].gpu
                         /\ \A i \in Granted : i # a /\ lease'[i] = lease[i]
    BY NewRowStep
  <2>2. b \in Granted
    <3>1. a \in LeaseId
      BY DEF Granted
    <3>2. Granted' = Granted \cup {a}
      BY <2>1, <3>1, InsertTable
    <3> QED BY <1>1, <3>2
  <2>3. b \in Orphans(Ask[j], plan[j].gpu)
    BY <1>1, <2>1, <2>2 DEF Orphans, Holders
  <2> QED BY <2>1, <2>3 DEF HolderInv, InsertFree, Insert
<1>2. l \in Granted /\ k \in Granted
  BY <1>1
<1>3. ASSUME NEW a \in Granted, NEW b \in Granted, a \in Granted', b \in Granted',
             Twins(a, b)', NEW i \in Job, NEW m \in Manager, Heartbeat(i, m), mine[i] = a,
             Child[i] # NoPid, lease'[a].pid = Child[i]
      PROVE  FALSE
  <2>1. pc[i] = "holding" /\ a # b /\ lease'[b].pid = Child[i]
    BY <1>3 DEF Heartbeat
  <2>2. lease[b].initiator = Ask[i].initiator
    <3>1. lease[a].initiator = Ask[i].initiator
      BY <1>3, LeasesAssumption DEF OwnInv, OwnRow, Granted
    <3> QED BY <1>3, <3>1, RowStep
  <2>3. CASE lease'[b].pid = lease[b].pid
    BY <1>3, <2>1, <2>2, <2>3 DEF HolderInv, ChildRow
  <2>4. ASSUME NEW n \in Job, mine[n] = b, Child[n] # NoPid, lease'[b].pid = Child[n]
        PROVE  FALSE
    <3>1. Ask[n].initiator = Ask[i].initiator
      BY <1>3, <2>2, <2>4, LeasesAssumption DEF OwnInv, OwnRow, Granted
    <3>2. n = i
      BY <1>3, <2>1, <2>4, <3>1 DEF OwnChildren
    <3> QED BY <1>3, <2>1, <2>4, <3>2
  <2> QED BY <1>3, <2>3, <2>4, RowStep
<1>4. lease'[l].pid = lease[l].pid /\ lease'[k].pid = lease[k].pid
  BY <1>2, <1>3, RowStep
<1>5. Twins(l, k)
  BY <1>2, <1>4, RowStep
<1> QED BY <1>2, <1>5 DEF HolderInv, OneLeasePerHolder

LEMMA LockCorrect == Spec => []LockHeld
<1>1. Init => LockHeld
  BY DEF Init, LockHeld
<1> QED BY <1>1, LockNext, TypeInvCorrect, PTL DEF Spec

(* One manager process: whoever asks again on a card with the same process *)
(* has one row there, for commands that rebind their lease to a child and  *)
(* services that lost a reply or a release (admission.py:219-231, 301-314).*)
THEOREM HolderCorrect ==
  ASSUME OneManager, OwnChildren PROVE Spec => []OneLeasePerHolder
<1>1. Init => HolderInv
  BY DEF Init, HolderInv, OneLeasePerHolder, ChildRow, InsertFree, Granted
<1>2. TypeInv /\ OwnInv /\ LockHeld /\ HolderInv /\ [Next]_vars => HolderInv'
  <2> SUFFICES ASSUME TypeInv, OwnInv, LockHeld, HolderInv, [Next]_vars PROVE HolderInv'
    OBVIOUS
  <2>1. \A j \in Job : ChildRow(j)
    BY DEF HolderInv
  <2> QED BY <2>1, ChildRowNext, InsertFreeNext, OnePerHolderNext DEF HolderInv
<1>3. HolderInv => OneLeasePerHolder
  BY DEF HolderInv
<1> QED BY <1>1, <1>2, <1>3, TypeInvCorrect, OwnInvCorrect, LockCorrect, PTL DEF Spec
-----------------------------------------------------------------------------
(* Whoever has the lock of a manager is one of its handlers, between its   *)
(* first look at a card and its insert or deferral.                        *)
LockOwned ==
  \A m \in Manager : lock[m] # Free =>
    lock[m] \in Job /\ mgr[lock[m]] = m /\ pc[lock[m]] \in {"choose", "insert"}

LockTypes ==
  /\ lock \in [Manager -> Job \cup {Free}]
  /\ pc \in [Job -> {"idle", "probe", "choose", "insert", "reply", "holding", "done"}]
  /\ mgr \in [Job -> Manager]

LEMMA LockOwnedNext == TypeInv /\ LockOwned /\ [Next]_vars => LockOwned'
<1> SUFFICES ASSUME TypeInv, LockOwned, [Next]_vars PROVE LockOwned'
  OBVIOUS
<1>a. LockTypes
  BY DEF TypeInv, TypeOK, LockTypes
<1>b. Free \notin Job
  BY LeasesAssumption
<1> USE <1>a, <1>b DEF LockTypes, LockOwned
<1>1. ASSUME NEW j \in Job, ClientStep(j) PROVE LockOwned'
  BY <1>1
  DEF ClientStep, Refuse, Request, Asks, Heartbeat, Release, Reply, LoseReply, Abandon,
      Forget, After
<1>2. ASSUME NEW j \in Job, Probe(j) \/ ProbeRaises(j) PROVE LockOwned'
  BY <1>2 DEF Probe, ProbeRaises
<1>3. ASSUME NEW j \in Job, NEW g \in Gpu, NEW back, Choose(j, g, back) PROVE LockOwned'
  BY <1>3 DEF Choose, Looks
<1>4. ASSUME NEW j \in Job, NEW g \in Gpu, NextCandidate(j, g), mgr' = mgr PROVE LockOwned'
  BY <1>4 DEF NextCandidate
<1>5. ASSUME NEW j \in Job, NEW l \in LeaseId, Insert(j, l) PROVE LockOwned'
  BY <1>5 DEF Insert
<1>6. ASSUME NEW j \in Job, HandlerStep(j) PROVE LockOwned'
  BY <1>2, <1>3, <1>4, <1>5, <1>6, LeasesAssumption
  DEF HandlerStep, PassOver, RacedAway, Looks, PlanOK, TypeInv, TypeOK
<1>7. ASSUME NEW m \in Manager, Restart(m) PROVE LockOwned'
  BY <1>7 DEF Restart, Forget, Waiting, InFlight
<1>8. ASSUME NEW p \in Pid, Exit(p) PROVE LockOwned'
  BY <1>8 DEF Exit, Forget
<1>9. ASSUME EnvironmentStep PROVE LockOwned'
  BY <1>7, <1>8, <1>9 DEF EnvironmentStep, Lapse, Spawn, SetHold, ClearHold, MpsToggle
<1> QED BY <1>1, <1>6, <1>9 DEF Next, Reap, vars

(* The lock of a manager is held by a handler at its insert, and by nobody *)
(* who is done: it comes back with every lease, deferral, lost race and    *)
(* restart (admission.py:187-252, 281-297), which is what reaper, releases *)
(* and heartbeats wait for.                                                *)
THEOREM LockComesBack == Spec => [](LockHeld /\ LockOwned)
<1>1. Init => LockOwned
  BY DEF Init, LockOwned
<1> QED BY <1>1, LockOwnedNext, LockCorrect, TypeInvCorrect, PTL DEF Spec
=============================================================================
