--------------------------- MODULE GpuLeaseProofs ---------------------------
(***************************************************************************)
(* Proofs about GpuLease, for every number of wrapped commands and any     *)
(* signals: the types, that commands whose shims stand never overlap, that *)
(* only a release takes the lease from a running, bound child, and that    *)
(* the rows obey the abstract registry.                                    *)
(***************************************************************************)
EXTENDS GpuLease, TLAPS

(* The lane has one row at a time.                                         *)
OneRow == \A s, t \in Shim : row[s] # "none" /\ row[t] # "none" => s = t

(* A shim that stands has its row from the grant until its child is gone:  *)
(* the row is bound to a process that lives, so no reaper takes it.        *)
Guarded(s) ==
  /\ pc[s] \in {"ask", "spawn"} => child[s] = "none"
  /\ pc[s] = "spawn" => row[s] = "shim"
  /\ child[s] = "up" /\ pc[s] # "gone" => row[s] # "none"

Inv == TypeOK /\ OneRow /\ \A s \in Shim : Guarded(s)
-----------------------------------------------------------------------------
(* What an action does to other shims: nothing.                            *)
Own(s) ==
  \A t \in Shim \ {s} : /\ pc'[t] = pc[t] /\ row'[t] = row[t]
                        /\ child'[t] = child[t]

ShimStep(s) ==
  \/ GiveUp(s) \/ Granted(s) \/ ReplyLost(s) \/ SpawnChild(s) \/ SpawnFails(s)
  \/ Rebind(s) \/ Handler(s) \/ Beat(s) \/ Waited(s) \/ Release(s)
  \/ Term(s) \/ Kill(s) \/ Interrupt(s)
  \/ ChildExit(s) \/ Lapse(s) \/ Reap(s)

LEMMA HeartbeatType ==
  ASSUME TypeOK, NEW s \in Shim, NEW p \in {"none", "shim", "child"},
         row[s] # "none" => p # "none", Heartbeat(s, p)
  PROVE  /\ row' \in [Shim -> {"none", "shim", "child"}]
         /\ due' \in [Shim -> BOOLEAN]
         /\ \A t \in Shim : due'[t] => row'[t] # "none"
         /\ \A t \in Shim : row'[t] = "none" <=> row[t] = "none"
         /\ \A t \in Shim \ {s} : row'[t] = row[t]
         /\ row'[s] \in {row[s], p}
BY DEF TypeOK, Heartbeat, Binds

LEMMA StepType == ASSUME TypeOK, NEW s \in Shim, ShimStep(s) PROVE TypeOK'
<1>1. CASE GiveUp(s)
  BY <1>1 DEF TypeOK, GiveUp, Goes
<1>2. CASE Granted(s)
  BY <1>2 DEF TypeOK, Granted, Goes, Binds
<1>3. CASE ReplyLost(s)
  BY <1>3 DEF TypeOK, ReplyLost, Goes, Binds
<1>4. CASE SpawnChild(s) \/ SpawnFails(s) \/ Handler(s) \/ Waited(s)
  BY <1>4 DEF TypeOK, SpawnChild, SpawnFails, Handler, Waited, Goes
<1>5. CASE Rebind(s)
  BY <1>5, HeartbeatType DEF TypeOK, Rebind, Goes
<1>6. CASE Beat(s)
  <2>1. (IF child[s] = "none" THEN row[s] ELSE "child") \in {"none", "shim", "child"}
    BY DEF TypeOK
  <2> QED BY <1>6, <2>1, HeartbeatType DEF TypeOK, Beat
<1>7. CASE Release(s)
  BY <1>7 DEF TypeOK, Release, Goes, Binds
<1>8. CASE Term(s) \/ Kill(s)
  BY <1>8 DEF TypeOK, Term, Kill, Dies
<1>9. CASE Interrupt(s)
  BY <1>9 DEF TypeOK, Interrupt, Dies
<1>10. CASE ChildExit(s) \/ Lapse(s)
  BY <1>10 DEF TypeOK, ChildExit, Lapse
<1>11. CASE Reap(s)
  BY <1>11 DEF TypeOK, Reap, Binds
<1> QED BY <1>1, <1>2, <1>3, <1>4, <1>5, <1>6, <1>7, <1>8, <1>9, <1>10, <1>11 DEF ShimStep

LEMMA StepOwn == ASSUME TypeOK, NEW s \in Shim, ShimStep(s) PROVE Own(s)
BY DEF TypeOK, Own, ShimStep, GiveUp, Granted, ReplyLost, SpawnChild, SpawnFails, Rebind,
       Handler, Beat, Waited, Release, Term, Kill, Interrupt, Dies, ChildExit, Lapse, Reap,
       Goes, Binds, Heartbeat

(* A row appears only on a free lane.                                      *)
LEMMA StepRow ==
  ASSUME TypeOK, NEW s \in Shim, ShimStep(s), row[s] = "none", row'[s] # "none"
  PROVE  LaneFree
BY DEF TypeOK, ShimStep, GiveUp, Granted, ReplyLost, SpawnChild, SpawnFails, Rebind,
       Handler, Beat, Waited, Release, Term, Kill, Interrupt, Dies, ChildExit, Lapse, Reap,
       Goes, Binds, Heartbeat

LEMMA StepGuarded ==
  ASSUME TypeOK, NEW s \in Shim, ShimStep(s), Guarded(s)
  PROVE  Guarded(s)'
<1> USE DEF TypeOK, Guarded
<1>1. CASE GiveUp(s) \/ Granted(s) \/ ReplyLost(s)
  BY <1>1 DEF GiveUp, Granted, ReplyLost, Goes, Binds
<1>2. CASE SpawnChild(s) \/ SpawnFails(s) \/ Handler(s) \/ Waited(s)
  BY <1>2 DEF SpawnChild, SpawnFails, Handler, Waited, Goes
<1>3. CASE Rebind(s)
  BY <1>3, HeartbeatType DEF Rebind, Goes
<1>4. CASE Beat(s)
  BY <1>4 DEF Beat, Heartbeat, Binds
<1>5. CASE Release(s)
  BY <1>5 DEF Release, Goes, Binds
<1>6. CASE Term(s) \/ Kill(s) \/ Interrupt(s)
  BY <1>6 DEF Term, Kill, Interrupt, Dies
<1>7. CASE ChildExit(s) \/ Lapse(s)
  BY <1>7 DEF ChildExit, Lapse
<1>8. CASE Reap(s)
  BY <1>8 DEF Reap, Lives, Binds
<1> QED BY <1>1, <1>2, <1>3, <1>4, <1>5, <1>6, <1>7, <1>8 DEF ShimStep
-----------------------------------------------------------------------------
LEMMA InvInit == Init => Inv
BY DEF Init, Inv, TypeOK, OneRow, Guarded

LEMMA InvNext == Inv /\ [Next]_vars => Inv'
<1> SUFFICES ASSUME Inv, [Next]_vars PROVE Inv'
  OBVIOUS
<1>1. CASE Down \/ Up \/ UNCHANGED vars
  BY <1>1 DEF Down, Up, vars, Inv, TypeOK, OneRow, Guarded
<1>2. ASSUME NEW s \in Shim, ShimStep(s) PROVE Inv'
  <2>1. TypeOK /\ TypeOK' /\ Own(s)
    BY <1>2, StepType, StepOwn DEF Inv
  <2>2. OneRow'
    <3> SUFFICES ASSUME NEW t \in Shim, NEW u \in Shim, row'[t] # "none", row'[u] # "none",
                        t # u
                 PROVE  FALSE
      BY DEF OneRow
    <3>1. CASE t # s /\ u # s
      BY <3>1, <2>1 DEF Own, Inv, OneRow
    <3>2. PICK v \in Shim \ {s} : row[v] # "none" /\ row'[s] # "none"
      BY <3>1, <2>1 DEF Own
    <3>3. row[s] = "none"
      BY <3>2 DEF Inv, OneRow
    <3> QED BY <1>2, <2>1, <3>2, <3>3, StepRow DEF LaneFree
  <2>3. ASSUME NEW t \in Shim PROVE Guarded(t)'
    <3>1. CASE t = s
      BY <3>1, <1>2, <2>1, StepGuarded DEF Inv
    <3>2. CASE t # s
      BY <3>2, <2>1 DEF Own, Inv, Guarded
    <3> QED BY <3>1, <3>2
  <2> QED BY <2>1, <2>2, <2>3 DEF Inv
<1> QED BY <1>1, <1>2 DEF Next, ShimStep

LEMMA Always == Spec => []Inv
BY InvInit, InvNext, PTL DEF Spec

(* Every variable keeps its type.                                          *)
THEOREM TypeCorrect == Spec => []TypeOK
<1>1. Inv => TypeOK
  BY DEF Inv
<1> QED BY <1>1, Always, PTL

(* Commands wrapped in leases of one lane do not overlap while their shims *)
(* stand (bin/gpu-lease:8-10).                                             *)
THEOREM OneWorksCorrect == Spec => []OneWorks
<1>1. Inv => OneWorks
  BY DEF Inv, OneRow, Guarded, OneWorks
<1> QED BY <1>1, Always, PTL

(* Only a release takes the lease from a child that is bound and runs,     *)
(* whatever became of its shim (admission.py:100-105).                     *)
THEOREM BoundCorrect == Spec => BoundWorkKept
<1>1. ASSUME Inv, [Next]_vars, NEW s \in Shim,
             row[s] = "child", child[s] = "up", row'[s] = "none"
      PROVE  pc[s] = "release"
  <2>1. ~(Down \/ Up \/ UNCHANGED vars)
    BY <1>1 DEF Down, Up, vars
  <2>2. PICK t \in Shim : ShimStep(t)
    BY <1>1, <2>1 DEF Next, ShimStep
  <2>3. t = s
    BY <1>1, <2>2, StepOwn DEF Own, Inv
  <2> QED
    BY <1>1, <2>2, <2>3
    DEF Inv, TypeOK, ShimStep, GiveUp, Granted, ReplyLost, SpawnChild, SpawnFails, Rebind,
        Handler, Beat, Waited, Release, Term, Kill, Interrupt, Dies, ChildExit, Lapse, Reap,
        Lives, Goes, Binds, Heartbeat
<1>2. Inv /\ [Next]_vars =>
        [\A s \in Shim : row[s] = "child" /\ child[s] = "up" /\ row'[s] = "none"
           => pc[s] = "release"]_vars
  BY <1>1
<1> QED BY <1>2, Always, PTL DEF Spec, BoundWorkKept
-----------------------------------------------------------------------------
LEMMA LeaseGiven == NoLease # LaneLease /\ LaneLease.vram = 0
BY DEF NoLease, LaneLease

(* A row comes to a free lane, goes, or stays what it is to the registry.  *)
LEMMA StepMaps ==
  ASSUME TypeOK, NEW s \in Shim, ShimStep(s)
  PROVE  [Lane!Next]_Table
<1> DEFINE There(t) == row[t] # "none"
<1>1. TypeOK' /\ Own(s)
  BY StepType, StepOwn
<1>2. \A t \in Shim \ {s} : Table'[t] = Table[t]
  BY <1>1 DEF Own, Table
<1>3. CASE There(s) = There(s)'
  <2>1. Table'[s] = Table[s]
    BY <1>3 DEF Table
  <2> QED BY <1>2, <2>1 DEF Table
<1>4. CASE ~There(s) /\ There(s)'
  <2>1. LaneFree
    BY <1>4, StepRow
  <2>2. Table[s] = NoLease /\ Table'[s] = LaneLease
    BY <1>4 DEF Table
  <2>3. Table' = [Table EXCEPT ![s] = LaneLease]
    BY <1>2, <2>2 DEF Table
  <2>4. Lane!Tenants(LaneLease.gpu) = {}
    BY <2>1 DEF Lane!Tenants, LaneFree, Table
  <2>5. Lane!Admit(s, LaneLease)
    BY <2>2, <2>3, <2>4, LeaseGiven DEF Lane!Admit
  <2> QED BY <2>5 DEF Lane!Next
<1>5. CASE There(s) /\ ~There(s)'
  <2>1. Table'[s] = NoLease
    BY <1>5 DEF Table
  <2>2. Table' = [t \in Shim |-> IF t \in {s} THEN NoLease ELSE Table[t]]
    BY <1>2, <2>1 DEF Table
  <2>3. Lane!End({s})
    BY <2>2 DEF Lane!End
  <2> QED BY <2>3 DEF Lane!Next
<1> QED BY <1>3, <1>4, <1>5

(* The rows obey the abstract registry that Leases implements: whatever    *)
(* calls fail and signals arrive, they enter a free lane one at a time and *)
(* end, and a late heartbeat brings none back (bin/gpu-lease:86-142,       *)
(* admission.py:301-314).                                                  *)
THEOREM LaneImplements == Spec => LaneKept
<1>1. Init => Lane!Init
  BY DEF Init, Lane!Init, Table
<1>2. TypeOK /\ [Next]_vars => [Lane!Next]_Table
  <2> SUFFICES ASSUME TypeOK, [Next]_vars PROVE [Lane!Next]_Table
    OBVIOUS
  <2>1. CASE Down \/ Up \/ UNCHANGED vars
    BY <2>1 DEF Down, Up, vars, Table
  <2> QED BY <2>1, StepMaps DEF Next, ShimStep
<1> QED BY <1>1, <1>2, TypeCorrect, PTL DEF Spec, LaneKept, Lane!Spec
=============================================================================
