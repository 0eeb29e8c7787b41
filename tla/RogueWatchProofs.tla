-------------------------- MODULE RogueWatchProofs --------------------------
(***************************************************************************)
(* Proofs about the rogue watch, for any set of pids and any number of     *)
(* restarts: its types, and that an alert is never about a process that    *)
(* was covered all through the tick nor a second one about the same.       *)
(***************************************************************************)
EXTENDS RogueWatch, TLAPS

Live == {p \in Pid : proc[p] # "none"}

(* What the tick's own variables say of each other before it has findings. *)
Fresh == pc \in {"asleep", "known"} => rogues = {} /\ known = {}

(* A process covered since the snapshot is still leased or allowed, and    *)
(* once the tick has read the leases it will recognise it as such: a lease *)
(* may go meanwhile, but with it the process is no longer covered.         *)
Recognised ==
  /\ same \subseteq Live
  /\ covered \subseteq leased \cup OfKind("allowed")
  /\ pc = "walk" => covered \subseteq known \cup OfKind("allowed")
  /\ rogues \cap covered = {}

IInv == TypeOK /\ Fresh /\ Recognised

(* One step of the tick, or of its surroundings, keeps the invariant.      *)
LEMMA TickKeeps == IInv /\ Tick => IInv'
<1> SUFFICES ASSUME IInv, Tick PROVE IInv'
  OBVIOUS
<1> USE DEF IInv, TypeOK, Fresh, Recognised, Live, OfKind, Kind, world, tick, history
<1>1. CASE Snapshot
  BY <1>1 DEF Snapshot
<1>2. CASE Know
  BY <1>2 DEF Know
<1>3. ASSUME NEW p \in Pid, Examine(p) PROVE IInv'
  BY <1>3 DEF Examine
<1>4. CASE Publish
  BY <1>4 DEF Publish
<1>5. ASSUME NEW p \in Pid, Alert(p) PROVE IInv'
  BY <1>5 DEF Alert
<1>6. CASE Forget
  BY <1>6 DEF Forget, TickEnds
<1>. QED  BY <1>1, <1>2, <1>3, <1>4, <1>5, <1>6 DEF Tick

LEMMA WorldKeeps ==
  ASSUME IInv, NEW p \in Pid,
         \/ \E k \in Kind : Spawn(p, k)
         \/ Computes(p) \/ Rests(p) \/ Exit(p) \/ Grant(p) \/ Release(p)
  PROVE  IInv'
<1> USE DEF IInv, TypeOK, Fresh, Recognised, Live, OfKind, Kind, world, tick, history
<1>1. ASSUME NEW k \in Kind, Spawn(p, k) PROVE IInv'
  BY <1>1 DEF Spawn
<1>2. CASE Computes(p)
  BY <1>2 DEF Computes
<1>3. CASE Rests(p)
  BY <1>3 DEF Rests
<1>4. CASE Exit(p)
  BY <1>4 DEF Exit
<1>5. CASE Grant(p)
  BY <1>5 DEF Grant
<1>6. CASE Release(p)
  BY <1>6 DEF Release
<1>. QED  BY <1>1, <1>2, <1>3, <1>4, <1>5, <1>6

LEMMA Inductive == IInv /\ [Next]_vars => IInv'
<1> SUFFICES ASSUME IInv, [Next]_vars PROVE IInv'
  OBVIOUS
<1>1. CASE Tick
  BY <1>1, TickKeeps
<1>2. CASE Restart
  BY <1>2, RogueAssumption
  DEF Restart, IInv, TypeOK, Fresh, Recognised, Live, OfKind, world
<1>3. CASE UNCHANGED vars
  BY <1>3 DEF vars, IInv, TypeOK, Fresh, Recognised, Live, OfKind
<1>. QED  BY <1>1, <1>2, <1>3, WorldKeeps DEF Next

LEMMA Started == Init => IInv
BY RogueAssumption DEF Init, IInv, TypeOK, Fresh, Recognised, Live, OfKind, Kind

(* The state of the watch keeps its types (rogue.py:24-25, 66-100).        *)
THEOREM TypeCorrect == Spec => []TypeOK
<1>1. IInv => TypeOK
  BY DEF IInv
<1>. QED  BY <1>1, Started, Inductive, PTL DEF Spec

(* No alert about a process leased or allowed throughout the tick, and no  *)
(* second one about a process (rogue.py:3-8, 71-83, 90-100).               *)
THEOREM AlertsCorrect == Spec => AlertsRight
<1> DEFINE Right == \A p \in alerted' \ alerted : p \notin covered /\ (p \in same => p \notin told)
<1>1. IInv /\ [Next]_vars => [Right]_vars
  <2> SUFFICES ASSUME IInv, [Next]_vars, NEW p \in alerted' \ alerted
               PROVE  p \notin covered /\ (p \in same => p \notin told)
    OBVIOUS
  <2>1. PICK q \in Pid : Alert(q)
    <3>1. CASE Tick
      BY <3>1 DEF Tick, Snapshot, Know, Examine, Publish, Forget, TickEnds
    <3>2. CASE UNCHANGED vars
      BY <3>2 DEF vars
    <3>3. ASSUME ~Tick, ~UNCHANGED vars PROVE FALSE
      BY <3>3 DEF Next, Restart, Spawn, Computes, Rests, Exit, Grant, Release, tick
    <3>. QED  BY <3>1, <3>2, <3>3
  <2>2. p = q /\ p \in rogues
    BY <2>1 DEF Alert
  <2>. QED  BY <2>2 DEF IInv, TypeOK, Recognised
<1>. QED  BY <1>1, Started, Inductive, PTL DEF Spec, AlertsRight
=============================================================================
