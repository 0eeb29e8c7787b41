---------------------------- MODULE ServiceProofs ----------------------------
(***************************************************************************)
(* Proofs about Service, for any texts, files, reasons and number of       *)
(* restarts: its types, that it implements Holds and ConfigSave both, that *)
(* an operator's hold lasts as long as the process, and, with one save at  *)
(* a time, that the live file always loads, that what it replaced is       *)
(* backed up, and that the service either runs the live text or has a      *)
(* timer that will restart it.                                             *)
(***************************************************************************)
EXTENDS Service, TLAPS

(* One request that saves at a time: all of them use one candidate file.   *)
OneEditor == \A e, f \in Editor : e = f

(* A request writes the candidate it opened; what it is about to rename    *)
(* loads, and once it has made its copy the backup is the live text.       *)
Saving ==
  \A e \in Editor :
    /\ pc[e] # "idle" => text[e] \in Text
    /\ IF pc[e] = "write" THEN fd[e] = candidate /\ candidate # NoInode ELSE fd[e] = NoInode
    /\ pc[e] \in {"backup", "replace"} => candidate # NoInode /\ data[candidate] \in Valid
    /\ pc[e] = "replace" => backup = data[live]

Loadable == data[live] \in Valid

(* The safe half of SavedRuns.                                             *)
Armed == running = data[live] \/ timer

Inv == TypeOK /\ Saving /\ Loadable /\ Armed
-----------------------------------------------------------------------------
LEMMA Started == Init => Inv
<1> SUFFICES ASSUME Init PROVE Inv
  OBVIOUS
<1>1. live \in Inode /\ data = [i \in Inode |-> IF i = live THEN Initial ELSE Empty]
  BY ServiceAssumption DEF Init, C!Init
<1> QED BY <1>1, ServiceAssumption
  DEF Init, C!Init, H!Init, Inv, TypeOK, C!TypeOK, H!TypeOK, Saving, Loadable, Armed

(* The steps of a save, with nobody else saving.                           *)
LEMMA SaveKeeps ==
  ASSUME OneEditor, Inv, NEW e \in Editor, Begin(e) \/ SaveStep(e) \/ Saved(e)
  PROVE  Inv'
<1> USE ServiceAssumption DEF OneEditor, Inv, TypeOK, C!TypeOK, H!TypeOK, Saving, Loadable,
                              Armed, holds, C!At, C!files
<1>1. CASE Begin(e)
  BY <1>1 DEF Begin, C!Put
<1>2. CASE C!Open(e) /\ UNCHANGED <<holds, running, timer>>
  BY <1>2 DEF C!Open, C!InUse
<1>3. CASE C!Write(e) /\ UNCHANGED <<holds, running, timer>>
  BY <1>3 DEF C!Write
<1>4. CASE C!Load(e) /\ UNCHANGED <<holds, running, timer>>
  BY <1>4 DEF C!Load, C!Loads
<1>5. CASE C!Unlink(e) /\ UNCHANGED <<holds, running, timer>>
  BY <1>5 DEF C!Unlink, C!Ends
<1>6. CASE C!Backup(e) /\ UNCHANGED <<holds, running, timer>>
  BY <1>6 DEF C!Backup
<1>7. CASE Saved(e)
  BY <1>7 DEF Saved, C!Replace, C!Ends
<1> QED BY <1>1, <1>2, <1>3, <1>4, <1>5, <1>6, <1>7 DEF SaveStep

(* Everything else leaves the files alone.                                 *)
LEMMA RestKeeps ==
  ASSUME Inv, HoldStep \/ PollStep \/ Restart \/ UNCHANGED vars
  PROVE  Inv'
<1> USE ServiceAssumption DEF Inv, Saving, Loadable, Armed, saves
<1>0. (running' \in Polling) \in BOOLEAN
  BY SMT
<1>1. CASE HoldStep
  <2>1. H!TypeOK'
    <3> USE DEF TypeOK, H!TypeOK, H!Nx
    <3>1. ASSUME NEW r \in Reason, H!Set(r) PROVE H!TypeOK'
      BY <3>1 DEF H!Set
    <3>2. CASE H!Clear
      BY <3>2 DEF H!Clear
    <3>3. CASE H!Connect \/ H!Disconnect
      <4>1. UNCHANGED <<marker, stale, broken, poll, restarts, wanted>> /\ connected' \in BOOLEAN
        BY <3>3 DEF H!Connect, H!Disconnect
      <4> QED BY <1>0, <4>1, Zenon
    <3>4. CASE H!Break
      BY <3>4, Zenon DEF H!Break
    <3>5. CASE H!Cooldown
      BY <3>5 DEF H!Cooldown
    <3> QED BY <1>1, <3>1, <3>2, <3>3, <3>4, <3>5 DEF HoldStep
  <2> QED BY <1>1, <2>1 DEF HoldStep, TypeOK, C!TypeOK
<1>2. CASE PollStep
  <2>1. H!TypeOK'
    BY <1>2 DEF PollStep, TypeOK, H!TypeOK, H!Poll, H!Read, H!Touch, H!Remove, H!Nx
  <2> QED BY <1>2, <2>1 DEF PollStep, TypeOK, C!TypeOK
<1>3. CASE Restart
  <2>1. H!TypeOK'
    <3>1. restarts' \in Nat /\ poll' \in {"asleep", "client", "none"} /\ marker' = {}
      BY <1>3 DEF Restart, H!Restart, TypeOK, H!TypeOK
    <3>2. UNCHANGED <<connected, broken, wanted>> /\ stale' = FALSE
      BY <1>3 DEF Restart, H!Restart
    <3>3. connected' \in BOOLEAN /\ broken' \in BOOLEAN /\ wanted' \subseteq Reason
      BY <3>2, Zenon DEF TypeOK, H!TypeOK
    <3> QED BY <1>0, <3>1, <3>2, <3>3, Zenon DEF H!TypeOK
  <2>2. C!TypeOK' /\ running' \in Text /\ timer' = FALSE
    BY <1>3 DEF Restart, C!Restart, C!files, TypeOK, C!TypeOK
  <2>3. Saving' /\ Loadable' /\ Armed'
    BY <1>3 DEF Restart, C!Restart, C!files
  <2> QED BY <2>1, <2>2, <2>3 DEF TypeOK
<1>4. CASE UNCHANGED vars
  BY <1>4 DEF vars, holds, TypeOK, H!TypeOK, C!TypeOK
<1> QED BY <1>1, <1>2, <1>3, <1>4

LEMMA Inductive == ASSUME OneEditor PROVE Inv /\ [Next]_vars => Inv'
BY SaveKeeps, RestKeeps DEF Next, TimerFires, Crash
-----------------------------------------------------------------------------
(* Every variable keeps its type (app.py:45, 194-220, 233-261): what the   *)
(* service runs is a text, never an empty file, which needs Loadable.      *)
THEOREM TypeCorrect == ASSUME OneEditor PROVE Spec => []TypeOK
<1>1. Inv => TypeOK
  BY DEF Inv
<1> QED BY <1>1, Started, Inductive, PTL DEF Spec

(* No save and no restart that cuts one off leaves a live file the loader  *)
(* rejects, or replaces one that is not backed up (app.py:245-257).        *)
THEOREM SaveCorrect == ASSUME OneEditor PROVE Spec => SaveSafe
<1> DEFINE BackedUp == live' # live => backup = data[live]
<1>1. Inv => C!LiveLoads
  BY DEF Inv, Loadable, C!LiveLoads
<1>2. Inv /\ [Next]_vars => [BackedUp]_<<live, candidate, data, backup, pc, text, fd>>
  BY DEF Inv, Saving, Next, HoldStep, PollStep, Begin, SaveStep, Saved, TimerFires, Crash,
         Restart, C!Put, C!Open, C!Write, C!Load, C!Unlink, C!Backup, C!Replace, C!Restart,
         C!Ends, C!At, C!files, vars, saves
<1> QED BY <1>1, <1>2, Started, Inductive, PTL DEF Spec, SaveSafe, C!SaveSafe, C!vars

(* A text that was saved and is not in force has a restart coming          *)
(* (app.py:258): the safe half of SavedRuns.                               *)
THEOREM ArmedCorrect == ASSUME OneEditor PROVE Spec => []Armed
<1>1. Inv => Armed
  BY DEF Inv
<1> QED BY <1>1, Started, Inductive, PTL DEF Spec

(* Between restarts an operator's hold stays, whatever the poller, clients *)
(* and saves do (presence.py:10, app.py:208-220).                          *)
THEOREM HoldCorrect == Spec => OperatorHoldKept
<1> DEFINE Stays == restarts' = restarts =>
             ((wanted \ {H!Nx}) \cap wanted' \cap marker) \subseteq marker'
           Counts == restarts \in Nat
<1>1. Init => Counts
  BY DEF Init, H!Init
<1>2. Counts /\ [Next]_vars =>
        Counts' /\ [Stays]_<<marker, stale, connected, broken, poll, restarts, wanted,
                           running \in Polling>>
  <2> SUFFICES ASSUME Counts, [Next]_vars PROVE Counts' /\ (Stays \/ UNCHANGED <<holds, running>>)
    BY DEF holds
  <2>1. CASE HoldStep
    <3>1. ASSUME NEW r \in Reason, H!Set(r) PROVE Counts' /\ Stays
      BY <3>1 DEF H!Set
    <3>2. CASE H!Clear
      BY <3>2 DEF H!Clear
    <3>3. CASE H!Connect \/ H!Disconnect \/ H!Break \/ H!Cooldown
      BY <3>3 DEF H!Connect, H!Disconnect, H!Break, H!Cooldown
    <3> QED BY <2>1, <3>1, <3>2, <3>3 DEF HoldStep
  <2>2. CASE PollStep
    BY <2>2 DEF PollStep, H!Poll, H!Read, H!Touch, H!Remove
  <2>3. CASE Restart
    BY <2>3 DEF Restart, H!Restart
  <2>4. ASSUME UNCHANGED <<holds, running>> PROVE Counts' /\ UNCHANGED <<holds, running>>
    BY <2>4 DEF holds
  <2>5. (\E e \in Editor : Begin(e) \/ SaveStep(e) \/ Saved(e)) \/ UNCHANGED vars
        => UNCHANGED <<holds, running>>
    BY DEF Begin, SaveStep, Saved, vars
  <2> QED BY <2>1, <2>2, <2>3, <2>4, <2>5 DEF Next, TimerFires, Crash
<1> QED BY <1>1, <1>2, PTL DEF Spec, OperatorHoldKept, H!OperatorHoldKept, H!vars
-----------------------------------------------------------------------------
(* The service is its parts side by side: whatever it does, a restart too, *)
(* its hold directory behaves as Holds and its files as ConfigSave say     *)
(* (app.py:194-261), so the properties of each part hold of the whole.     *)
THEOREM ServiceImplements == Spec => H!Spec /\ C!Spec
<1>1. Init => H!Init /\ C!Init
  BY DEF Init
<1>2. [Next]_vars => [H!Next]_<<marker, stale, connected, broken, poll, restarts, wanted,
                                running \in Polling>>
  <2> SUFFICES ASSUME Next PROVE H!Next \/ UNCHANGED <<holds, running>>
    BY DEF vars, holds
  <2> QED BY DEF Next, HoldStep, PollStep, Begin, SaveStep, Saved, TimerFires, Crash, Restart,
                 H!Next
<1>3. [Next]_vars => [C!Next]_<<live, candidate, data, backup, pc, text, fd>>
  <2> SUFFICES ASSUME Next PROVE C!Next \/ UNCHANGED saves
    BY DEF vars, saves
  <2> QED BY DEF Next, HoldStep, PollStep, Begin, SaveStep, Saved, TimerFires, Crash, Restart,
                 C!Next
<1> QED BY <1>1, <1>2, <1>3, PTL DEF Spec, H!Spec, C!Spec, H!vars, C!vars
=============================================================================
