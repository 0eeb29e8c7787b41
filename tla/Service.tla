------------------------------- MODULE Service -------------------------------
(***************************************************************************)
(* What a restart of the manager process does to what its API promised:    *)
(* Holds and ConfigSave on one process.  A save ends in a restart 0.8 s    *)
(* after its reply (src/gpu_manager/app.py), a crash in one by systemd     *)
(* (src/systemd/gpu-manager.service).  Every start loads the live file,    *)
(* once and for all, and finds the hold directory empty.                   *)
(***************************************************************************)
EXTENDS Naturals

CONSTANTS
  Reason, MaxRestarts,                             \* of Holds
  Editor, Text, Valid, Initial, Inode, NoInode, Nothing, Empty,   \* of ConfigSave
  Polling   \* texts with an enabled nomachine entry for the card

ASSUME ServiceAssumption ==
  /\ MaxRestarts \in Nat
  /\ Valid \subseteq Text /\ Initial \in Valid /\ Empty \notin Text
  /\ Inode # {} /\ NoInode \notin Inode

VARIABLES
  marker, stale, connected, broken, poll, restarts, wanted,   \* of Holds
  live, candidate, data, backup, pc, text, fd,                \* of ConfigSave
  running,   \* CFG: the text this process has loaded
  timer      \* a save's threading.Timer runs

H == INSTANCE Holds WITH polled <- (running \in Polling)
C == INSTANCE ConfigSave

holds == <<marker, stale, connected, broken, poll, restarts, wanted>>
saves == <<live, candidate, data, backup, pc, text, fd>>
vars == <<holds, saves, running, timer>>

TypeOK ==
  /\ H!TypeOK /\ C!TypeOK
  /\ running \in Text /\ timer \in BOOLEAN

Init ==
  /\ running = Initial /\ timer = FALSE
  /\ H!Init /\ C!Init

-----------------------------------------------------------------------------
(* Holds come and go; a save takes its steps.                              *)
HoldStep ==
  /\ UNCHANGED <<saves, running, timer>>
  /\ \/ \E r \in Reason : H!Set(r)
     \/ H!Clear \/ H!Connect \/ H!Disconnect \/ H!Break \/ H!Cooldown

PollStep == UNCHANGED <<saves, running, timer>> /\ H!Poll

(* bound: a save is begun only if its restart is within MaxRestarts.       *)
Begin(e) ==
  /\ restarts < MaxRestarts
  /\ \E t \in Text : C!Put(e, t)
  /\ UNCHANGED <<holds, running, timer>>

SaveStep(e) ==
  /\ C!Open(e) \/ C!Write(e) \/ C!Load(e) \/ C!Unlink(e) \/ C!Backup(e)
  /\ UNCHANGED <<holds, running, timer>>

\* mutant: the file is replaced and the service left as it is
SavedQuietly(e) ==
  /\ C!Replace(e)
  /\ UNCHANGED <<holds, running, timer>>

(* os.replace, then the timer: not if os.replace raises.                   *)
Saved(e) ==
  /\ C!Replace(e)
  /\ timer' = (timer \/ candidate # NoInode)
  /\ UNCHANGED <<holds, running>>

(* The process stops, with its timers, and starts again: "systemctl        *)
(* restart" when a timer is up, RestartSec=3 after a crash.                *)
Restart ==
  /\ running' = data[live] /\ timer' = FALSE
  /\ C!Restart /\ H!Restart

TimerFires == timer /\ Restart

Crash == ~timer /\ Restart

Next ==
  \/ HoldStep \/ PollStep
  \/ \E e \in Editor : Begin(e) \/ SaveStep(e) \/ Saved(e)
  \/ TimerFires \/ Crash

Spec == Init /\ [][Next]_vars

(* The poller runs for a card that is polled, time passes, handlers run,   *)
(* and timers fire.                                                        *)
FairSpec ==
  /\ Spec
  /\ WF_vars(PollStep) /\ WF_vars(UNCHANGED <<saves, running, timer>> /\ H!Cooldown)
  /\ WF_vars(TimerFires)

-----------------------------------------------------------------------------
(* The properties of the parts hold of the parts together: an operator's   *)
(* hold stays until a restart (presence.py:10), a client that is connected *)
(* gets its hold back after one (app.py:215), and the card is leasable     *)
(* when both are gone, the last two where the configuration in force has   *)
(* the card polled.                                                        *)
OperatorHoldKept == H!OperatorHoldKept
ClientHeld == H!ClientHeld
HoldEnds == H!HoldEnds

(* No save, nor any restart that cuts one off, leaves a live file the      *)
(* loader rejects or replaces one that is not backed up (app.py:235-236).  *)
SaveSafe == C!SaveSafe

(* What has been saved comes into force: the service does not run on with  *)
(* an older text than the live file's (app.py:236-237, 258).               *)
SavedRuns == []<>(running = data[live])
=============================================================================
