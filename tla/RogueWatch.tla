----------------------------- MODULE RogueWatch -----------------------------
(***************************************************************************)
(* The rogue watch (src/gpu_manager/rogue.py): every interval the compute  *)
(* processes of the cards, less what the manager and its configuration     *)
(* know, are published and alerted, once each.  The tick reads the card,   *)
(* the leases, systemd and /proc one after the other, and knows processes  *)
(* by pid alone; they come and go between the reads.                       *)
(***************************************************************************)
EXTENDS Naturals

CONSTANTS Pid, MaxRestarts   \* bound: restarts of the manager

ASSUME RogueAssumption == MaxRestarts \in Nat

(* What a process is: a unit's main process, one whose command line        *)
(* matches allow_patterns, or neither.                                     *)
Kind == {"model", "allowed", "stranger"}

VARIABLES
  proc,      \* proc[p]: the kind of the process that has pid p, or "none"
  gpu,       \* pids that compute on a managed card with min_vram_mib or more
  leased,    \* pids that a granted lease names
  pc,        \* where the tick stands
  snap,      \* pids NVML named that the tick has not come to
  known,     \* known_pids of this tick
  rogues,    \* rogues of this tick
  current,   \* _current, what the status page shows
  alerted,   \* the keys of _alerted
  restarts,
  same,      \* history: pids whose process is that of this tick's snapshot
  covered,   \* history: those leased or allowed without a break since then
  told       \* history: pids whose process this manager has alerted

vars == <<proc, gpu, leased, pc, snap, known, rogues, current, alerted, restarts,
          same, covered, told>>
world == <<proc, gpu, leased>>
tick == <<pc, snap, known, rogues, current, alerted>>
history == <<same, covered, told>>

TypeOK ==
  /\ proc \in [Pid -> Kind \cup {"none"}]
  /\ gpu \subseteq {p \in Pid : proc[p] # "none"}
  /\ leased \subseteq Pid
  /\ pc \in {"asleep", "known", "walk", "alert"}
  /\ snap \subseteq Pid /\ known \subseteq Pid
  /\ rogues \subseteq Pid /\ current \subseteq Pid /\ alerted \subseteq Pid
  /\ rogues \cap (snap \cup known) = {}
  /\ restarts \in 0 .. MaxRestarts
  /\ covered \subseteq same /\ same \subseteq Pid
  /\ told \subseteq alerted /\ told \subseteq {p \in Pid : proc[p] # "none"}

Init ==
  /\ proc = [p \in Pid |-> "none"] /\ gpu = {} /\ leased = {}
  /\ pc = "asleep" /\ snap = {} /\ known = {} /\ rogues = {}
  /\ current = {} /\ alerted = {} /\ restarts = 0
  /\ same = {} /\ covered = {} /\ told = {}

OfKind(k) == {p \in Pid : proc[p] = k}

-----------------------------------------------------------------------------
(* The tick.  A read that raises ends it and nothing has changed but the   *)
(* time: the next one starts from the top.                                 *)

Snapshot ==
  /\ pc = "asleep"
  /\ pc' = "known" /\ snap' = gpu
  /\ same' = gpu /\ covered' = gpu \cap (leased \cup OfKind("allowed"))
  /\ UNCHANGED <<world, known, rogues, current, alerted, restarts, told>>

\* mutant: a "systemctl show" that times out is not caught, and ends the tick
KnowRaises ==
  /\ pc = "known"
  /\ \/ known' = leased \cup OfKind("model") /\ pc' = "walk" /\ UNCHANGED snap
     \/ pc' = "asleep" /\ snap' = {} /\ UNCHANGED known
  /\ UNCHANGED <<world, rogues, current, alerted, restarts, history>>

(* A "systemctl show" that fails or times out leaves its unit out.         *)
Know ==
  /\ pc = "known"
  /\ \E units \in SUBSET OfKind("model") : known' = leased \cup units
  /\ pc' = "walk"
  /\ UNCHANGED <<world, snap, rogues, current, alerted, restarts, history>>

(* The command line is that of whoever has the pid by now, or empty.       *)
Examine(p) ==
  /\ pc = "walk" /\ p \in snap
  /\ snap' = snap \ {p}
  /\ rogues' = IF p \in known \cup OfKind("allowed") THEN rogues ELSE rogues \cup {p}
  /\ UNCHANGED <<world, pc, known, current, alerted, restarts, history>>

Publish ==
  /\ pc = "walk" /\ snap = {}
  /\ pc' = "alert" /\ current' = rogues
  /\ UNCHANGED <<world, snap, known, rogues, alerted, restarts, history>>

Alert(p) ==
  /\ pc = "alert" /\ p \in rogues \ alerted
  /\ alerted' = alerted \cup {p}
  /\ told' = told \cup ({p} \cap same)
  /\ UNCHANGED <<world, pc, snap, known, rogues, current, restarts, same, covered>>

TickEnds ==
  /\ pc = "alert" /\ rogues \subseteq alerted
  /\ pc' = "asleep" /\ known' = {} /\ rogues' = {}
  /\ same' = {} /\ covered' = {}

\* mutant: whatever is no rogue in this tick is forgotten
ForgetAll ==
  /\ TickEnds
  /\ alerted' = alerted \cap rogues
  /\ UNCHANGED <<world, snap, current, restarts, told>>

(* Alerted pids are forgotten once no process has them.                    *)
Forget ==
  /\ TickEnds
  /\ alerted' = alerted \ (OfKind("none") \ rogues)
  /\ UNCHANGED <<world, snap, current, restarts, told>>

Tick == Snapshot \/ Know \/ Publish \/ Forget \/ \E p \in Pid : Examine(p) \/ Alert(p)

-----------------------------------------------------------------------------
(* Processes, leases and the manager.                                      *)

Spawn(p, k) ==
  /\ proc[p] = "none"
  /\ proc' = [proc EXCEPT ![p] = k]
  /\ UNCHANGED <<gpu, leased, tick, restarts, history>>

Computes(p) ==
  /\ proc[p] # "none" /\ p \notin gpu
  /\ gpu' = gpu \cup {p}
  /\ UNCHANGED <<proc, leased, tick, restarts, history>>

(* It frees its memory, or falls below the threshold.                      *)
Rests(p) ==
  /\ p \in gpu
  /\ gpu' = gpu \ {p}
  /\ UNCHANGED <<proc, leased, tick, restarts, history>>

Exit(p) ==
  /\ proc[p] # "none"
  /\ proc' = [proc EXCEPT ![p] = "none"] /\ gpu' = gpu \ {p}
  /\ same' = same \ {p} /\ covered' = covered \ {p} /\ told' = told \ {p}
  /\ UNCHANGED <<leased, tick, restarts>>

Grant(p) ==
  /\ p \notin leased
  /\ leased' = leased \cup {p}
  /\ UNCHANGED <<proc, gpu, tick, restarts, history>>

(* The lease is released, or reaped.                                       *)
Release(p) ==
  /\ p \in leased
  /\ leased' = leased \ {p}
  /\ covered' = IF proc[p] = "allowed" THEN covered ELSE covered \ {p}
  /\ UNCHANGED <<proc, gpu, tick, restarts, same, told>>

Restart ==
  /\ restarts < MaxRestarts /\ restarts' = restarts + 1
  /\ pc' = "asleep" /\ snap' = {} /\ known' = {} /\ rogues' = {}
  /\ current' = {} /\ alerted' = {} /\ same' = {} /\ covered' = {} /\ told' = {}
  /\ UNCHANGED world

Next ==
  \/ Tick \/ Restart
  \/ \E p \in Pid : \/ \E k \in Kind : Spawn(p, k)
                    \/ Computes(p) \/ Rests(p) \/ Exit(p) \/ Grant(p) \/ Release(p)

Spec == Init /\ [][Next]_vars

(* The loop goes on after whatever a tick raised, and NVML answers in the  *)
(* end.                                                                    *)
FairSpec == Spec /\ WF_vars(Tick)

-----------------------------------------------------------------------------
(* An alert is never about a process that had its lease, or its place in   *)
(* the allow list, throughout the tick, and one manager alerts a process   *)
(* once (rogue.py:3-8), however often it comes and goes on the card.       *)
AlertsRight ==
  [][\A p \in alerted' \ alerted : p \notin covered /\ (p \in same => p \notin told)]_vars

(* A process that stays on a card without a lease comes to stand on the    *)
(* status page and among the pids alerted (rogue.py:4-8).  The alert may   *)
(* have been for a process that had the pid before.                        *)
Rogue(p) == proc[p] = "stranger" /\ p \in gpu \ leased
RogueListed == \A p \in Pid : <>[]Rogue(p) => <>[](p \in current \cap alerted)
=============================================================================
