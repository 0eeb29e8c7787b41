----------------------------- MODULE StallWatch -----------------------------
(***************************************************************************)
(* The stall watch (src/gpu_manager/stall.py with util.py and owners.py):  *)
(* a thread that samples the activity of every leased process once per     *)
(* tick, then walks the leases one by one.  Asking an owner blocks for up  *)
(* to health_timeout_s and stopping a unit for up to 30 s, so between the  *)
(* sample, the question and the strike the jobs work, rest, release, exit, *)
(* and their pids may be given to other processes.                         *)
(*                                                                         *)
(* Time is the clock of a lease: not running, running, or over once        *)
(* stall_window_s have passed since _idle_since was set.                   *)
(***************************************************************************)
EXTENDS Naturals, FiniteSets

CONSTANTS
  Lease,      \* granted rows, by id
  Pid,        \* local process ids
  Unit,       \* app units: the concrete *.service that may be stopped
  PidOf,      \* PidOf[l]: the pid in row l
  Kind,       \* Kind[l]: "job", "model", "remote", or "desktop" (exempt)
  Card,       \* cards of this host
  CardOf,     \* CardOf[p]: the card p holds memory on
  UnitOf,     \* UnitOf[p]: the app unit of p, or NoUnit (session scope, plain process)
  Vouching,   \* leases whose owner has a health_url and may answer "alive"
  Slow,       \* whether systemctl stop can take longer than 30 s
  MaxBorn,    \* bound: MaxBorn[p], how often pid p is given out
  Restarts,   \* whether the manager restarts
  NoLease, NoUnit

ASSUME StallAssumption ==
  /\ PidOf \in [Lease -> Pid]
  /\ Kind \in [Lease -> {"job", "model", "remote", "desktop"}]
  /\ CardOf \in [Pid -> Card]
  /\ UnitOf \in [Pid -> Unit \cup {NoUnit}]
  /\ NoUnit \notin Unit /\ NoLease \notin Lease
  /\ Vouching \subseteq Lease /\ MaxBorn \in [Pid -> Nat \ {0}]
  /\ Slow \in BOOLEAN /\ Restarts \in BOOLEAN

VARIABLES
  row,        \* row[l]: "new", "granted" or "ended"
  up,         \* pids with a /proc entry
  born,       \* born[p]: which process has or had pid p (its start time)
  busy,       \* pids that do GPU work now
  stopping,   \* pids of units that systemd is stopping
  enforce,    \* stall_watch.enforce
  clock,      \* clock[l]: _idle_since[l], as "none", "running" or "over"
  tpc,        \* where the tick stands
  todo,       \* rows this tick has not come to
  active,     \* those of them that the sample of this tick found working
  cur,        \* the row under examination
  st0,        \* pid_st0 of cur: a start time, or 0 if there is no such process
  recent,     \* history: rows granted, found working or vouched in the last window
  owner       \* history: owner[l], the process l was granted to

jobs == <<row, up, born, busy, stopping, owner>>
walk == <<tpc, todo, active, cur, st0>>
vars == <<jobs, enforce, clock, walk, recent>>

TypeOK ==
  /\ row \in [Lease -> {"new", "granted", "ended"}]
  /\ up \subseteq Pid /\ busy \subseteq up /\ stopping \subseteq up
  /\ \A p \in Pid : born[p] \in 1..MaxBorn[p]
  /\ enforce \in BOOLEAN
  /\ clock \in [Lease -> {"none", "running", "over"}]
  /\ tpc \in {"asleep", "walk", "ping", "check", "strike"}
  /\ todo \subseteq Lease /\ active \subseteq todo
  /\ cur \in Lease \cup {NoLease}
  /\ (cur = NoLease) = (tpc \in {"asleep", "walk"})
  /\ st0 \in Nat
  /\ recent \subseteq Lease
  /\ owner \in [Lease -> Nat]

-----------------------------------------------------------------------------
Granted == {l \in Lease : row[l] = "granted"}

StartTime(p) == IF p \in up THEN born[p] ELSE 0

(* Never a model's lease, a remote card's or an exempt desktop app's.      *)
Eligible(l) == Kind[l] = "job"

(* Whose a process is (owners.attribute), as far as it may be stopped: its *)
(* concrete app unit, never a session, a user scope or the manager's.      *)
AppUnit(p) == IF p \in up THEN UnitOf[p] ELSE NoUnit

(* _evict: the whole app unit of the pid if there is one, else the pid.    *)
Targets(l) ==
  LET p == PidOf[l] IN
  IF AppUnit(p) # NoUnit THEN {q \in up : AppUnit(q) = AppUnit(p)} ELSE {p} \cap up

ModelPids == {PidOf[l] : l \in {k \in Granted : Kind[k] = "model"}}

OnCard(p) == {q \in up : CardOf[q] = CardOf[p]}

(* util._pid_active: the process computes or allocates, or its card is     *)
(* busy and it is the only process there that is not a model's.            *)
SampledActive(l) ==
  LET p == PidOf[l] IN
  \/ p \in busy
  \/ OnCard(p) \ ModelPids = {p} /\ OnCard(p) \cap busy # {}

Init ==
  /\ row = [l \in Lease |-> "new"]
  /\ up = Pid /\ busy = {} /\ stopping = {}
  /\ born = [p \in Pid |-> 1]
  /\ enforce \in BOOLEAN
  /\ clock = [l \in Lease |-> "none"]
  /\ tpc = "asleep" /\ todo = {} /\ active = {} /\ cur = NoLease /\ st0 = 0
  /\ recent = {}
  /\ owner = [l \in Lease |-> 0]

-----------------------------------------------------------------------------
(* The jobs and the operating system.                                      *)

Grant(l) ==
  /\ row[l] = "new" /\ PidOf[l] \in up
  /\ row' = [row EXCEPT ![l] = "granted"]
  /\ owner' = [owner EXCEPT ![l] = born[PidOf[l]]]
  /\ recent' = recent \cup {l}
  /\ UNCHANGED <<up, born, busy, stopping, enforce, clock, walk>>

Ended(l) ==
  /\ row' = [row EXCEPT ![l] = "ended"]
  /\ recent' = recent \ {l} /\ owner' = [owner EXCEPT ![l] = 0]

Release(l) ==
  /\ row[l] = "granted"
  /\ Ended(l)
  /\ UNCHANGED <<up, born, busy, stopping, enforce, clock, walk>>

Work(p) ==
  /\ p \in up /\ busy' = busy \cup {p}
  /\ UNCHANGED <<row, up, born, stopping, owner, enforce, clock, walk, recent>>

Rest(p) ==
  /\ busy' = busy \ {p}
  /\ UNCHANGED <<row, up, born, stopping, owner, enforce, clock, walk, recent>>

Exit(p) ==
  /\ p \in up
  /\ up' = up \ {p} /\ busy' = busy \ {p} /\ stopping' = stopping \ {p}
  /\ UNCHANGED <<row, born, owner, enforce, clock, walk, recent>>

(* Pid numbers do not come round again between the last look at the start  *)
(* time and the strike (bound).                                            *)
Spawn(p) ==
  /\ p \notin up /\ born[p] < MaxBorn[p]
  /\ tpc = "strike" => PidOf[cur] # p
  /\ up' = up \cup {p}
  /\ born' = [born EXCEPT ![p] = born[p] + 1]
  /\ UNCHANGED <<row, busy, stopping, owner, enforce, clock, walk, recent>>

Window(l) ==
  /\ clock[l] = "running"
  /\ clock' = [clock EXCEPT ![l] = "over"]
  /\ recent' = recent \ {l}
  /\ UNCHANGED <<jobs, enforce, walk>>

-----------------------------------------------------------------------------
(* The tick.                                                               *)

(* The rows are read once and their activity is sampled once.              *)
TickStart ==
  /\ tpc = "asleep"
  /\ tpc' = "walk"
  /\ todo' = {l \in Granted : Eligible(l)}
  /\ active' = {l \in todo' : SampledActive(l)}
  /\ UNCHANGED <<jobs, enforce, clock, cur, st0, recent>>

\* mutant: the row stays under examination
DoneKeepsCur(l) == tpc' = "walk" /\ todo' = todo \ {l} /\ active' = active \ {l}
                   /\ UNCHANGED <<cur, st0>>

Done(l) == /\ tpc' = "walk" /\ todo' = todo \ {l}
           /\ active' = active \ {l}
           /\ cur' = NoLease /\ st0' = 0

\* mutant: a working lease keeps its idle clock
VisitWorkingKeepsClock(l) ==
  /\ tpc = "walk" /\ l \in todo \cap active
  /\ recent' = recent \cup {l}
  /\ Done(l)
  /\ UNCHANGED <<jobs, enforce, clock>>

VisitWorking(l) ==
  /\ tpc = "walk" /\ l \in todo \cap active
  /\ clock' = [clock EXCEPT ![l] = "none"]
  /\ recent' = recent \cup {l}
  /\ Done(l)
  /\ UNCHANGED <<jobs, enforce>>

VisitIdle(l) ==
  /\ tpc = "walk" /\ l \in todo \ active
  /\ clock[l] # "over"
  /\ clock' = [clock EXCEPT ![l] = "running"]
  /\ Done(l)
  /\ UNCHANGED <<jobs, enforce, recent>>

VisitSuspect(l) ==
  /\ tpc = "walk" /\ l \in todo \ active
  /\ clock[l] = "over"
  /\ tpc' = "ping" /\ cur' = l
  /\ st0' = StartTime(PidOf[l])
  /\ UNCHANGED <<jobs, enforce, clock, todo, active, recent>>

Vouched ==
  /\ tpc = "ping" /\ cur \in Vouching
  /\ clock' = [clock EXCEPT ![cur] = "running"]
  /\ recent' = recent \cup {cur}
  /\ Done(cur)
  /\ UNCHANGED <<jobs, enforce>>

(* No health_url, a negative or no answer: flag the lease, or evict it.    *)
Unvouched ==
  /\ tpc = "ping"
  /\ \/ enforce /\ tpc' = "check" /\ UNCHANGED <<todo, active, cur, st0>>
     \/ ~enforce /\ Done(cur)
  /\ UNCHANGED <<jobs, enforce, clock, recent>>

Evicted ==
  /\ Ended(cur)
  /\ clock' = [clock EXCEPT ![cur] = "none"]
  /\ Done(cur)

(* The process gone or recycled since the question: only the lease ends.   *)
CheckGone ==
  /\ tpc = "check" /\ StartTime(PidOf[cur]) # st0
  /\ Evicted
  /\ UNCHANGED <<up, born, busy, stopping, enforce>>

\* mutant: the start time is not compared
CheckAny ==
  /\ tpc = "check"
  /\ tpc' = "strike"
  /\ UNCHANGED <<jobs, enforce, clock, todo, active, cur, st0, recent>>

CheckSame ==
  /\ tpc = "check" /\ StartTime(PidOf[cur]) = st0
  /\ tpc' = "strike"
  /\ UNCHANGED <<jobs, enforce, clock, todo, active, cur, st0, recent>>

StrikeUnit ==
  /\ tpc = "strike" /\ AppUnit(PidOf[cur]) # NoUnit
  /\ up' = up \ Targets(cur)
  /\ busy' = busy \ Targets(cur) /\ stopping' = stopping \ Targets(cur)
  /\ Evicted
  /\ UNCHANGED <<born, enforce>>

\* mutant: the exception ends the loop
StrikeTimesOutDies ==
  /\ Slow
  /\ tpc = "strike" /\ AppUnit(PidOf[cur]) # NoUnit
  /\ stopping' = stopping \cup Targets(cur)
  /\ tpc' = "dead" /\ todo' = {} /\ active' = {} /\ cur' = NoLease /\ st0' = 0
  /\ UNCHANGED <<row, up, born, busy, owner, enforce, clock, recent>>

(* systemctl stop takes longer than 30 s: the exception ends the tick with *)
(* the lease still granted, and systemd goes on stopping the unit.         *)
StrikeTimesOut ==
  /\ Slow
  /\ tpc = "strike" /\ AppUnit(PidOf[cur]) # NoUnit
  /\ stopping' = stopping \cup Targets(cur)
  /\ tpc' = "asleep" /\ todo' = {} /\ active' = {} /\ cur' = NoLease /\ st0' = 0
  /\ UNCHANGED <<row, up, born, busy, owner, enforce, clock, recent>>

(* SIGTERM to the pid, which exits in its own time or not at all; nothing  *)
(* to signal if the process is gone.                                       *)
StrikePid ==
  /\ tpc = "strike" /\ AppUnit(PidOf[cur]) = NoUnit
  /\ Evicted
  /\ UNCHANGED <<up, born, busy, stopping, enforce>>

(* The code forgets the clocks of rows that are gone here; a row does not  *)
(* come back under its id, so nobody reads the clock that stays.           *)
TickEnd ==
  /\ tpc = "walk" /\ todo = {}
  /\ tpc' = "asleep"
  /\ UNCHANGED <<jobs, enforce, clock, todo, active, cur, st0, recent>>

TickStep ==
  \/ TickStart \/ TickEnd
  \/ \E l \in Lease : VisitWorking(l) \/ VisitIdle(l) \/ VisitSuspect(l)
  \/ Vouched \/ Unvouched \/ CheckGone \/ CheckSame
  \/ StrikeUnit \/ StrikeTimesOut \/ StrikePid

(* The module's dictionaries go with the process.                          *)
Restart ==
  /\ Restarts
  /\ clock' = [l \in Lease |-> "none"]
  /\ tpc' = "asleep" /\ todo' = {} /\ active' = {} /\ cur' = NoLease /\ st0' = 0
  /\ UNCHANGED <<jobs, enforce, recent>>

Next ==
  \/ \E l \in Lease : Grant(l) \/ Release(l) \/ Window(l)
  \/ \E p \in Pid : Work(p) \/ Rest(p) \/ Exit(p) \/ Spawn(p)
  \/ TickStep \/ Restart

Spec == Init /\ [][Next]_vars

(* The loop goes on after any exception, time passes, and systemd kills    *)
(* what does not stop (TimeoutStopSec).                                    *)
FairSpec ==
  /\ Spec
  /\ WF_vars(TickStep)
  /\ \A l \in Lease : WF_vars(Window(l))
  /\ \A p \in Pid : WF_vars(p \in stopping /\ Exit(p))

-----------------------------------------------------------------------------
(* A lease is acted on only after a whole window in which no sample found  *)
(* its process working and no owner vouched for it (stall.py:3-7).         *)
QuietForWindow == tpc = "strike" => cur \notin recent

(* Whoever is signalled through a pid is the process whose owner was asked *)
(* (stall.py:92-94).                                                       *)
StrikesTheAsked == tpc = "strike" /\ PidOf[cur] \in up => born[PidOf[cur]] = st0

Jobs == {l \in Lease : Kind[l] = "job"}

Stalled(l) == l \in Granted /\ ~SampledActive(l)

(* Under enforcement a stalled lease nobody vouches for ends, however      *)
(* slowly units stop, if the manager is not restarted again and again.     *)
StalledEnds ==
  <>[][~Restart]_vars => \A l \in Jobs \ Vouching : enforce => []<>~Stalled(l)

(* No process is signalled other than the one the lease was granted to     *)
(* (stall.py:66-67, 94).  The code does not keep this: the start time it   *)
(* compares is taken a whole window after the lease was.                   *)
StrikesTheOwner ==
  tpc = "strike" /\ cur \in Granted /\ PidOf[cur] \in up /\ AppUnit(PidOf[cur]) = NoUnit
    => born[PidOf[cur]] = owner[cur]
=============================================================================
