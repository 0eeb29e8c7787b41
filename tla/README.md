# Verification of Floating-Point Ranger

TLA+ models of gpu-manager (the service of this repository), the TLC runs that
check them on small instances, and theorems that TLAPS checks for every value of
the constants.  Every definition is translated from the source; `PROJECT.json`
maps each to its lines, lists the runs, the mutants that show each property can
fail, the hazards and the theorems.

Contents: [Inventory](#inventory), [Modules](#modules), [Runs](#runs),
[Bounds](#bounds), [Fairness](#fairness), [Proofs](#proofs),
[Where code and docs differ](#where-code-and-docs-differ),
[Not modelled](#not-modelled-and-abstractions), [Plan](#plan).

## Inventory

gpu-manager is one Python process (FastAPI, synchronous handlers in a thread
pool, background loops in asyncio tasks that hand their work to threads), a
SQLite file, a directory of marker files, and the systemd units of the models.

| Component | State | Operations | Talks to |
|---|---|---|---|
| Lease registry, `admission.py` | table `lease` of `state.db`, an `RLock`, the unique index `ux_lease_excl` | request, heartbeat, release, reap, active | probes and AMD cache (readings), hold markers, MPS; called by everything below |
| Model residency, `models.py` | `_state` (last_ensure, lease_id), `_state_lock` | ensure, drain loop every 60 s | registry; `systemctl` start, stop, is-active, show |
| Stall watch, `stall.py` with `util.py`, `owners.py` | `_idle_since`, `_flagged`, `_last_vram` | one tick every interval: sample, ask the owner, strike | registry (reads rows, releases), owners over HTTP, `systemctl stop`, SIGTERM |
| Holds and presence, `presence.py`, `app.py` | marker files `hold-<uuid>.<reason>` | POST and DELETE hold, poll every few seconds | `nxserver --list`; read by the registry |
| Configuration save, `app.py` | `config.yaml`, its candidate and its backups | PUT config, then a restart | the loader `config.py` |
| gpu-lease client, `bin/gpu-lease` | lease id, child process, heartbeat thread | ask, start, rebind, wait, release | the HTTP API |
| MPS, `mps.py` and its unit | whether the control daemon runs | concurrency_active | read by the registry |
| Gates, `gates.py` | open connections; workers of the event loop's executor | on the first bytes wake the model, wait for its server, pipe | ensure, in a worker like the drain loop's rounds |
| Remote AMD cards, `amd.py`, `agent/` | the manager's snapshot and engine baseline; the reporter's 2 s memo | poll, serve, scan | read by the registry and the status page |
| Rogue watch, `rogue.py` | pids alerted, the list shown | one tick: NVML, leases, systemd, /proc, alerts | registry (reads), `systemctl show`, ntfy |
| Queue sources, `sources.py` | cache per source | fetch and merge | HTTP |
| HTTP API, configuration loader, pre-warm, dashboard, MCP server | none, or configuration | routes; callers of the above | all |

What is hard in it:

* **Check, then act.**  A request reads the cards outside the lock, decides under
  it and inserts; two processes can share `state.db` (the index is there for
  that).  The drain loop reads a unit's state and then acts on it; the stall
  watch samples, asks, and only then strikes.
* **Long calls.**  `systemctl` takes up to 30 s under `_state_lock`, health
  questions seconds; the world moves meanwhile.
* **Lost calls and crashes.**  Replies, releases and rebinding heartbeats get
  lost; the manager restarts (every save restarts it) with rows and units
  surviving and its memory, threads and the hold directory gone.
* **Processes.**  Liveness is "the pid has a `/proc` entry"; pids are reused,
  exit, are rebound to a child, and pid numbers of another guest mean nothing.
* **Loops that must not die**, locks that must come back, and a pool of workers that
  handlers waiting for a lock can fill.
* **Old news.**  A remote card is known by samples that may be late, of another card, or
  older than the one before; the rogue watch judges by pid what it read at four times.

What makes each component correct: an exclusive lease is alone on its card but
for resident models, promised floors fit, a running job keeps its lease, an
abandoned one ends (registry); an `ensure` keeps the lease it was granted, the
loop stops only unused models and releases what stopped ones leave behind
(residency); only quiet local jobs are struck, and the process that is struck
is the one that was asked about (stall watch); an operator's hold survives the
poller and a client's hold survives the operator (holds); the live file always
loads and comes into force (configuration); wrapped commands never overlap and
their leases end (client); a client behind a gate is connected or dropped, and its
model is not stopped under it (gates); a remote card that cannot be read is offline and
activity is measured between two good samples (remote cards); an alert is about a
process that nothing covered, once, and what stays uncovered is listed (rogue watch).

## Modules

| Module | Contents |
|---|---|
| `Registry` | abstract specification: a table of leases; `Admit` against the tenants of the card, `End` of any set |
| `Floors` | the sum of the VRAM floors of a set of leases, as a cardinality (no recursion) |
| `Leases` | the registry in detail: several manager processes, handler threads step by step, reaper, clients, holds, MPS, processes. Implements `Registry` (`Kept`) |
| `Models` | `ensure`, `_reattach` and the drain loop under `_state_lock`, one step per `systemctl` or registry call; units, reaper, restart |
| `StallWatch` | the tick step by step beside jobs that work, rest, exit and are born |
| `Gate` | extends `Models`: gate handlers as callers of `ensure` that ask again, the executor's workers, the pipe. Implements `Models` (`GateImplements`) |
| `Holds` | the markers of one card, the API, the poller and its probe |
| `ConfigSave` | `config_put`, one step per system call, on inodes and names |
| `Service` | composes `Holds` and `ConfigSave` on the process both live in: what it has loaded, the timers that restart it, crashes |
| `RemoteCard` | the reporter of a remote card and the poller, from the files of the guest to what admission is given |
| `RogueWatch` | the tick read by read beside processes, leases and restarts |
| `GpuLease` | `main()` of the client with heartbeat thread and signals, beside one row per client; its rows obey `Registry` (`LaneKept`) |
| `MCLeases`, `MCModels`, `MCGate`, `MCStallWatch`, `MCService` | instances for TLC |
| `LeasesProofs`, `ModelsProofs`, `GateProofs`, `StallWatchProofs`, `GpuLeaseProofs`, `ServiceProofs`, `RogueWatchProofs`, `RemoteCardProofs` | theorems |

**Leases.**  `Request` is the head of `request()`: the reap it begins with, the
refusals and the candidate list (`Candidates`, `Before`: role, capability,
remote and spillover filters, and their order).  `Probe` takes the readings
outside the lock, `Choose` and `PassOver` are an iteration of the candidate
loop under the lock (`Admits` is its conjunction of refusals, `Orphans` the rows
it reclaims before it decides), `Insert` and `RacedAway` are the INSERT with and
without an `IntegrityError`.  `Reply` and `LoseReply` are what the client sees;
a handler whose manager restarts is lost with its reply.  `lock` is the `RLock`
of each manager; actions of others that need it (`Heartbeat`, `Release`, `Reap`,
the reap of a new request) wait for it.  `due` of a row stands for "heartbeat
older than ttl_s".  Readings are any that fit the card (`Readings`), or
`Offline`; a card's memory may be used by anything.

**Models.**  `unit` is what `systemctl is-active` says.  `Enter` takes the lock,
`Look` branches on the unit, `Admitted`/`Deferred`, `Started`/`StartFails`/
`StartTimesOut` are the outcomes of the calls of `ensure`; `Way` is the branch
that `_drain_tick` gives a model and the `Drain...` actions are its steps.  Two
exceptions occur: a `systemctl` call that takes more than 30 s, and a request for a
lease that raises (NVML fails under its reading, as `ProbeRaises` in `Leases`), in `ensure`
and in `_reattach` with no row to adopt (`AskRaises`, `DrainAdoptRaises`).  Either gives
the lock back; in a tick it ends the drain loop (`DrainDies`), since nothing in
`drain_loop` catches it.  The registry appears as its table, with
deferral always possible.  `idle` of a state is "now - last_ensure has passed
idle_drain_s".

**Gate.**  `conn[k]` says where `_handle` stands: "wake" is its loop between two
calls, where it looks at the clock, "call" from that look on, waiting for a worker or (when
`pc[k]` is not "out") inside `ensure`, "ready" the readiness question, "dial" the
connection it makes, "pipe" the copying; "quiet" is no connection, or one that has sent
nothing.  `Wakes` needs a free worker: `Busy` counts the handlers inside `ensure`, the
round of the drain loop and `others`, the rounds of the manager's other loops (reaper,
presence, stall, rogue and AMD watch), which all go through `asyncio.to_thread` (the API's
handlers have a pool of their own).  `Told` is what a step of `ensure` means to the handler;
an exception drops the connection.  `GivesUp` is the 240 s, looked at only before a call
(`gates.py:73`): a handler that waits for a worker cannot leave the queue.  The drain loop's
steps are those of `Models`, its turn needs a worker (`DrainTurn`).  A handler in its loop does
not notice that its client has left.

**StallWatch.**  `clock[l]` is `_idle_since[l]`: none, running, or over once
stall_window_s have passed.  `TickStart` reads the rows and the sample
(`SampledActive`: the process computes or allocates, or it is the only
non-model on a busy card), `Visit...` is the loop body up to the health
question, `Vouched`/`Unvouched` its answer, `CheckSame`/`CheckGone` the
comparison of start times, `Strike...` the outcomes of `_evict`.  `born[p]`
tells the processes that had pid `p` apart, as a start time does.  `TickEnd` does not drop the
clocks of rows that are gone: no later row has their ids, so nobody reads them.

**Holds.**  `marker` is the set of suffixes present for one card; the poller's
own suffix is `nx`, which is also a legal reason for POST.  `Read` is the probe,
`Touch` and `Remove` what follows it; `Restart` empties the directory, because
the unit declares it as `RuntimeDirectory`.  `polled` says whether the configuration in force
has an enabled nomachine entry for the card: there is no poller for another.

**ConfigSave.**  Names point to inodes and an open descriptor keeps its inode, so
a rename under an open file is what it is on the disk.

**Service.**  Every step is one of `Holds` or of `ConfigSave` with the other's variables
unchanged, but for the restart, which is a step of both: the handlers and timers end, the
hold directory goes, the live file is loaded into `running` (`CFG`); a card is polled
while one of the texts in `Polling` runs.  `Saved` is the rename
with the `threading.Timer` it starts, `TimerFires` its `systemctl restart`, `Crash` any other
death.

**RemoteCard.**  A poll takes steps: `Ask`, then in the reporter `ServeMemo`, or `ReadCard`
and `ScanClients` (the card is read before /proc, so a sample may be of two moments), or
`NoAnswer`; `Hang` is a reply whose bytes trickle in, since the timeout of `requests` is
between bytes.  `Offline` and `Online` are the two ends of `_poll_one`
(a reply of another shape than the reporter's, which raises there and leaves the snapshot to
go stale, is left out).  Of time only the
order of two samples is kept (`later`): handlers that overlap may store the older one last
(`Scanner`).  `Usable` is what `probe_snapshot` gives admission.

**RogueWatch.**  The tick is `Snapshot` (NVML), `Know` (leases and main pids), `Examine` (a
command line at a time), `Publish`, `Alert`, `Forget`.  `proc[p]` is the kind of the process
that has pid `p` now, `same` and `covered` the history that tells it from the one the
snapshot was about.

**GpuLease.**  `pc` follows `main()`; `Term`, `Interrupt` and `Kill` can come at
every step, the handler exists from `Handler` on.  `row[s]` says whether the
granted row is bound to the shim or to its child; one lane is shared.

## Runs

| Run | Question | Properties |
|---|---|---|
| `lanes` | Does every grant respect the lane and the promised floors, on an MPS card and a plain one, through stale readings, reclaims, restarts and MPS going up and down? | `ExclusiveAlone`, `FloorsFit`, `OneLeasePerHolder`, refinement `Kept` |
| `routing` | Where may a job land, does a hold that stays up keep it away, and, with two manager processes on one database, does the index alone keep the lane; who can end the lease of a running client? | `RoutedRight`, `HoldHonoured`, `ExclusiveLane`, `LeaseStays` |
| `working` | Does a late heartbeat cost a running job its lease; do abandoned leases end (and so the lock come back to the reaper)? | `WorkingJobKeepsLease`, `OrphansExpire` |
| `residency` | With two gate connections and an API caller, the drain loop and another loop on two workers, every fault and a restart: does an `ensure` keep its lease, is a model spared while a gate connects to it, does every wake end? | `HeldIsOurs`, `WakingSpared`, `WakeEnds` |
| `draining` | With two models that compete for the lock, failed starts, NVML readings that raise, units that exit and a restart with adoption: is only what is unused stopped, is what a state names granted; does a drain loop that lives drain what is unused and release what a stopped unit left, and do surplus rows end? | `StopsOnlyUnused`, `ReservationKnown`, `LiveLoopDrains`, `StrandedReleased`, `SurplusEnds` |
| `drain_dies` | Does the drain hold without the premise that the loop lives, if a `systemctl` call can time out? | `UnusedDrains`, **violated** |
| `watch` | Who is struck, when, and do stalled leases end? | `QuietForWindow`, `StrikesTheAsked`, `StalledEnds` |
| `recycled_target` | Is it the process the lease was granted to? | `StrikesTheOwner`, **violated** |
| `service` | On a process that saves restart and crashes end: do holds of operators and clients survive each other, failing probes and restarts, and end; does the live file always load, and come into force? | `OperatorHoldKept`, `ClientHeld`, `HoldEnds`, `SaveSafe`, `SavedRuns` |
| `gpu_lease` | Do three wrapped commands ever overlap; does every lease end; do the rows obey the abstract registry? | `OneWorks`, `BoundWorkKept`, `LeaseEnds`, refinement `LaneKept` |
| `remote` | Through renumbered cards, failing reporters, polls that hang and samples out of order: is activity measured between two good samples, does the card go offline and come back? | `UtilOfOneInterval`, `SeenInTime` |
| `rogue` | With pids used again between the reads of a tick: is a covered process ever alerted, or one twice; does what stays uncovered get listed? | `AlertsRight`, `RogueListed` |

`TypeOK` is checked once per module besides, except for `GpuLease` and `RogueWatch`, where it is
proved (`TypeCorrect`) and no run repeats it.  Each property has a mutant in
`PROJECT.json`: a change of one mapped definition, standing beside it in the
module, that makes the property fail in the same run.

Some properties are stated under the conditions in which the code keeps them,
and it is worth knowing which: `OneWorks` is about commands whose shim stands (a
shim that is killed leaves its child running, and if the manager was down at the
rebinding the row is soon reaped); `ReservationKnown` is about the time before a restart,
with a `systemctl` that answers within 30 s and stops what it is told to stop: a start that times out leaves a
row nobody remembers, a stop that fails leaves a unit without its lease, and what `_reattach`
adopts later may be overdue and reaped under its new owner; `LiveLoopDrains`, `StrandedReleased`
and `SurplusEnds` say what a drain loop does that is alive (`LoopLives`): one `systemctl` call of
more than 30 s in a tick, or one failing reading of NVML under an adoption, ends it, with or
without a restart before; `OperatorHoldKept` is between restarts and excepts the
reason `nx`; `ClientHeld` and `HoldEnds` are about a card that is polled, the first needs a probe
that works as well; `HoldHonoured` is about a
hold that was up during the whole request; `FloorsFit` and `ExclusiveAlone` need
one manager process (with two, only the exclusive-exclusive pair is excluded by
the index); `QuietForWindow` is about samples, not about every instant.
`WorkingJobKeepsLease` and `LeaseStays` need clients that ask with
pids of their own: two that share a pid and an initiator reclaim each other's rows.
`SaveSafe` and `SavedRuns` need one save at a time; `AlertsRight` is about
processes covered from the snapshot to the alert, so a job that gives its lease back between
two reads is alerted; `RogueListed` lets the alert have been for the pid's last process;
`WakingSpared` is about the connection being made, since a connection piped for longer than
`idle_drain_s` is cut; `SeenInTime` promises "offline in the end" and "online again and
again", with no bound on either.  `WakeEnds` gives no bound either, and rests on rounds of the
other loops that end: an AMD poll whose bytes trickle in does not (`amd.py:136`), and keeps one
worker of the pool, which has min(32, cpus + 4).

## Bounds

* Leases: 3 clients, 1 to 3 cards, 2 or 3 lease ids, cards of 6 units with margin 1,
  2 possible readings.  Three ids let two leases and an orphan meet; two floors
  of 2 and 3 with the margin just fill a card, so one unit more would be caught;
  an almost promised card with an empty reading is the case in which "unrealised"
  floors matter.  An id is reused only when no client remembers it, as uuid4
  ids are not reused; `Request` is bounded by the free ids.  `routing` has two managers,
  holds and reused pids with two ids, which is what two processes racing for one lane need
  (`Recycle`, `Holdable`, `Manager`).
* Models and Gate: `residency` has 1 model, 2 connections to its gate and an API caller, the
  drain loop and another loop on 2 workers, and a restart: any two of the four that need a
  worker fill the pool, also two handlers of which one waits for the lock the other has, and
  three threads and the drain loop contend for the lock.  Its single id makes deferral
  frequent.  `draining` is the manager without gates, as `Models` has it: 2 models, one caller that may ensure either for ever while the
  other is unused, 2 ids (a named row and a surplus one, or two models' rows), and a restart,
  after which a running model is adopted with its row or without.  Safety of several models
  behind several gates is proved (`HeldCorrect`, `WakingCorrect`).  A model does not become
  idle under a handler that holds the lock or is connecting (`Attending`): a call and a connection take less than `idle_drain_s` (1800 s by default).
* StallWatch: a service with two leases one after the other, a model on its card, a
  remote row with the model's pid number; the service's pid is used by two
  processes (`MaxBorn`).  A pid does not come round again between the last look
  at its start time and the signal.
* Service: two reasons of which one is `nx`, two restarts (a save that is cut off and one
  after it), three texts, one of them rejected, one request at a time, two inodes, the live
  file and a candidate.
* RemoteCard: one client, since the activity of a client depends on its own samples only, and
  two restarts of the manager.  The card may be ours, ours but unreadable, or another.
* RogueWatch: two pids, each of any kind and used again without bound, one restart.
* GpuLease: three shims, the smallest number with a waiter behind a waiter.

The runs whose system may stop (all leases ended, all pids used up) say
`CHECK_DEADLOCK FALSE`; only the stall watch does.

## Fairness

* Handler threads and callers go on once they run: `WF` on `HandlerStep(j)` and
  `CallerStep(c)`.  Clients owe nothing: asking, releasing and heartbeats are
  never fair.
* The drain loop: `WF` on its steps, `SF` on `DrainTake`.  `threading.Lock` keeps no
  queue, so nothing promises the lock to a waiter; but each holder keeps it for a
  few calls and the loop waits 60 s between rounds, and a lock that is free again
  and again is obtained with probability 1.  `LiveLoopDrains` rests on it.
* Gate: `SF` on the next step of a handler that has asked (`HandlerGoes`): inside `ensure` and
  after it a thread goes on, and a worker (`Wakes`: the executor's queue is first come, first
  served) or a lock (`Enters`, as above) that is free again and again is got; `SF` on `GivesUp`: a handler that looks at the clock again
  and again finds the 240 s over.  It can do so between two calls only, so that a wake ends
  needs the worker and the lock; the mutant of `WakeEnds` is an exception that keeps the lock.
  The same for the drain loop (`DrainLoopGoes`), whose next round begins after 60 s, and `WF` on
  `OtherDone`: a round of another loop ends.
* Time: `WF` on `Lapse`, `Age`, `Window`, `Cooldown`, `GoesStale`; the reaper, the poller and
  a save's timer: `WF` on `Reap`, `PollStep` and `TimerFires`.  In `Models` the clock and
  the reaper are assumptions of the properties that need them (`Aging => ...`, `Reaping => ...`), so the others
  hold without.  In `GpuLease` `SF(Reap)`, as the manager may go down before any
  given round of the reaper, and `SF(Up)`: systemd restarts it (`Restart=always`).
* RemoteCard: `WF` on a poll that does not hang; `SF` on `ReadCard` and `ScanClients`, because
  the reporter's memo lasts 2 s and polls are 15 s apart, so polls that get through bring new
  samples.  Nothing ends a poll that hangs.  RogueWatch: `WF` on a step of the tick
  (`rogue.run` suppresses exceptions and goes on).
* The stall watch: `WF` on a step of its tick (`stall.run` suppresses exceptions), and
  `WF` on the exit of a process whose unit systemd is stopping (TimeoutStopSec ends
  in SIGKILL).  `StalledEnds` assumes that restarts end: a manager that restarts
  more often than the window is long never evicts.

## Proofs

TLAPS checks every theorem from the definitions and the named assumptions on the
constants (`LeasesAssumption`, `ReadingsAssumption`, `NamesAssumption`,
`NoStateAssumption`, `FaultsAssumption`, `GateAssumption`, `StallAssumption`,
`SignalsAssumption`, `ServiceAssumption`, `RogueAssumption`, `RemoteAssumption`), which TLC
evaluates on every instance.  A theorem with a further hypothesis names it (`ASSUME ... PROVE`);
the instances of the runs satisfy it, except where the text says what happens without.

| Hypothesis | Says | Why it is needed |
|---|---|---|
| `OneManager` | one manager process uses the database | two of them decide side by side; only the exclusive index stands between them |
| `OwnPids` | clients of one initiator ask with different pids, none with another's child | a request reclaims the row of its own pid |
| `OwnChildren` | a child asks for nothing under that initiator, and has one parent | it would hold its own row beside the one rebound to it |
| `~Recycle` | no pid is given out again | the row of a dead child may be reaped before its number runs again |
| `Prompt` | `systemctl` neither times out nor fails to stop | see `ReservationKnown` above |
| `NoReuse` | a pid is given out once | without, `recycled_target` shows the violation |
| `OneEditor` | one save at a time | all saves use one candidate file |

**LeasesProofs**, for any cards, clients, rows and pids.  It begins with lemmas about
`Floors`: a sum of floors does not grow when leases end and grows by its floor when one is
added, through the cardinality of the slots.

* `TypeCorrect` proves the types, with the card of a plan configured (`TypeInv`).
* `LaneCorrect` proves `ExclusiveLane` for any number of managers.  Lemma `TableStep`
  is the heart of it: a step either lets the table shrink (rows end, or change
  only in `due` and `pid`) or is the insert of one row, whose guard is the index.
* `RoutedCorrect` and `HoldCorrect` prove `RoutedRight` and `HoldHonoured` for any number of
  managers, by following a request from its candidates to its row: what it still has to try
  are candidates, what it has chosen suits it and was free of holds at some time of the
  request (`Placed`, `Minds`), and a client comes to a lease by its own insert alone
  (`MineStep`, `MineKept`).
* `DecisionCorrect`, `AloneCorrect`, `FloorsCorrect`, `Implements` are for one
  manager process (`OneManager`).  The inductive invariant is `TypeInv` with
  `LockHeld` (a job at the insert holds the lock) and `StillAdmits` (what
  it decided still holds).  `StillAdmits` is needed because the reading
  is old by then: what is carried from the choice to the insert is a bound on the
  *sum of floors*, which follows from any admissible reading (`ReadingCovers`:
  used + free never exceeds the card) and can only improve as rows end.
  `Implements` maps every step to `Admit`, `End` or a stutter of `Registry`.
* `StaysCorrect` and `WorkingCorrect` prove `LeaseStays` and `WorkingJobKeepsLease` under
  `OwnPids`, for any number of managers (the second under `~Recycle` as well).  Their
  invariant `OwnInv` says that no two clients name one row (`Apart`) and that the row a
  client names carries its initiator and its own pid or its child's (`OwnRow`); then a row
  that a reap, another request or another client's release could end is not that of a
  client whose processes run (`EndStep`, `WorkingStays`).
* `HolderCorrect` proves `OneLeasePerHolder` for one manager, with clients that rebind.
  `OneLeasePerHolder` is not inductive: between the reclaim in the candidate loop and the
  insert a heartbeat could bring the reclaimed pid back to the card.  `HolderInv` adds that no
  row of the asking process is left on the card about to be inserted on (`InsertFree`: the
  lock is held from the one to the other) and that a row bound to a child is the one its
  client holds, or that client is done (`ChildRow`).
* `LockComesBack`: whoever holds the lock of a manager is one of its handlers between its
  first look at a card and its insert or deferral (`LockOwned`), and who is at the insert
  holds it (`LockHeld`).  It is the safe half of "the lock comes back".

**ModelsProofs**, for any models, threads, rows, faults and restarts: types,
`HeldIsOurs` and `StopsOnlyUnused`.  The invariant adds `Locked` (who is past the
acquisition holds `_state_lock`), `Ours` (a row between its grant and its store is
granted, fresh and named by nobody else, so neither a tick nor the reaper takes
it) and `Clocks` (an idle clock that ran out was not restarted).  `LockCorrect` states
`Locked` by itself: through every return, exception and the end of the drain loop
`_state_lock` is held by exactly the thread that is inside it.  `ReservationCorrect` proves
`ReservationKnown` under `Prompt`.  The lease that a state names must stay attended and fresh
(`Known`), which is lost if a row older than it is adopted; so the invariant `Reserved` adds
that a unit that runs without a named lease has no row that could be adopted (`Clean`), and
that what a thread found before a slow call still holds when it acts on it (`Halfway`).  It is
claimed while the drain loop lives, which a request that raises can end; requests that raise
in `ensure` leave no row, so they need no hypothesis.

**GateProofs**, for any models, connections and workers: `GateImplements` maps every step
of `Gate` to a step of `Models` or a stutter, so what is proved there holds behind gates;
`GateReservationCorrect` is one such result.  `WakingCorrect` proves `WakingSpared` from
`Wake`: a handler calls `ensure` for its own model
from its loop only, and the model it has ensured stays fresh until it is connected.

**StallWatchProofs**, for any leases, processes, units and restarts: types,
`QuietForWindow` and `StrikesTheAsked`.  `OwnerCorrect` shows that without
reuse of pids (`NoReuse`) the property `recycled_target` violates holds: reuse is its only
cause.  The invariant says that a clock runs only
for a row that was granted once, so that no lease inherits one, and that a
clock that is over belongs to a row nothing was seen of.

**GpuLeaseProofs**, for any number of shims: types, `OneWorks` and `BoundWorkKept`.
The invariant is that the lane has one row, and that a standing shim has its row
from the grant to the end of its child (`Guarded`): the row is always bound to a
process that lives.  `LaneImplements` maps every step to `Admit`, `End` or a stutter of
`Registry`, so this module assumes of the manager no table that the abstract registry, which
`Leases` implements, would not allow.

**ServiceProofs**, for any texts, files, reasons and number of restarts: types, `SaveSafe`,
and `ArmedCorrect`, the safe half of `SavedRuns` (the live text runs or a timer will restart
the service), with one save at a time (`OneEditor`); `OperatorHoldKept` without it.  The
invariant `Saving` says that a request writes the candidate it opened, that what it is about
to rename loads, and that the backup is the live text by then.  `ServiceImplements` shows that
the service implements both `Holds` and `ConfigSave`: the restart they share is a step of each.

**RogueWatchProofs**, for any pids and restarts: types and `AlertsRight`.  The invariant
`Recognised` says that a process covered since the snapshot is leased or allowed still, that
the tick which has read the leases will recognise it, and that none is among the rogues.

**RemoteCardProofs**, for any clients and restarts: types and `UtilOfOneInterval`.  The
invariant says that the engine baseline is that of the good poll just before, or empty
(`Baseline`), and that the clients are scanned for a card that has been read (`Answered`).

Only model-checked: the liveness properties `OrphansExpire`, `WakeEnds`, `StrandedReleased`,
`LiveLoopDrains`, `SurplusEnds`, `StalledEnds`, `ClientHeld`, `HoldEnds`, `SavedRuns`,
`LeaseEnds`, `SeenInTime` and `RogueListed`, since fairness and ENABLED are out of the prover's
reach.  Of some the safe half is proved: `ArmedCorrect` for `SavedRuns`, `LockComesBack` and
`LockCorrect` for the waits of `OrphansExpire`, `WakeEnds` and `LiveLoopDrains`.  Every invariant
and action property of the passing runs is stated by a theorem.

## Where code and docs differ

Shown by a run:

* `drain_dies`: one `systemctl` call that takes more than 30 s raises out of
  `_drain_tick` and ends `drain_loop`, and so does an NVML reading that fails while a tick
  adopts a model (`models.py:66`, `135`); from then on no model is drained,
  heartbeated or reconciled (`models.py:13-14` promises the drain).
  `stall.run` and `rogue.run` suppress such exceptions.
* `recycled_target`: the start time that guards the strike is read when the window has
  ended, not when the lease was granted.  A pid that changed hands before is
  signalled (`stall.py:66-67`, `94` say that it never is).

Met while modelling, part of the models, without a run of their own:

* A target that names neither a card nor a role is not refused: if its floor is
  small it gets the spillover card, which is the desktop (`Spill`).
* The reaper keeps the lease of a dead job whose pid was reused (`Overdue`).
* A unit that shows "activating" in a tick, because systemd restarts it, loses its
  reservation (`models.py:121-129`); the ticks after that take none for a model they know, and
  it runs without one until somebody ensures it, whereas `models.py:11-12` says "for as long as
  its unit runs".  A unit that exits between ticks can get a second row (`SurplusEnds` says it
  ends).
* Stopping an app unit stops every job in it, also one that the same tick found working
  (`Targets`), whereas `stall.py:9-10` says "never a working or vouched job".
* DELETE leaves the marker `nx` to the poller on every card (`app.py:215-216`), also where there
  is none; a hold posted there with the reason "nx" stays until the service stops (leave
  `polled` out of `HoldEnds` to see it).  On a polled card the reason "nx" shares the poller's
  marker, and goes with it.  A failing probe counts as nobody connected.  A restart removes
  all holds.
* Two saves at a time write one candidate: a text can be validated and another one
  renamed (set `Editor = {e1, e2}` in `service.cfg`).
* The rogue watch alerts a job that gives its lease back between two reads of a tick (the
  process may still be ending), and never alerts a process that takes over an alerted pid
  between two ticks (`rogue.py:97` means to let it).  Its docstring speaks of the cgroups of
  model units (`rogue.py:4`); only their main pids are known.
* A poll of a remote card has no bound on its length: one whose bytes trickle in stops the
  polls of every card behind it.  The snapshot goes stale meanwhile, as it should.
* A gate's pipe keeps no model in use: one that lasts longer than `idle_drain_s` is cut.  The
  end of one direction closes the other as well.
* gpu-lease: SIGTERM before its handler is installed leaves the child running without a
  shim; Ctrl-C releases the lease while the child may still be ending.

## Not modelled, and abstractions

* Queue sources: a per-source cache with an age, filled by HTTP; nothing in the manager
  decides by it.  Dashboard, MCP server and read-only routes keep no state.
* What the reporter parses (sysfs, fdinfo, units of memory), the wording and the delivery of
  alerts, the bytes of a pipe and which of its sides ends first.
* The reporter's store of its memo in two parts is `Scanner`'s choice of a sample older than the
  last one; clocks of the guest that jump are left out, as are several remote cards.
* What memory a card really has beyond the promised floors: readings are free
  within the card.  The known weakness that foreign usage hides unrealised floors
  and the effect of a negative `vram_mib` need the memory of each process.
* Exceptions of SQLite or the file system in the reaper, the presence loop and the drain
  loop, which would end them as `drain_dies` ends the drain loop.
* `Models.Lapse` does not happen to a row that is attended: ttl_s is idle_drain_s + 300
  and the loop heartbeats every 60 s, so a drain loop that lives is in time.
* Signals 1 and 3 of the activity sample are one, "busy"; every process holds memory on
  its card; the children of a leased pid are not seen (as in the code).
* Backups of the configuration: the latest only; concurrent writes into one inode: the
  last one wins.

## Plan

Done: Leases with Registry and Floors; Models and Gate; StallWatch; GpuLease; Holds and
ConfigSave, composed in Service; RemoteCard; RogueWatch; their runs and the proofs above.
Left, the most important first:

1. Theorems: that the owner of a manager's lock has a step to take (a first candidate always
   exists, which needs a minimum over finite sets of ranks); that at most one row of a model
   is attended.
2. **Vram**, composed with `Leases`: the memory of each process, promised and realised;
   when does an admitted job really fit, foreign usage, negative floors.
3. StallWatch: the process tree of a lease, `_last_vram`, and rows released during a tick
   together with the registry.
4. A reference definition of routing, against which `Candidates` and `Before` are checked
   over all small configurations.
5. A small abstract specification of residency that `Models` implements.
