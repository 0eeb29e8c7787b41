------------------------------- MODULE Models -------------------------------
(***************************************************************************)
(* Model residency (src/gpu_manager/models.py): ensure() in the handler    *)
(* threads and the gates, the drain loop, and the systemd units they start *)
(* and stop.  Both sides work under _state_lock and talk to systemctl,     *)
(* which can take up to 30 s, so every systemctl call is a step of its own *)
(* and the units move between the steps.  The lease registry is what       *)
(* Leases promises: a request is granted or not, a lapsed row whose pid is *)
(* gone is reaped.                                                         *)
(*                                                                         *)
(* Time is two flags: "idle" of a model's state (now - last_ensure has     *)
(* passed idle_drain_s) and the overdue rows (heartbeat older than ttl_s). *)
(***************************************************************************)
EXTENDS Naturals, FiniteSets

CONSTANTS
  Model,        \* cfg.models, by name
  Caller,       \* threads that run ensure(): API handlers, gates, pre-warm
  Id,           \* bound: lease ids in use at once
  Faults,       \* what may go wrong, of AllFaults
  MaxRestarts,  \* bound: restarts of the manager process
  NoModel, NoId, NoState, Free, Drain

(* "nvml_fails": the request for a lease raises, on the way to its reading. *)
AllFaults == {"timeout", "start_fails", "stop_fails", "auto_restart", "nvml_fails"}

ASSUME FaultsAssumption == Faults \subseteq AllFaults

ASSUME NamesAssumption ==
  NoModel \notin Model /\ NoId \notin Id /\ {Free, Drain} \cap Caller = {} /\ Free # Drain

VARIABLES
  unit,      \* unit[m]: what `systemctl is-active` says of m's unit
  st,        \* st[m]: _state[m], or NoState
  row,       \* row[l]: the model whose model-manager lease l is granted, or NoModel
  due,       \* ids whose heartbeat is older than their ttl_s
  bound,     \* ids whose pid is that of a running unit
  lock,      \* who holds _state_lock: a caller, Drain or Free
  pc,        \* pc[c]: where caller c stands in ensure()
  about,     \* about[c]: the model c ensures
  held,      \* held[c]: the lease granted to c and not yet stored
  dpc,       \* where the drain loop stands; "dead" once an exception ended it
  dat,       \* the model the drain loop works on
  left,      \* the models of this round the drain loop has not come to
  restarts,
  fresh      \* history: models ensured less than idle_drain_s ago

vars == <<unit, st, row, due, bound, lock, pc, about, held, dpc, dat, left,
          restarts, fresh>>
callers == <<pc, about, held>>
drainer == <<dpc, dat, left>>
table == <<row, due, bound>>

ModelState == [idle : BOOLEAN, lease : Id \cup {NoId}]

ASSUME NoStateAssumption == NoState \notin ModelState

TypeOK ==
  /\ unit \in [Model -> {"inactive", "activating", "active"}]
  /\ st \in [Model -> ModelState \cup {NoState}]
  /\ row \in [Id -> Model \cup {NoModel}]
  /\ due \subseteq Id /\ bound \subseteq Id
  /\ lock \in Caller \cup {Drain, Free}
  /\ pc \in [Caller -> {"out", "want", "look", "reattach", "ask", "start"}]
  /\ about \in [Caller -> Model \cup {NoModel}]
  /\ held \in [Caller -> Id \cup {NoId}]
  /\ dpc \in {"asleep", "round", "look", "purge", "adopt", "stop", "free", "beat", "dead"}
  /\ dat \in Model \cup {NoModel} /\ left \subseteq Model
  /\ restarts \in Nat /\ fresh \subseteq Model

-----------------------------------------------------------------------------
RowsOf(m) == {l \in Id : row[l] = m}

Remembered == {held[c] : c \in Caller} \cup {st[m].lease : m \in {n \in Model : st[n] # NoState}}

(* uuid4 never repeats: an id is given out again only once it is forgotten. *)
NewIds == {l \in Id : row[l] = NoModel} \ Remembered

Init ==
  /\ unit = [m \in Model |-> "inactive"]
  /\ st = [m \in Model |-> NoState]
  /\ row = [l \in Id |-> NoModel]
  /\ due = {} /\ bound = {}
  /\ lock = Free
  /\ pc = [c \in Caller |-> "out"]
  /\ about = [c \in Caller |-> NoModel]
  /\ held = [c \in Caller |-> NoId]
  /\ dpc = "asleep" /\ dat = NoModel /\ left = {}
  /\ restarts = 0 /\ fresh = {}

(* Rows are released: they leave the table with their heartbeat and pid.   *)
Released(ids) ==
  /\ row' = [l \in Id |-> IF l \in ids THEN NoModel ELSE row[l]]
  /\ due' = due \ ids
  /\ bound' = bound \ ids

Inserted(l, m) == row' = [row EXCEPT ![l] = m] /\ UNCHANGED <<due, bound>>

(* _reattach: adopt the first granted row of the model and release its     *)
(* duplicates, else ask for a fresh one with floor 0, which may be denied. *)
Reattach(m, idle) ==
  \/ \E l \in RowsOf(m) :
       /\ Released(RowsOf(m) \ {l})
       /\ st' = [st EXCEPT ![m] = [idle |-> idle, lease |-> l]]
  \/ \E l \in NewIds :
       /\ RowsOf(m) = {}
       /\ Inserted(l, m)
       /\ st' = [st EXCEPT ![m] = [idle |-> idle, lease |-> l]]
  \/ /\ RowsOf(m) = {}
     /\ st' = [st EXCEPT ![m] = [idle |-> idle, lease |-> NoId]]
     /\ UNCHANGED table

-----------------------------------------------------------------------------
(* ensure().  Every return, and every exception, gives the lock back.      *)

Replies(c) ==
  /\ lock' = Free
  /\ pc' = [pc EXCEPT ![c] = "out"]
  /\ about' = [about EXCEPT ![c] = NoModel]
  /\ held' = [held EXCEPT ![c] = NoId]

Goes(c, where) == pc' = [pc EXCEPT ![c] = where] /\ UNCHANGED <<lock, about, held>>

Call(c, m) ==
  /\ pc[c] = "out"
  /\ pc' = [pc EXCEPT ![c] = "want"]
  /\ about' = [about EXCEPT ![c] = m]
  /\ UNCHANGED <<unit, st, table, lock, held, drainer, restarts, fresh>>

\* mutant: the state is refreshed without waiting for _state_lock
EnterUnlocked(c) ==
  LET m == about[c] IN
  /\ pc[c] = "want"
  /\ lock' = c
  /\ pc' = [pc EXCEPT ![c] = "look"]
  /\ st' = [st EXCEPT ![m] = [idle |-> FALSE,
                              lease |-> IF st[m] = NoState THEN NoId ELSE st[m].lease]]
  /\ fresh' = fresh \cup {m}
  /\ UNCHANGED <<unit, table, about, held, drainer, restarts>>

\* mutant: the state is made anew at every ensure, without its lease_id
EnterForgetsKey(c) ==
  /\ pc[c] = "want" /\ lock = Free
  /\ lock' = c
  /\ pc' = [pc EXCEPT ![c] = "look"]
  /\ st' = [st EXCEPT ![about[c]] = [idle |-> FALSE]]
  /\ fresh' = fresh \cup {about[c]}
  /\ UNCHANGED <<unit, table, about, held, drainer, restarts>>

Enter(c) ==
  LET m == about[c] IN
  /\ pc[c] = "want"
  /\ lock = Free
  /\ lock' = c
  /\ pc' = [pc EXCEPT ![c] = "look"]
  /\ st' = [st EXCEPT ![m] = [idle |-> FALSE,
                              lease |-> IF st[m] = NoState THEN NoId ELSE st[m].lease]]
  /\ fresh' = fresh \cup {m}
  /\ UNCHANGED <<unit, table, about, held, drainer, restarts>>

Look(c) ==
  LET m == about[c] IN
  /\ pc[c] = "look"
  /\ \/ unit[m] = "active" /\ st[m].lease = NoId /\ Goes(c, "reattach")
     \/ unit[m] = "active" /\ st[m].lease # NoId /\ Replies(c)
     \/ unit[m] = "activating" /\ Replies(c)
     \/ unit[m] = "inactive" /\ Goes(c, "ask")
     \/ "timeout" \in Faults /\ Replies(c)
  /\ UNCHANGED <<unit, st, table, drainer, restarts, fresh>>

ReattachCall(c) ==
  /\ pc[c] = "reattach"
  /\ Reattach(about[c], st[about[c]].idle)
  /\ Replies(c)
  /\ UNCHANGED <<unit, drainer, restarts, fresh>>

Admitted(c) ==
  /\ pc[c] = "ask"
  /\ \E l \in NewIds :
       /\ Inserted(l, about[c])
       /\ held' = [held EXCEPT ![c] = l]
  /\ pc' = [pc EXCEPT ![c] = "start"]
  /\ UNCHANGED <<unit, st, lock, about, drainer, restarts, fresh>>

Deferred(c) ==
  /\ pc[c] = "ask"
  /\ Replies(c)
  /\ UNCHANGED <<unit, st, table, drainer, restarts, fresh>>

\* mutant: the exception leaves ensure() without giving _state_lock back
AskRaisesKeepsLock(c) ==
  /\ "nvml_fails" \in Faults
  /\ pc[c] = "ask" \/ (pc[c] = "reattach" /\ RowsOf(about[c]) = {})
  /\ pc' = [pc EXCEPT ![c] = "out"]
  /\ about' = [about EXCEPT ![c] = NoModel]
  /\ UNCHANGED <<unit, st, table, lock, held, drainer, restarts, fresh>>

(* leases.request() raises: with no row to adopt _reattach makes one too.  *)
AskRaises(c) ==
  /\ "nvml_fails" \in Faults
  /\ pc[c] = "ask" \/ (pc[c] = "reattach" /\ RowsOf(about[c]) = {})
  /\ Replies(c)
  /\ UNCHANGED <<unit, st, table, drainer, restarts, fresh>>

Started(c) ==
  LET m == about[c] IN
  /\ pc[c] = "start"
  /\ unit' = [unit EXCEPT ![m] = "active"]
  /\ st' = [st EXCEPT ![m].lease = held[c]]
  /\ Replies(c)
  /\ UNCHANGED <<table, drainer, restarts, fresh>>

StartFails(c) ==
  /\ "start_fails" \in Faults
  /\ pc[c] = "start"
  /\ unit' = [unit EXCEPT ![about[c]] = "inactive"]
  /\ Released({held[c]})
  /\ Replies(c)
  /\ UNCHANGED <<st, drainer, restarts, fresh>>

(* subprocess.TimeoutExpired after 30 s: the start job of systemd goes on, *)
(* the handler answers 500 and nobody releases the row.                    *)
StartTimesOut(c) ==
  /\ "timeout" \in Faults
  /\ pc[c] = "start"
  /\ unit' = [unit EXCEPT ![about[c]] = "activating"]
  /\ Replies(c)
  /\ UNCHANGED <<st, table, drainer, restarts, fresh>>

CallerStep(c) ==
  \/ Look(c) \/ ReattachCall(c) \/ Admitted(c) \/ Deferred(c) \/ AskRaises(c)
  \/ Started(c) \/ StartFails(c) \/ StartTimesOut(c)

-----------------------------------------------------------------------------
(* The drain loop: one critical section per model, then 60 s of sleep.  An *)
(* exception in a tick ends it, since drain_loop catches none.             *)

DrainGoes(where) == dpc' = where /\ UNCHANGED <<dat, left, lock>>

DrainsNext ==
  /\ dpc' = "round" /\ dat' = NoModel /\ left' = left \ {dat}
  /\ lock' = Free

DrainDies ==
  /\ dpc' = "dead" /\ dat' = NoModel /\ left' = {}
  /\ lock' = Free

CallTimesOut == "timeout" \in Faults /\ DrainDies

DrainWake ==
  /\ dpc = "asleep"
  /\ dpc' = "round" /\ left' = Model
  /\ UNCHANGED <<unit, st, table, lock, callers, dat, restarts, fresh>>

DrainSleep ==
  /\ dpc = "round" /\ left = {}
  /\ dpc' = "asleep"
  /\ UNCHANGED <<unit, st, table, lock, callers, dat, left, restarts, fresh>>

DrainTake ==
  /\ dpc = "round"
  /\ lock = Free
  /\ lock' = Drain
  /\ dpc' = "look"
  /\ \E m \in left : dat' = m
  /\ UNCHANGED <<unit, st, table, callers, left, restarts, fresh>>

\* mutant: a model the manager does not know counts as never ensured
WayInstantDrain(m) ==
  IF unit[m] # "active" THEN "purge"
  ELSE IF st[m] = NoState THEN "stop"
  ELSE IF st[m].idle THEN "stop"
  ELSE IF st[m].lease # NoId THEN "beat" ELSE "round"

\* mutant: the idle clock is looked at only while the model has its lease
WayDrainsReserved(m) ==
  IF unit[m] # "active" THEN "purge"
  ELSE IF st[m] = NoState THEN "adopt"
  ELSE IF st[m].lease # NoId
       THEN IF st[m].idle THEN "stop" ELSE "beat" ELSE "round"

(* Which branch of _drain_tick model m gets.                               *)
Way(m) ==
  IF unit[m] # "active" THEN "purge"
  ELSE IF st[m] = NoState THEN "adopt"
  ELSE IF st[m].idle THEN "stop"
  ELSE IF st[m].lease # NoId THEN "beat" ELSE "round"

DrainLook ==
  /\ dpc = "look"
  /\ \/ Way(dat) # "round" /\ DrainGoes(Way(dat))
     \/ Way(dat) = "round" /\ DrainsNext
     \/ CallTimesOut
  /\ UNCHANGED <<unit, st, table, callers, restarts, fresh>>

Forgets(m) ==
  st' = [st EXCEPT ![m] = IF st[m] = NoState THEN NoState
                          ELSE [st[m] EXCEPT !.lease = NoId]]

\* mutant: the rows go, the model's state still names one of them
DrainPurgeKeepsId ==
  /\ dpc = "purge"
  /\ Released(RowsOf(dat))
  /\ DrainsNext
  /\ UNCHANGED <<unit, st, callers, restarts, fresh>>

\* mutant: only the row the manager remembers is released
DrainPurgeKnownOnly ==
  /\ dpc = "purge"
  /\ Released({l \in RowsOf(dat) : st[dat] # NoState /\ st[dat].lease = l})
  /\ Forgets(dat)
  /\ DrainsNext
  /\ UNCHANGED <<unit, callers, restarts, fresh>>

DrainPurge ==
  /\ dpc = "purge"
  /\ Released(RowsOf(dat))
  /\ Forgets(dat)
  /\ DrainsNext
  /\ UNCHANGED <<unit, callers, restarts, fresh>>

DrainAdopt ==
  /\ dpc = "adopt"
  /\ Reattach(dat, FALSE)
  /\ DrainsNext
  /\ UNCHANGED <<unit, callers, restarts, fresh>>

(* The model is known by then, without a lease.                            *)
DrainAdoptRaises ==
  /\ "nvml_fails" \in Faults
  /\ dpc = "adopt" /\ RowsOf(dat) = {}
  /\ st' = [st EXCEPT ![dat] = [idle |-> FALSE, lease |-> NoId]]
  /\ DrainDies
  /\ UNCHANGED <<unit, table, callers, restarts, fresh>>

(* systemctl stop returns with the unit stopped, or times out and kills    *)
(* the loop with the unit stopped or not.                                  *)
DrainStop ==
  /\ dpc = "stop"
  /\ unit' = [unit EXCEPT ![dat] = "inactive"]
  /\ bound' = bound \ RowsOf(dat)
  /\ DrainGoes("free") \/ CallTimesOut
  /\ UNCHANGED <<st, row, due, callers, restarts, fresh>>

DrainStopTimesOut ==
  /\ dpc = "stop"
  /\ CallTimesOut
  /\ UNCHANGED <<unit, st, table, callers, restarts, fresh>>

(* The exit status of systemctl stop is not looked at.                     *)
DrainStopFails ==
  /\ "stop_fails" \in Faults
  /\ dpc = "stop"
  /\ DrainGoes("free")
  /\ UNCHANGED <<unit, st, table, callers, restarts, fresh>>

DrainFree ==
  /\ dpc = "free"
  /\ Released({l \in Id : st[dat] # NoState /\ st[dat].lease = l})
  /\ Forgets(dat)
  /\ DrainsNext
  /\ UNCHANGED <<unit, callers, restarts, fresh>>

\* mutant: the heartbeat goes to every row of the model
DrainBeatAll ==
  /\ dpc = "beat"
  /\ due' = due \ RowsOf(dat)
  /\ bound' = IF unit[dat] = "active" THEN bound \cup RowsOf(dat) ELSE bound
  /\ DrainsNext
  /\ UNCHANGED <<unit, st, row, callers, restarts, fresh>>

(* The heartbeat refreshes the row if it is still granted, and binds it to *)
(* the unit's main pid if systemctl names one.                             *)
DrainBeat ==
  LET l == st[dat].lease IN
  /\ dpc = "beat"
  /\ \/ /\ due' = due \ {l}
        /\ bound' = IF unit[dat] = "active" /\ row[l] = dat THEN bound \cup {l} ELSE bound
        /\ DrainsNext
     \/ CallTimesOut /\ UNCHANGED <<due, bound>>
  /\ UNCHANGED <<unit, st, row, callers, restarts, fresh>>

DrainStep ==
  \/ DrainWake \/ DrainSleep \/ DrainLook \/ DrainPurge \/ DrainAdopt
  \/ DrainAdoptRaises \/ DrainStop \/ DrainStopTimesOut \/ DrainStopFails
  \/ DrainFree \/ DrainBeat

-----------------------------------------------------------------------------
(* The units, the clock, the reaper and the manager process.               *)

UnitUp(m) ==
  /\ unit[m] = "activating"
  /\ unit' = [unit EXCEPT ![m] = "active"]
  /\ UNCHANGED <<st, table, lock, callers, drainer, restarts, fresh>>

(* A unit exits, or is stopped by hand; with Restart= it shows             *)
(* "activating" until systemd has started it again.                        *)
UnitExit(m) ==
  /\ unit[m] # "inactive"
  /\ \/ unit' = [unit EXCEPT ![m] = "inactive"]
     \/ "auto_restart" \in Faults /\ unit' = [unit EXCEPT ![m] = "activating"]
  /\ bound' = bound \ RowsOf(m)
  /\ UNCHANGED <<st, row, due, lock, callers, drainer, restarts, fresh>>

Age(m) ==
  /\ m \in fresh \/ (st[m] # NoState /\ ~st[m].idle)
  /\ fresh' = fresh \ {m}
  /\ st' = [st EXCEPT ![m] = IF st[m] = NoState THEN NoState ELSE [st[m] EXCEPT !.idle = TRUE]]
  /\ UNCHANGED <<unit, table, lock, callers, drainer, restarts>>

(* ttl_s is idle_drain_s + 300: five rounds of the drain loop, so a row it *)
(* heartbeats, or one an ensure() has just been granted, does not lapse.   *)
Attended(l) ==
  \/ \E c \in Caller : held[c] = l
  \/ dpc # "dead" /\ \E m \in Model : st[m] # NoState /\ st[m].lease = l

Surplus(l) == row[l] # NoModel /\ ~Attended(l)

Lapse(l) ==
  /\ Surplus(l) /\ l \notin due
  /\ due' = due \cup {l}
  /\ UNCHANGED <<unit, st, row, bound, lock, callers, drainer, restarts, fresh>>

Reap(l) ==
  /\ l \in due /\ l \notin bound
  /\ Released({l})
  /\ UNCHANGED <<unit, st, lock, callers, drainer, restarts, fresh>>

(* The manager restarts: _state and the threads go, rows and units stay,   *)
(* and the drain loop starts afresh.                                       *)
Restart ==
  /\ restarts < MaxRestarts
  /\ restarts' = restarts + 1
  /\ st' = [m \in Model |-> NoState]
  /\ lock' = Free
  /\ pc' = [c \in Caller |-> "out"]
  /\ about' = [c \in Caller |-> NoModel]
  /\ held' = [c \in Caller |-> NoId]
  /\ dpc' = "asleep" /\ dat' = NoModel /\ left' = {}
  /\ UNCHANGED <<unit, table, fresh>>

Next ==
  \/ \E c \in Caller : (\E m \in Model : Call(c, m)) \/ Enter(c) \/ CallerStep(c)
  \/ DrainStep \/ DrainTake
  \/ \E m \in Model : UnitUp(m) \/ UnitExit(m) \/ Age(m)
  \/ \E l \in Id : Lapse(l) \/ Reap(l)
  \/ Restart

Spec == Init /\ [][Next]_vars

(* A thread that runs goes on, and the drain loop gets a lock that is free *)
(* again and again (threading.Lock keeps no queue).                        *)
ThreadFairness ==
  /\ \A c \in Caller : WF_vars(CallerStep(c))
  /\ WF_vars(DrainStep) /\ SF_vars(DrainTake)

DrainSpec == Spec /\ ThreadFairness

(* The clock and the reaper.                                              *)
Aging == \A m \in Model : WF_vars(Age(m))
Reaping == \A l \in Id : WF_vars(Lapse(l)) /\ WF_vars(Reap(l))

-----------------------------------------------------------------------------
(* Until a restart and while the drain loop lives, the lease a model's     *)
(* state names is granted to that model: heartbeats and the final release  *)
(* reach a real row.  (The code does not keep this after a restart, nor    *)
(* where a systemctl call times out or a stop fails: _reattach can adopt a *)
(* row that is overdue, and the reaper take it before its next heartbeat.) *)
ReservationKnown ==
  restarts = 0 /\ dpc # "dead" =>
    \A m \in Model : st[m] # NoState /\ st[m].lease # NoId => row[st[m].lease] = m

(* The lease an ensure() is about to store is granted to its model and no  *)
(* other caller or model names it.                                         *)
HeldIsOurs ==
  \A c \in Caller : held[c] # NoId =>
    /\ row[held[c]] = about[c]
    /\ \A d \in Caller \ {c} : held[d] # held[c]
    /\ \A m \in Model : st[m] # NoState => st[m].lease # held[c]

(* The drain loop never stops a unit that was ensured within the last      *)
(* idle_drain_s, whatever restarts lie between (models.py:132).            *)
StopsOnlyUnused == dpc = "stop" => dat \notin fresh

(* What ends with the drain loop is claimed for a loop that is alive.      *)
LoopLives == []<>(dpc # "dead")

(* A model can come to have several rows: a unit that exits and is ensured *)
(* before the next tick gets another.  Every row that no state names ends, *)
(* in the tick or by the reaper, so floors are not counted twice for good, *)
(* unless a dead loop leaves the unit running on it.                       *)
SurplusEnds ==
  Reaping /\ LoopLives => \A l \in Id : Surplus(l) ~> ~Surplus(l)

Ensuring(m) == \E c \in Caller : about[c] = m

(* A model that is no longer ensured is drained (models.py:13-14).  The    *)
(* code does not keep this where a systemctl call can take over 30 s, nor  *)
(* where NVML fails under an adoption: either ends the drain loop.         *)
UnusedDrains ==
  Aging => \A m \in Model : <>[]~Ensuring(m) => []<>(unit[m] # "active")

(* What the code keeps of it: the loop drains every unused model as long   *)
(* as no exception ends it, however the ensures of other models compete    *)
(* with it for _state_lock, and after a restart too (models.py:116-146).   *)
LiveLoopDrains == LoopLives => UnusedDrains

(* A model that is not running keeps no reservation, and a drain loop that *)
(* is alive sees to it without waiting for the ttl (models.py:122-124).    *)
StrandedReleased ==
  LoopLives => \A m \in Model : <>[](unit[m] = "inactive") => []<>(RowsOf(m) = {})
=============================================================================
