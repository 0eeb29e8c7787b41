---------------------------- MODULE ModelsProofs ----------------------------
(***************************************************************************)
(* Proofs about Models, for every number of models, threads and rows and   *)
(* every choice of faults: the types, whose turn the state lock is, that   *)
(* no thread loses the lease it is about to store, and that the drain loop *)
(* stops no unit that was ensured less than idle_drain_s ago. With a       *)
(* systemctl that answers and before a restart: the lease that a model's   *)
(* state names is granted to that model.                                   *)
(***************************************************************************)
EXTENDS Models, TLAPS

Critical == {"look", "purge", "adopt", "stop", "free", "beat"}

(* _state_lock: whoever is past its acquisition holds it, and works on a   *)
(* model.                                                                  *)
Locked ==
  /\ \A c \in Caller : pc[c] \in {"look", "reattach", "ask", "start"} <=> lock = c
  /\ dpc \in Critical <=> lock = Drain
  /\ \A c \in Caller : pc[c] # "out" => about[c] \in Model
  /\ \A c \in Caller : lock = c => st[about[c]] \in ModelState
  /\ dpc \in Critical => dat \in Model
  /\ dpc = "beat" => st[dat] \in ModelState /\ st[dat].lease # NoId

(* A lease between its grant and its store is a row of the model that is   *)
(* ensured, with a fresh heartbeat, and nobody else names it.              *)
Ours ==
  /\ \A c \in Caller : held[c] # NoId <=> pc[c] = "start"
  /\ \A c \in Caller : held[c] # NoId =>
       /\ row[held[c]] = about[c]
       /\ held[c] \notin due
       /\ \A m \in Model : st[m] # NoState => st[m].lease # held[c]
  /\ \A l \in Id : row[l] = NoModel => l \notin due

(* An idle clock that has run out was not restarted since.                 *)
Clocks == \A m \in Model : st[m] # NoState /\ st[m].idle => m \notin fresh

Inv == TypeOK /\ Locked /\ Ours /\ Clocks /\ StopsOnlyUnused
-----------------------------------------------------------------------------
LEMMA InvInit == Init => Inv
BY NamesAssumption
DEF Init, Inv, TypeOK, Locked, Ours, Clocks, StopsOnlyUnused, Critical

(* ensure(), up to the request for a lease.                                *)
LEMMA EnterStep ==
  ASSUME Inv, NEW c \in Caller, NEW m \in Model, Call(c, m) \/ Enter(c) \/ Look(c)
  PROVE  Inv'
<1> USE NamesAssumption, NoStateAssumption DEF Inv, TypeOK, Locked, Ours, Clocks, StopsOnlyUnused, Critical
<1>1. CASE Call(c, m)
  BY <1>1 DEF Call, table, drainer
<1>2. CASE Enter(c)
  <2>1. about[c] \in Model /\ st[about[c]] \in ModelState \cup {NoState}
    BY <1>2 DEF Enter
  <2>2. [idle |-> FALSE, lease |-> IF st[about[c]] = NoState THEN NoId ELSE st[about[c]].lease]
          \in ModelState
    BY <2>1 DEF ModelState
  <2> QED BY <1>2, <2>1, <2>2 DEF Enter, table, drainer
<1>3. CASE Look(c)
  BY <1>3 DEF Look, Goes, Replies, table, drainer
<1> QED BY <1>1, <1>2, <1>3

(* Rows that leave, and a row that is adopted or inserted.                 *)
LEMMA ReleasedType ==
  ASSUME TypeOK, NEW S, Released(S)
  PROVE  /\ row' \in [Id -> Model \cup {NoModel}] /\ due' \subseteq Id /\ bound' \subseteq Id
         /\ \A l \in Id : row'[l] = IF l \in S THEN NoModel ELSE row[l]
         /\ \A l \in Id : l \in due' <=> l \in due /\ l \notin S
BY DEF TypeOK, Released

LEMMA ReattachType ==
  ASSUME TypeOK, Ours, NEW m \in Model, NEW idle \in BOOLEAN, Reattach(m, idle),
         idle => st[m] # NoState /\ st[m].idle,
         \A c \in Caller : held[c] = NoId
  PROVE  /\ st' \in [Model -> ModelState \cup {NoState}]
         /\ row' \in [Id -> Model \cup {NoModel}] /\ due' \subseteq Id /\ bound' \subseteq Id
         /\ \A l \in Id : row'[l] = NoModel => l \notin due'
         /\ \A n \in Model : st'[n] # NoState /\ st'[n].idle => st[n] # NoState /\ st[n].idle
<1> USE NamesAssumption, NoStateAssumption DEF TypeOK, Ours
<1>1. CASE \E l \in RowsOf(m) :
             /\ Released(RowsOf(m) \ {l})
             /\ st' = [st EXCEPT ![m] = [idle |-> idle, lease |-> l]]
  <2>1. PICK l \in RowsOf(m) :
             /\ Released(RowsOf(m) \ {l})
             /\ st' = [st EXCEPT ![m] = [idle |-> idle, lease |-> l]]
    BY <1>1
  <2>2. l \in Id /\ [idle |-> idle, lease |-> l] \in ModelState
    BY <2>1 DEF RowsOf, ModelState
  <2> QED BY <2>1, <2>2, ReleasedType
<1>2. CASE \E l \in NewIds :
             /\ Inserted(l, m)
             /\ st' = [st EXCEPT ![m] = [idle |-> idle, lease |-> l]]
  <2>1. PICK l \in NewIds :
             /\ Inserted(l, m)
             /\ st' = [st EXCEPT ![m] = [idle |-> idle, lease |-> l]]
    BY <1>2
  <2>2. l \in Id /\ [idle |-> idle, lease |-> l] \in ModelState
    BY <2>1 DEF NewIds, ModelState
  <2> QED BY <2>1, <2>2 DEF Inserted
<1>3. CASE /\ st' = [st EXCEPT ![m] = [idle |-> idle, lease |-> NoId]]
           /\ UNCHANGED table
  <2>1. [idle |-> idle, lease |-> NoId] \in ModelState
    BY DEF ModelState
  <2> QED BY <1>3, <2>1 DEF table
<1> QED BY <1>1, <1>2, <1>3 DEF Reattach

(* Whoever holds the lock holds it alone: no lease is in flight elsewhere. *)
LEMMA Alone ==
  ASSUME Inv, NEW c \in Caller \cup {Drain}, lock = c
  PROVE  \A d \in Caller \ {c} : held[d] = NoId
BY NamesAssumption DEF Inv, Locked, Ours

LEMMA AskStep ==
  ASSUME Inv, NEW c \in Caller,
         ReattachCall(c) \/ Admitted(c) \/ Deferred(c) \/ AskRaises(c)
  PROVE  Inv'
<1> USE NamesAssumption, NoStateAssumption DEF Inv, Critical
<1>1. CASE ReattachCall(c)
  <2>1. about[c] \in Model /\ \A d \in Caller : held[d] = NoId
    BY <1>1, Alone DEF TypeOK, Locked, Ours, ReattachCall
  <2>2. /\ Reattach(about[c], st[about[c]].idle)
        /\ st[about[c]] # NoState /\ st[about[c]].idle \in BOOLEAN
    BY <1>1, <2>1 DEF ReattachCall, Locked, ModelState
  <2>3. TypeOK' /\ Clocks'
    BY <1>1, <2>1, <2>2, ReattachType DEF TypeOK, Clocks, ReattachCall, Replies, drainer
  <2>4. Locked' /\ StopsOnlyUnused'
    BY <1>1 DEF TypeOK, Locked, StopsOnlyUnused, ReattachCall, Replies, drainer
  <2>5. Ours'
    BY <1>1, <2>1, <2>2, ReattachType DEF TypeOK, Ours, ReattachCall, Replies
  <2> QED BY <2>3, <2>4, <2>5
<1>2. CASE Admitted(c)
  <2>1. PICK l \in NewIds : Inserted(l, about[c]) /\ held' = [held EXCEPT ![c] = l]
    BY <1>2 DEF Admitted
  <2>2. about[c] \in Model /\ \A d \in Caller : held[d] = NoId
    BY <1>2, Alone DEF TypeOK, Locked, Ours, Admitted
  <2>3. l \in Id /\ row[l] = NoModel /\ \A m \in Model : st[m] # NoState => st[m].lease # l
    BY <2>1 DEF NewIds, Remembered
  <2>4. TypeOK' /\ Clocks'
    BY <1>2, <2>1, <2>2, <2>3 DEF TypeOK, Clocks, Admitted, Inserted, drainer
  <2>5. Locked' /\ StopsOnlyUnused'
    BY <1>2 DEF TypeOK, Locked, StopsOnlyUnused, Admitted, drainer
  <2>6. Ours'
    BY <1>2, <2>1, <2>2, <2>3 DEF TypeOK, Ours, Admitted, Inserted
  <2> QED BY <2>4, <2>5, <2>6
<1>3. CASE Deferred(c) \/ AskRaises(c)
  BY <1>3
  DEF TypeOK, Locked, Ours, Clocks, StopsOnlyUnused, Deferred, AskRaises, Replies, table, drainer
<1> QED BY <1>1, <1>2, <1>3

LEMMA StartStep ==
  ASSUME Inv, NEW c \in Caller,
         Started(c) \/ StartFails(c) \/ StartTimesOut(c)
  PROVE  Inv'
<1> USE NamesAssumption, NoStateAssumption DEF Inv, Critical
<1>1. /\ pc[c] = "start" /\ about[c] \in Model /\ held[c] \in Id
      /\ st[about[c]] \in ModelState
  BY DEF TypeOK, Locked, Ours, Started, StartFails, StartTimesOut
<1>2. \A d \in Caller \ {c} : held[d] = NoId
  BY <1>1, Alone DEF Locked
<1>3. CASE Started(c)
  <2>1. TypeOK' /\ Clocks'
    <3>1. [st EXCEPT ![about[c]].lease = held[c]] \in [Model -> ModelState \cup {NoState}]
      BY <1>1 DEF TypeOK, ModelState
    <3> QED BY <1>1, <1>3, <3>1
            DEF TypeOK, Clocks, Started, Replies, table, drainer, ModelState
  <2>2. Locked' /\ StopsOnlyUnused'
    BY <1>3 DEF TypeOK, Locked, StopsOnlyUnused, Started, Replies, drainer
  <2>3. Ours'
    BY <1>2, <1>3 DEF TypeOK, Ours, Started, Replies, table
  <2> QED BY <2>1, <2>2, <2>3
<1>4. CASE StartFails(c)
  <2>1. TypeOK' /\ Clocks'
    BY <1>1, <1>4, ReleasedType DEF TypeOK, Clocks, StartFails, Replies, drainer
  <2>2. Locked' /\ StopsOnlyUnused'
    BY <1>4 DEF TypeOK, Locked, StopsOnlyUnused, StartFails, Replies, drainer
  <2>3. Ours'
    BY <1>2, <1>4, ReleasedType DEF TypeOK, Ours, StartFails, Replies
  <2> QED BY <2>1, <2>2, <2>3
<1>5. CASE StartTimesOut(c)
  BY <1>1, <1>2, <1>5
  DEF TypeOK, Locked, Ours, Clocks, StopsOnlyUnused, StartTimesOut, Replies, table, drainer
<1> QED BY <1>3, <1>4, <1>5

-----------------------------------------------------------------------------
(* The drain loop between its critical sections, and its look at a unit:   *)
(* only an idle clock that has run out sends it to stop.                   *)
LEMMA DrainIdle ==
  ASSUME Inv, DrainWake \/ DrainSleep \/ DrainTake \/ DrainLook
  PROVE  Inv'
<1> USE NamesAssumption, NoStateAssumption DEF Inv, Critical
<1>1. CASE DrainWake \/ DrainSleep \/ DrainTake
  BY <1>1 DEF TypeOK, Locked, Ours, Clocks, StopsOnlyUnused,
              DrainWake, DrainSleep, DrainTake, table, callers
<1>2. CASE DrainLook
  <2>1. dat \in Model /\ lock = Drain
    BY <1>2 DEF Locked, DrainLook
  <2>2. /\ Way(dat) \in {"purge", "adopt", "stop", "beat", "round"}
        /\ Way(dat) = "beat" => st[dat] \in ModelState /\ st[dat].lease # NoId
    BY <2>1 DEF Way, TypeOK
  <2>3. Way(dat) = "stop" => dat \notin fresh
    BY <2>1 DEF Way, Clocks
  <2> HIDE DEF Way
  <2> QED BY <1>2, <2>1, <2>2, <2>3
          DEF TypeOK, Locked, Ours, Clocks, StopsOnlyUnused,
              DrainLook, DrainGoes, DrainsNext, CallTimesOut, DrainDies, Way, table,
              callers
<1> QED BY <1>1, <1>2

LEMMA ForgetsType ==
  ASSUME TypeOK, NEW m \in Model, Forgets(m)
  PROVE  /\ st' \in [Model -> ModelState \cup {NoState}]
         /\ \A n \in Model : st'[n] # NoState /\ st'[n].idle => st[n] # NoState /\ st[n].idle
<1>1. st[m] # NoState => [st[m] EXCEPT !.lease = NoId] \in ModelState
  BY DEF TypeOK, ModelState
<1> QED BY <1>1 DEF TypeOK, Forgets, ModelState

(* Inside a critical section of the drain loop no lease is in flight.      *)
LEMMA DrainWorks ==
  ASSUME Inv,
         \/ DrainPurge \/ DrainAdopt \/ DrainAdoptRaises \/ DrainStop \/ DrainStopTimesOut
         \/ DrainStopFails \/ DrainFree \/ DrainBeat
  PROVE  Inv'
<1> USE NamesAssumption, NoStateAssumption DEF Inv, Critical
<1>1. dat \in Model /\ lock = Drain /\ \A c \in Caller : held[c] = NoId
  <2>1. dat \in Model /\ lock = Drain
    BY DEF Locked, DrainPurge, DrainAdopt, DrainAdoptRaises, DrainStop, DrainStopTimesOut,
           DrainStopFails, DrainFree, DrainBeat
  <2> QED BY <2>1, Alone
<1>2. CASE DrainPurge \/ DrainFree
  <2>1. Forgets(dat) /\ (\E S : Released(S)) /\ DrainsNext
           /\ UNCHANGED <<unit, callers, restarts, fresh>>
    BY <1>2 DEF DrainPurge, DrainFree
  <2>2. TypeOK' /\ Clocks'
    BY <1>1, <2>1, ReleasedType, ForgetsType DEF TypeOK, Clocks, DrainsNext, callers
  <2>3. Locked' /\ StopsOnlyUnused'
    BY <1>1, <2>1 DEF TypeOK, Locked, StopsOnlyUnused, DrainsNext, callers
  <2>4. Ours'
    BY <1>1, <2>1, ReleasedType DEF TypeOK, Ours, callers
  <2> QED BY <2>2, <2>3, <2>4
<1>3. CASE DrainAdopt
  <2>1. Reattach(dat, FALSE) /\ DrainsNext /\ UNCHANGED <<unit, callers, restarts, fresh>>
    BY <1>3 DEF DrainAdopt
  <2>2. TypeOK' /\ Clocks'
    BY <1>1, <2>1, ReattachType DEF TypeOK, Clocks, DrainsNext, callers
  <2>3. Locked' /\ StopsOnlyUnused'
    BY <1>1, <2>1 DEF TypeOK, Locked, StopsOnlyUnused, DrainsNext, callers
  <2>4. Ours'
    BY <1>1, <2>1, ReattachType DEF TypeOK, Ours, callers
  <2> QED BY <2>2, <2>3, <2>4
<1>4. CASE DrainStop \/ DrainStopTimesOut \/ DrainStopFails
  BY <1>1, <1>4
  DEF TypeOK, Locked, Ours, Clocks, StopsOnlyUnused, DrainStop, DrainStopTimesOut,
      DrainStopFails, DrainGoes, CallTimesOut, DrainDies, callers, table
<1>5. CASE DrainBeat
  <2>1. st[dat].lease \in Id
    BY <1>1, <1>5 DEF TypeOK, ModelState, Locked, DrainBeat
  <2> QED BY <1>1, <1>5, <2>1
          DEF TypeOK, Locked, Ours, Clocks, StopsOnlyUnused,
              DrainBeat, DrainsNext, CallTimesOut, DrainDies, callers
<1>6. CASE DrainAdoptRaises
  <2>1. [idle |-> FALSE, lease |-> NoId] \in ModelState
    BY DEF ModelState
  <2>2. /\ st' = [st EXCEPT ![dat] = [idle |-> FALSE, lease |-> NoId]]
        /\ DrainDies /\ UNCHANGED <<unit, table, callers, restarts, fresh>>
    BY <1>6 DEF DrainAdoptRaises
  <2>3. TypeOK' /\ Clocks'
    BY <1>1, <2>1, <2>2 DEF TypeOK, Clocks, DrainDies, table, callers
  <2>4. Locked' /\ StopsOnlyUnused'
    BY <1>1, <2>1, <2>2 DEF TypeOK, Locked, StopsOnlyUnused, DrainDies, callers
  <2>5. Ours'
    BY <1>1, <2>1, <2>2 DEF TypeOK, Ours, table, callers
  <2> QED BY <2>3, <2>4, <2>5
<1> QED BY <1>1, <1>2, <1>3, <1>4, <1>5, <1>6
-----------------------------------------------------------------------------
(* Units, the clock, the reaper and the manager process.                   *)
LEMMA AgeType ==
  ASSUME NEW s \in ModelState
  PROVE  /\ [s EXCEPT !.idle = TRUE] \in ModelState
         /\ [s EXCEPT !.idle = TRUE].lease = s.lease
BY DEF ModelState

LEMMA OutsideStep ==
  ASSUME Inv, NEW m \in Model, UnitUp(m) \/ UnitExit(m) \/ Age(m)
  PROVE  Inv'
<1> USE NamesAssumption, NoStateAssumption DEF Inv, Critical
<1>1. CASE UnitUp(m) \/ UnitExit(m)
  BY <1>1 DEF TypeOK, Locked, Ours, Clocks, StopsOnlyUnused, UnitUp, UnitExit,
              table, callers, drainer
<1>2. CASE Age(m)
  <2>1. st[m] # NoState => [st[m] EXCEPT !.idle = TRUE] \in ModelState
    BY AgeType DEF TypeOK
  <2>2. /\ st' \in [Model -> ModelState \cup {NoState}]
        /\ \A n \in Model : /\ st'[n] # NoState <=> st[n] # NoState
                            /\ st[n] # NoState => st'[n].lease = st[n].lease
                            /\ n # m => st'[n] = st[n]
    BY <1>2, <2>1, AgeType DEF TypeOK, Age
  <2>3. TypeOK' /\ StopsOnlyUnused'
    BY <1>2, <2>2 DEF TypeOK, StopsOnlyUnused, Age, table, callers, drainer
  <2>4. Clocks'
    BY <1>2, <2>2 DEF TypeOK, Clocks, Age
  <2>5. Locked'
    BY <1>2, <2>2 DEF TypeOK, Locked, Age, callers, drainer
  <2>6. Ours'
    BY <1>2, <2>2 DEF TypeOK, Ours, Age, table, callers
  <2> QED BY <2>3, <2>4, <2>5, <2>6
<1> QED BY <1>1, <1>2

(* A lease in flight is attended, so it is not overdue when the reaper     *)
(* comes.                                                                  *)
LEMMA ReaperStep ==
  ASSUME Inv, NEW l \in Id, Lapse(l) \/ Reap(l)
  PROVE  Inv'
<1> USE NamesAssumption, NoStateAssumption DEF Inv, Critical
<1>1. CASE Lapse(l)
  BY <1>1 DEF TypeOK, Locked, Ours, Clocks, StopsOnlyUnused, Lapse, Surplus, Attended,
              callers, drainer
<1>2. CASE Reap(l)
  <2>1. TypeOK'
    BY <1>2, ReleasedType DEF TypeOK, Reap, callers, drainer
  <2>2. Locked' /\ StopsOnlyUnused' /\ Clocks'
    BY <1>2 DEF TypeOK, Locked, StopsOnlyUnused, Clocks, Reap, callers, drainer
  <2>3. Ours'
    BY <1>2, ReleasedType DEF TypeOK, Ours, Reap, callers
  <2> QED BY <2>1, <2>2, <2>3
<1> QED BY <1>1, <1>2

LEMMA RestartStep == Inv /\ Restart => Inv'
BY NamesAssumption, NoStateAssumption
DEF Inv, TypeOK, Locked, Ours, Clocks, StopsOnlyUnused, Critical, Restart, table

LEMMA InvNext == Inv /\ [Next]_vars => Inv'
<1> SUFFICES ASSUME Inv, [Next]_vars PROVE Inv'
  OBVIOUS
<1>1. CASE UNCHANGED vars
  BY <1>1 DEF vars, table, callers, drainer, Inv, TypeOK, Locked, Ours, Clocks,
              StopsOnlyUnused, Critical
<1>2. ASSUME NEW c \in Caller,
             (\E m \in Model : Call(c, m)) \/ Enter(c) \/ CallerStep(c)
      PROVE  Inv'
  <2>1. CASE \E m \in Model : Call(c, m)
    BY <2>1, EnterStep
  <2>2. CASE Enter(c) \/ Look(c)
    <3>1. about[c] \in Model
      BY <2>2 DEF Inv, Locked, Enter, Look
    <3> QED BY <2>2, <3>1, EnterStep
  <2> QED BY <1>2, <2>1, <2>2, AskStep, StartStep DEF CallerStep
<1>3. CASE DrainStep \/ DrainTake
  BY <1>3, DrainIdle, DrainWorks DEF DrainStep
<1> QED BY <1>1, <1>2, <1>3, OutsideStep, ReaperStep, RestartStep DEF Next

LEMMA Always == Spec => []Inv
BY InvInit, InvNext, PTL DEF Spec
-----------------------------------------------------------------------------
(* Every variable keeps its type.                                          *)
THEOREM TypeCorrect == Spec => []TypeOK
<1>1. Inv => TypeOK
  BY DEF Inv
<1> QED BY <1>1, Always, PTL

(* The lease an ensure() is about to store is granted to its model, and no *)
(* other caller or model names it (models.py:28).                          *)
THEOREM HeldCorrect == Spec => []HeldIsOurs
<1>1. Inv => HeldIsOurs
  BY NamesAssumption DEF Inv, Locked, Ours, HeldIsOurs
<1> QED BY <1>1, Always, PTL

(* _state_lock is held by exactly the thread that is inside it, caller or  *)
(* drain loop: it comes back on every return and every exception, the one  *)
(* that ends the drain loop too (models.py:80, 118), and nobody works on a *)
(* model without it.                                                       *)
THEOREM LockCorrect == Spec => []Locked
<1>1. Inv => Locked
  BY DEF Inv
<1> QED BY <1>1, Always, PTL

(* The drain loop never stops a unit that was ensured less than            *)
(* idle_drain_s ago, across restarts of the manager (models.py:132).       *)
THEOREM DrainCorrect == Spec => []StopsOnlyUnused
<1>1. Inv => StopsOnlyUnused
  BY DEF Inv
<1> QED BY <1>1, Always, PTL
-----------------------------------------------------------------------------
(* systemctl answers within 30 s, and a unit that is told to stop stops.   *)
Prompt == Faults \cap {"timeout", "stop_fails"} = {}

(* The lease a state names is a row of the model, with a fresh heartbeat.  *)
Known(m) == st[m] # NoState /\ st[m].lease # NoId =>
              row[st[m].lease] = m /\ st[m].lease \notin due

(* A unit that runs without a named lease has no row to be adopted: what   *)
(* _reattach finds after a restart, it does not find before one.           *)
Clean(m) == unit[m] # "inactive" /\ (st[m] # NoState => st[m].lease = NoId) =>
              RowsOf(m) = {}

(* What a thread and the drain loop found still holds when they act on it. *)
Halfway ==
  /\ \A c \in Caller : pc[c] = "reattach" => RowsOf(about[c]) = {}
  /\ \A c \in Caller : pc[c] \in {"ask", "start"} => unit[about[c]] = "inactive"
  /\ dpc = "adopt" => RowsOf(dat) = {}
  /\ dpc = "free" => unit[dat] = "inactive"

Reserved == dpc # "dead" /\ Halfway /\ \A m \in Model : Known(m) /\ Clean(m)

LEMMA ReservedInit == Init => Reserved
BY NamesAssumption DEF Init, Reserved, Halfway, Known, Clean, RowsOf

(* Whoever holds the lock is in its critical section alone.                *)
LEMMA OneInside ==
  ASSUME Inv, NEW c \in Caller, pc[c] \in {"look", "reattach", "ask", "start"}
  PROVE  /\ \A d \in Caller \ {c} : pc[d] \in {"out", "want"}
         /\ dpc \notin Critical /\ about[c] \in Model /\ st[about[c]] \in ModelState
BY NamesAssumption DEF Inv, TypeOK, Locked

LEMMA DrainInside ==
  ASSUME Inv, dpc \in Critical
  PROVE  (\A c \in Caller : pc[c] \in {"out", "want"}) /\ dat \in Model
BY NamesAssumption DEF Inv, TypeOK, Locked

(* _reattach with no row to adopt inserts one or none.                     *)
LEMMA ReattachFresh ==
  ASSUME Inv, Reserved, NEW m \in Model, NEW idle \in BOOLEAN, Reattach(m, idle),
         RowsOf(m) = {}, UNCHANGED unit
  PROVE  \A n \in Model : Known(n)' /\ Clean(n)'
<1> USE NamesAssumption, NoStateAssumption DEF Inv, TypeOK, Ours
<1> SUFFICES ASSUME NEW n \in Model PROVE Known(n)' /\ Clean(n)'
  OBVIOUS
<1>0. Known(n) /\ Clean(n)
  BY DEF Reserved
<1>1. ASSUME NEW l \in NewIds, Inserted(l, m),
             st' = [st EXCEPT ![m] = [idle |-> idle, lease |-> l]]
      PROVE  Known(n)' /\ Clean(n)'
  <2>1. /\ l \in Id /\ row[l] = NoModel /\ l \notin due /\ due' = due
        /\ row' = [row EXCEPT ![l] = m]
    BY <1>1 DEF NewIds, Inserted
  <2>2. CASE n = m
    <3>1. st'[n] = [idle |-> idle, lease |-> l] /\ l # NoId
      BY <1>1, <2>1, <2>2
    <3>2. st'[n] \in ModelState
      BY <2>1, <3>1 DEF ModelState
    <3>3. st'[n].lease = l
      BY <3>1
    <3>4. st'[n] # NoState
      BY <3>2
    <3> QED BY <2>1, <2>2, <3>1, <3>3, <3>4 DEF Known, Clean
  <2>3. CASE n # m
    <3>1. st'[n] = st[n] /\ RowsOf(n)' = RowsOf(n)
      BY <1>1, <2>1, <2>3 DEF RowsOf
    <3>2. st[n] # NoState /\ st[n].lease # NoId => row[st[n].lease] = n /\ st[n].lease # l
      BY <1>0, <2>1 DEF Known
    <3> QED BY <1>0, <2>1, <3>1, <3>2 DEF Known, Clean
  <2> QED BY <2>2, <2>3
<1>2. ASSUME st' = [st EXCEPT ![m] = [idle |-> idle, lease |-> NoId]], UNCHANGED table
      PROVE  Known(n)' /\ Clean(n)'
  <2>1. RowsOf(n)' = RowsOf(n) /\ row' = row /\ due' = due
    BY <1>2 DEF table, RowsOf
  <2>2. CASE n = m
    <3>1. st'[n].lease = NoId
      BY <1>2, <2>2
    <3> QED BY <2>1, <2>2, <3>1 DEF Known, Clean
  <2>3. CASE n # m
    BY <1>0, <1>2, <2>1, <2>3 DEF Known, Clean
  <2> QED BY <2>2, <2>3
<1> QED BY <1>1, <1>2 DEF Reattach

(* Rows that no state names can go.                                        *)
LEMMA ReleasedKeeps ==
  ASSUME Inv, Reserved, NEW S, Released(S), NEW n \in Model,
         st'[n] = st[n], unit'[n] = unit[n],
         st[n] # NoState => st[n].lease \notin S
  PROVE  Known(n)' /\ Clean(n)'
<1>1. /\ \A l \in Id : row'[l] = IF l \in S THEN NoModel ELSE row[l]
      /\ \A l \in Id : l \in due' => l \in due
  BY ReleasedType DEF Inv
<1>2. RowsOf(n)' \subseteq RowsOf(n)
  BY <1>1, NamesAssumption DEF RowsOf
<1>3. st[n] # NoState /\ st[n].lease # NoId => st[n].lease \in Id
  BY DEF Inv, TypeOK, ModelState
<1> QED BY <1>1, <1>2, <1>3, ReleasedType DEF Reserved, Known, Clean, Inv

LEMMA CallerReserved ==
  ASSUME Prompt, Inv, Reserved, NEW c \in Caller,
         (\E m \in Model : Call(c, m)) \/ Enter(c) \/ CallerStep(c)
  PROVE  Reserved'
<1> USE NamesAssumption, NoStateAssumption
<1>1. ASSUME NEW m \in Model, Call(c, m) PROVE Reserved'
  BY <1>1 DEF Inv, TypeOK, Call, Reserved, Halfway, Known, Clean, RowsOf, table, drainer
<1>2. CASE Enter(c)
  <2>1. about[c] \in Model /\ lock = Free /\ UNCHANGED <<unit, row, due, about, dpc, dat>>
    BY <1>2 DEF Inv, Locked, Enter, table, drainer
  <2>2. \A n \in Model :
          /\ st'[n] # NoState /\ st'[n].lease # NoId =>
               st[n] # NoState /\ st'[n].lease = st[n].lease
          /\ (st'[n] # NoState => st'[n].lease = NoId) => (st[n] # NoState => st[n].lease = NoId)
    <3> DEFINE s == [idle |-> FALSE,
                     lease |-> IF st[about[c]] = NoState THEN NoId ELSE st[about[c]].lease]
    <3>1. s \in ModelState
      BY <2>1 DEF Inv, TypeOK, ModelState
    <3>2. s # NoState /\ s.lease = IF st[about[c]] = NoState THEN NoId ELSE st[about[c]].lease
      BY <3>1
    <3>3. \A n \in Model : st'[n] = IF n = about[c] THEN s ELSE st[n]
      BY <1>2, <2>1 DEF Inv, TypeOK, Enter
    <3> HIDE DEF s
    <3> QED BY <3>2, <3>3
  <2>3. \A n \in Model : Known(n)' /\ Clean(n)'
    BY <2>1, <2>2 DEF Reserved, Known, Clean, RowsOf
  <2>4. Halfway'
    BY <1>2, <2>1 DEF Inv, TypeOK, Enter, Reserved, Halfway, RowsOf
  <2> QED BY <2>1, <2>3, <2>4 DEF Reserved
<1>3. CASE Look(c)
  <2>1. about[c] \in Model /\ st[about[c]] \in ModelState
    BY <1>3, OneInside DEF Look
  <2>2. unit[about[c]] = "active" /\ st[about[c]].lease = NoId => RowsOf(about[c]) = {}
    BY <2>1 DEF Reserved, Clean
  <2>3. UNCHANGED <<unit, st, row, due, dpc, dat>>
    BY <1>3 DEF Look, table, drainer
  <2>4. Halfway'
    BY <1>3, <2>2, <2>3 DEF Inv, TypeOK, Look, Goes, Replies, Reserved, Halfway, RowsOf
  <2> QED BY <2>3, <2>4 DEF Reserved, Known, Clean, RowsOf
<1>4. CASE ReattachCall(c)
  <2>1. /\ about[c] \in Model /\ RowsOf(about[c]) = {}
        /\ \A d \in Caller \ {c} : pc[d] \in {"out", "want"}
        /\ dpc \notin Critical /\ st[about[c]].idle \in BOOLEAN
    BY <1>4, OneInside DEF ReattachCall, Reserved, Halfway, ModelState
  <2>2. \A n \in Model : Known(n)' /\ Clean(n)'
    BY <1>4, <2>1, ReattachFresh DEF ReattachCall
  <2>3. Halfway' /\ dpc' # "dead"
    BY <1>4, <2>1 DEF Inv, TypeOK, ReattachCall, Replies, Reserved, Halfway, drainer, Critical
  <2> QED BY <2>2, <2>3 DEF Reserved
<1>5. CASE Admitted(c)
  <2>1. PICK l \in NewIds : Inserted(l, about[c])
    BY <1>5 DEF Admitted
  <2>2. /\ about[c] \in Model /\ unit[about[c]] = "inactive"
        /\ \A d \in Caller \ {c} : pc[d] \in {"out", "want"}
        /\ dpc \notin Critical
    BY <1>5, OneInside DEF Admitted, Reserved, Halfway
  <2>3. /\ l \in Id /\ row[l] = NoModel /\ row' = [row EXCEPT ![l] = about[c]]
        /\ UNCHANGED <<unit, st, due, about, dpc, dat>>
    BY <1>5, <2>1 DEF Admitted, Inserted, NewIds, drainer
  <2>4. \A n \in Model : Known(n)' /\ Clean(n)'
    BY <2>2, <2>3 DEF Inv, TypeOK, Reserved, Known, Clean, RowsOf
  <2>5. Halfway'
    BY <1>5, <2>2, <2>3 DEF Inv, TypeOK, Admitted, Reserved, Halfway, Critical
  <2> QED BY <2>3, <2>4, <2>5 DEF Reserved
<1>6. CASE Deferred(c) \/ AskRaises(c)
  BY <1>6
  DEF Inv, TypeOK, Deferred, AskRaises, Replies, Reserved, Halfway, Known, Clean, RowsOf, table,
      drainer
<1>7. CASE Started(c)
  <2>1. /\ about[c] \in Model /\ st[about[c]] \in ModelState /\ held[c] # NoId
        /\ \A d \in Caller \ {c} : pc[d] \in {"out", "want"}
        /\ dpc \notin Critical
    BY <1>7, OneInside DEF Started, Inv, Ours
  <2>2. row[held[c]] = about[c] /\ held[c] \notin due
    BY <2>1 DEF Inv, Ours
  <2>3. /\ st'[about[c]].lease = held[c]
        /\ st'[about[c]] # NoState
        /\ \A n \in Model \ {about[c]} : st'[n] = st[n] /\ unit'[n] = unit[n]
        /\ UNCHANGED <<row, due, dpc, dat>>
    <3>1. [st[about[c]] EXCEPT !.lease = held[c]] \in ModelState
      BY <2>1 DEF Inv, TypeOK, ModelState
    <3>2. st' = [st EXCEPT ![about[c]] = [st[about[c]] EXCEPT !.lease = held[c]]]
      BY <1>7 DEF Started
    <3> QED BY <1>7, <2>1, <3>1, <3>2 DEF Inv, TypeOK, Started, table, drainer, ModelState
  <2>4. \A n \in Model : Known(n)' /\ Clean(n)'
    BY <2>1, <2>2, <2>3 DEF Reserved, Known, Clean, RowsOf
  <2>5. Halfway' /\ dpc' # "dead"
    BY <1>7, <2>1, <2>3 DEF Inv, TypeOK, Started, Replies, Reserved, Halfway, Critical
  <2> QED BY <2>4, <2>5 DEF Reserved
<1>8. CASE StartFails(c)
  <2>1. /\ about[c] \in Model /\ held[c] # NoId /\ unit[about[c]] = "inactive"
        /\ \A d \in Caller \ {c} : pc[d] \in {"out", "want"}
        /\ dpc \notin Critical
    BY <1>8, OneInside DEF StartFails, Inv, Ours, Reserved, Halfway
  <2>2. \A n \in Model : st[n] # NoState => st[n].lease # held[c]
    BY <2>1 DEF Inv, Ours
  <2>3. unit' = unit /\ st' = st /\ Released({held[c]})
    BY <1>8, <2>1 DEF Inv, TypeOK, StartFails
  <2>4. \A n \in Model : Known(n)' /\ Clean(n)'
    BY <2>2, <2>3, ReleasedKeeps
  <2>5. Halfway' /\ dpc' # "dead"
    BY <1>8, <2>1 DEF Inv, TypeOK, StartFails, Replies, Reserved, Halfway, Critical, drainer
  <2> QED BY <2>4, <2>5 DEF Reserved
<1>9. ~StartTimesOut(c)
  BY DEF Prompt, StartTimesOut
<1> QED BY <1>1, <1>2, <1>3, <1>4, <1>5, <1>6, <1>7, <1>8, <1>9 DEF CallerStep

(* A loop that a request for a lease has ended claims nothing any more.    *)
LEMMA DrainReserved ==
  ASSUME Prompt, Inv, Reserved, DrainStep \/ DrainTake
  PROVE  dpc' # "dead" => Reserved'
<1> USE NamesAssumption, NoStateAssumption
<1>1. ~CallTimesOut /\ ~DrainStopFails /\ ~DrainStopTimesOut
  BY DEF Prompt, CallTimesOut, DrainStopFails, DrainStopTimesOut
<1>2. CASE DrainWake \/ DrainSleep \/ DrainTake
  BY <1>2 DEF DrainWake, DrainSleep, DrainTake, table, callers, Reserved, Halfway, Known,
              Clean, RowsOf
<1>3. CASE DrainLook
  <2>1. dat \in Model
    BY <1>3, DrainInside DEF DrainLook, Critical
  <2>2. /\ Way(dat) \in {"purge", "adopt", "stop", "beat", "round"}
        /\ Way(dat) = "adopt" => unit[dat] # "inactive" /\ st[dat] = NoState
    BY DEF Way
  <2>3. Way(dat) = "adopt" => RowsOf(dat) = {}
    BY <2>1, <2>2 DEF Reserved, Clean
  <2>4. /\ UNCHANGED <<unit, st, row, due, pc, about>>
        /\ \/ dpc' = Way(dat) /\ Way(dat) # "round" /\ dat' = dat
           \/ dpc' = "round"
    BY <1>1, <1>3 DEF DrainLook, DrainGoes, DrainsNext, table, callers
  <2> HIDE DEF Way
  <2> QED BY <2>2, <2>3, <2>4 DEF Reserved, Halfway, Known, Clean, RowsOf
<1>4. ASSUME dpc \in Critical, DrainsNext, UNCHANGED callers,
             \A n \in Model : Known(n)' /\ Clean(n)'
      PROVE  Reserved'
  BY <1>4, DrainInside DEF DrainsNext, callers, Reserved, Halfway
<1>5. ASSUME NEW m \in Model, NEW S, Released(S), Forgets(m), UNCHANGED unit, Clean(m)',
             \A n \in Model \ {m} : st[n] # NoState => st[n].lease \notin S
      PROVE  \A n \in Model : Known(n)' /\ Clean(n)'
  <2>1. ASSUME NEW n \in Model, n # m PROVE Known(n)' /\ Clean(n)'
    <3>1. st'[n] = st[n] /\ unit'[n] = unit[n]
      BY <1>5, <2>1 DEF Forgets, Inv, TypeOK
    <3> QED BY <1>5, <2>1, <3>1, ReleasedKeeps
  <2>2. Known(m)'
    <3>1. st'[m] = IF st[m] = NoState THEN NoState ELSE [st[m] EXCEPT !.lease = NoId]
      BY <1>5 DEF Forgets, Inv, TypeOK
    <3>2. st[m] # NoState => [st[m] EXCEPT !.lease = NoId].lease = NoId
      BY <1>5 DEF Inv, TypeOK, ModelState
    <3> QED BY <3>1, <3>2 DEF Known
  <2> QED BY <1>5, <2>1, <2>2
<1>6. CASE DrainPurge
  <2>1. PICK m \in Model : m = dat
    BY <1>6, DrainInside DEF DrainPurge, Critical
  <2>2. Released(RowsOf(m)) /\ Forgets(m) /\ unit' = unit
    BY <1>6, <2>1 DEF DrainPurge
  <2>3. Clean(m)'
    BY <2>2, ReleasedType, NamesAssumption DEF Inv, Clean, RowsOf
  <2>4. \A n \in Model \ {m} : st[n] # NoState => st[n].lease \notin RowsOf(m)
    BY DEF Reserved, Known, RowsOf
  <2>5. \A n \in Model : Known(n)' /\ Clean(n)'
    BY <1>5, <2>2, <2>3, <2>4
  <2> QED BY <1>4, <1>6, <2>5 DEF DrainPurge, Critical
<1>7. CASE DrainFree
  <2>1. PICK m \in Model : m = dat
    BY <1>7, DrainInside DEF DrainFree, Critical
  <2> DEFINE S == {l \in Id : st[m] # NoState /\ st[m].lease = l}
  <2>2. Released(S) /\ Forgets(m) /\ unit' = unit
    BY <1>7, <2>1 DEF DrainFree
  <2>3. Clean(m)'
    BY <1>7, <2>1, <2>2 DEF DrainFree, Reserved, Halfway, Clean
  <2>4. \A n \in Model \ {m} : st[n] # NoState => st[n].lease \notin S
    BY DEF Reserved, Known
  <2>5. \A n \in Model : Known(n)' /\ Clean(n)'
    <3> HIDE DEF S
    <3> QED BY <1>5, <2>2, <2>3, <2>4
  <2> QED BY <1>4, <1>7, <2>5 DEF DrainFree, Critical
<1>8. CASE DrainAdopt
  <2>1. dat \in Model /\ RowsOf(dat) = {}
    BY <1>8, DrainInside DEF DrainAdopt, Critical, Reserved, Halfway
  <2>2. \A n \in Model : Known(n)' /\ Clean(n)'
    BY <1>8, <2>1, ReattachFresh DEF DrainAdopt
  <2> QED BY <1>4, <1>8, <2>2 DEF DrainAdopt, Critical
<1>9. CASE DrainStop
  <2>1. dat \in Model /\ \A c \in Caller : pc[c] \in {"out", "want"}
    BY <1>9, DrainInside DEF DrainStop, Critical
  <2>2. unit' = [unit EXCEPT ![dat] = "inactive"] /\ dpc' = "free" /\ dat' = dat
        /\ UNCHANGED <<st, row, due, pc, about>>
    BY <1>1, <1>9 DEF DrainStop, DrainGoes, callers
  <2>3. \A n \in Model : unit'[n] # "inactive" => unit[n] # "inactive"
    BY <2>1, <2>2 DEF Inv, TypeOK
  <2>4. \A n \in Model : Known(n)' /\ Clean(n)'
    BY <2>2, <2>3 DEF Reserved, Known, Clean, RowsOf
  <2>5. Halfway'
    BY <2>1, <2>2 DEF Inv, TypeOK, Halfway
  <2> QED BY <2>2, <2>4, <2>5 DEF Reserved
<1>10. CASE DrainBeat
  <2>1. DrainsNext /\ due' \subseteq due /\ UNCHANGED <<unit, st, row>> /\ UNCHANGED callers
    BY <1>1, <1>10 DEF DrainBeat
  <2>2. \A n \in Model : Known(n)' /\ Clean(n)'
    BY <2>1 DEF Reserved, Known, Clean, RowsOf
  <2> QED BY <1>4, <1>10, <2>1, <2>2 DEF DrainBeat, Critical
<1>11. CASE DrainAdoptRaises
  BY <1>11 DEF DrainAdoptRaises, DrainDies
<1> QED BY <1>1, <1>2, <1>3, <1>6, <1>7, <1>8, <1>9, <1>10, <1>11 DEF DrainStep

LEMMA OutsideReserved ==
  ASSUME Inv, Reserved, NEW m \in Model, UnitUp(m) \/ UnitExit(m) \/ Age(m)
  PROVE  Reserved'
<1> USE NamesAssumption, NoStateAssumption
<1>1. CASE UnitUp(m) \/ UnitExit(m)
  <2>1. /\ unit[m] # "inactive" /\ \A n \in Model \ {m} : unit'[n] = unit[n]
        /\ UNCHANGED <<st, row, due, pc, about, dpc, dat>>
    BY <1>1 DEF Inv, TypeOK, UnitUp, UnitExit, table, callers, drainer
  <2>2. \A n \in Model : Known(n)' /\ Clean(n)'
    BY <2>1 DEF Reserved, Known, Clean, RowsOf
  <2>3. Halfway'
    <3>1. \A c \in Caller : pc[c] \in {"ask", "start"} => about[c] \in Model
      BY OneInside
    <3>2. dpc = "free" => dat \in Model
      BY DrainInside DEF Critical
    <3> QED BY <2>1, <3>1, <3>2 DEF Reserved, Halfway, RowsOf
  <2> QED BY <2>1, <2>2, <2>3 DEF Reserved
<1>2. CASE Age(m)
  <2>1. UNCHANGED <<unit, row, due, pc, about, dpc, dat>>
    BY <1>2 DEF Age, table, callers, drainer
  <2>2. \A n \in Model : /\ st'[n] = NoState <=> st[n] = NoState
                         /\ st[n] # NoState => st'[n].lease = st[n].lease
    <3>1. st[m] # NoState => /\ [st[m] EXCEPT !.idle = TRUE] # NoState
                             /\ [st[m] EXCEPT !.idle = TRUE].lease = st[m].lease
      BY AgeType DEF Inv, TypeOK
    <3> QED BY <1>2, <3>1 DEF Inv, TypeOK, Age
  <2> QED BY <2>1, <2>2 DEF Reserved, Halfway, Known, Clean, RowsOf
<1> QED BY <1>1, <1>2

LEMMA ReaperReserved ==
  ASSUME Inv, Reserved, NEW l \in Id, Lapse(l) \/ Reap(l)
  PROVE  Reserved'
<1> USE NamesAssumption, NoStateAssumption
<1>1. CASE Lapse(l)
  <2>1. \A n \in Model : st[n] # NoState => st[n].lease # l
    BY <1>1 DEF Lapse, Surplus, Attended, Reserved
  <2> QED BY <1>1, <2>1
          DEF Lapse, callers, drainer, Reserved, Halfway, Known, Clean, RowsOf
<1>2. CASE Reap(l)
  <2>1. \A n \in Model : st[n] # NoState => st[n].lease # l
    BY <1>2 DEF Reap, Reserved, Known
  <2>2. unit' = unit /\ st' = st /\ Released({l})
    BY <1>2 DEF Reap
  <2>3. \A n \in Model : Known(n)' /\ Clean(n)'
    BY <2>1, <2>2, ReleasedKeeps
  <2>4. \A n \in Model : RowsOf(n)' \subseteq RowsOf(n)
    BY <2>2, ReleasedType DEF Inv, RowsOf
  <2>5. Halfway' /\ dpc' # "dead"
    BY <1>2, <2>2, <2>4, OneInside, DrainInside
    DEF Reap, callers, drainer, Reserved, Halfway, Critical
  <2> QED BY <2>3, <2>5 DEF Reserved
<1> QED BY <1>1, <1>2

LEMMA ReservedNext ==
  ASSUME Prompt, Inv, [Next]_vars, restarts = 0 /\ dpc # "dead" => Reserved
  PROVE  restarts' = 0 /\ dpc' # "dead" => Reserved'
<1> SUFFICES ASSUME restarts' = 0, dpc' # "dead" PROVE Reserved'
  OBVIOUS
<1>1. CASE UNCHANGED vars
  BY <1>1 DEF vars, table, callers, drainer, Reserved, Halfway, Known, Clean, RowsOf
<1>2. CASE Restart
  BY <1>2 DEF Restart, Inv, TypeOK
<1>3. ASSUME NEW c \in Caller,
             (\E m \in Model : Call(c, m)) \/ Enter(c) \/ CallerStep(c)
      PROVE  Reserved'
  <2>1. restarts' = restarts /\ dpc' = dpc
    BY <1>3 DEF Call, Enter, CallerStep, Look, ReattachCall, Admitted, Deferred, AskRaises,
                Started, StartFails, StartTimesOut, drainer
  <2> QED BY <1>3, <2>1, CallerReserved
<1>4. CASE DrainStep \/ DrainTake
  <2>1. restarts' = restarts /\ dpc # "dead"
    BY <1>4 DEF DrainStep, DrainTake, DrainWake, DrainSleep, DrainLook, DrainPurge, DrainAdopt,
                DrainAdoptRaises, DrainStop, DrainStopTimesOut, DrainStopFails, DrainFree,
                DrainBeat
  <2> QED BY <1>4, <2>1, DrainReserved
<1>5. ASSUME NEW m \in Model, UnitUp(m) \/ UnitExit(m) \/ Age(m)
      PROVE  Reserved'
  BY <1>5, OutsideReserved DEF UnitUp, UnitExit, Age, drainer
<1>6. ASSUME NEW l \in Id, Lapse(l) \/ Reap(l) PROVE Reserved'
  BY <1>6, ReaperReserved DEF Lapse, Reap, drainer
<1> QED BY <1>1, <1>2, <1>3, <1>4, <1>5, <1>6 DEF Next

(* Until a restart and while the drain loop lives, and where systemctl     *)
(* answers in time and stops what it is told to stop, the lease a model's  *)
(* state names is granted to it: no heartbeat and no release goes to a row *)
(* that is gone (models.py:54-147).                                        *)
THEOREM ReservationCorrect == ASSUME Prompt PROVE Spec => []ReservationKnown
<1> DEFINE R == restarts = 0 /\ dpc # "dead" => Reserved
<1>1. Init => R
  BY ReservedInit
<1>2. Inv /\ R /\ [Next]_vars => R'
  BY ReservedNext
<1>3. R => ReservationKnown
  BY DEF Reserved, Known, ReservationKnown
<1> HIDE DEF R
<1> QED BY <1>1, <1>2, <1>3, Always, PTL DEF Spec
=============================================================================
