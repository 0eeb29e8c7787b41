----------------------------- MODULE GateProofs -----------------------------
(***************************************************************************)
(* Proofs about Gate, for any number of models, connections and workers: a *)
(* manager with gates is a manager, so what ModelsProofs proves holds      *)
(* behind gates (reservations are an instance of it), and a model is not   *)
(* stopped while a gate connects to it.                                    *)
(***************************************************************************)
EXTENDS Gate, ModelsProofs

(* A handler runs ensure() for its own model, once it has asked for it,    *)
(* and the model it has ensured stays in use until it is connected or asks *)
(* again.                                                                  *)
Wake ==
  /\ conn \in [Conn -> {"quiet", "wake", "call", "ready", "dial", "pipe"}]
  /\ others \in 0..Loops
  /\ \A k \in Conn : pc[k] # "out" => conn[k] = "call" /\ about[k] = Behind[k]
  /\ \A k \in Conn : conn[k] \in {"ready", "dial"} \/ lock = k => Behind[k] \in fresh

GateInv == Inv /\ Wake
-----------------------------------------------------------------------------
(* A step of the gates is a step of the manager, or leaves it as it is.    *)
LEMMA StepMaps == [GateNext]_gvars => [Next]_vars
<1> SUFFICES ASSUME GateNext PROVE [Next]_vars
  BY DEF gvars
<1> USE GateAssumption
<1>1. ASSUME NEW k \in Conn,
             Speaks(k) \/ Leaves(k) \/ Ready(k) \/ Dial(k) \/ GivesUp(k) \/ Asks(k)
      PROVE  UNCHANGED vars
  BY <1>1 DEF Speaks, Leaves, Ready, Dial, GivesUp, Asks
<1>2. ASSUME NEW k \in Conn, Wakes(k)
      PROVE  Next
  BY <1>2 DEF Wakes, Next
<1>3. ASSUME NEW k \in Conn, Told(k)
      PROVE  Next
  <2>1. CallerStep(k)
    BY <1>3 DEF Told, CallerStep
  <2> QED BY <2>1 DEF Next
<1>4. ASSUME NEW c \in Caller, Enters(c) \/ (c \notin Conn /\ ApiStep(c))
      PROVE  Next
  BY <1>4 DEF Enters, ApiStep, Next
<1>5. CASE DrainTurn \/ DrainOn \/ DrainGets
  BY <1>5 DEF DrainTurn, DrainOn, DrainGets, DrainStep, Next
<1>6. CASE World
  BY <1>6 DEF World, Next
<1>7. CASE GateRestart
  BY <1>7 DEF GateRestart, Next
<1>8. CASE OtherTakes \/ OtherDone
  BY <1>8 DEF OtherTakes, OtherDone
<1> QED BY <1>1, <1>2, <1>3, <1>4, <1>5, <1>6, <1>7, <1>8 DEF GateNext
-----------------------------------------------------------------------------
LEMMA GateInvInit == GateInit => GateInv
BY InvInit, GateAssumption, NamesAssumption DEF GateInit, GateInv, Init, Wake

(* The steps of a handler outside ensure().                                *)
LEMMA HandlerWakes ==
  ASSUME GateInv, NEW k \in Conn,
         \/ Speaks(k) \/ Leaves(k) \/ Ready(k) \/ Dial(k) \/ GivesUp(k) \/ Asks(k)
         \/ Wakes(k)
  PROVE  Wake'
<1> USE GateAssumption DEF GateInv, Wake, Goto, Stays
<1>1. CASE Speaks(k) \/ Leaves(k) \/ Ready(k) \/ Dial(k) \/ GivesUp(k) \/ Asks(k)
  BY <1>1 DEF Speaks, Leaves, Ready, Dial, GivesUp, Asks, vars, callers
<1>2. CASE Wakes(k)
  BY <1>2 DEF Wakes, Call, Inv, TypeOK
<1> QED BY <1>1, <1>2

(* ensure(): what the handler is told, it is told of a model in use.       *)
LEMMA ToldWakes ==
  ASSUME GateInv, NEW k \in Conn, Told(k)
  PROVE  Wake'
<1> USE GateAssumption, NamesAssumption
<1>1. lock = k /\ pc[k] # "out" /\ Behind[k] \in fresh /\ fresh' = fresh
  BY DEF GateInv, Inv, Locked, Wake, Told, Look, ReattachCall, Admitted, Deferred, AskRaises,
         Started, StartFails, StartTimesOut
<1>2. /\ about \in [Caller -> Model \cup {NoModel}]
      /\ pc \in [Caller -> {"out", "want", "look", "reattach", "ask", "start"}]
      /\ about[k] = Behind[k] /\ conn[k] = "call"
  BY <1>1 DEF GateInv, Inv, TypeOK, Wake
<1>3. ASSUME Replies(k), NEW w \in {"quiet", "wake", "ready"}, Goto(k, w)
      PROVE  Wake'
  BY <1>1, <1>2, <1>3 DEF GateInv, Wake, Goto, Replies
<1>4. ASSUME Stays, about' = about, lock' = lock,
             NEW w \in {"reattach", "ask", "start"}, pc' = [pc EXCEPT ![k] = w]
      PROVE  Wake'
  BY <1>1, <1>2, <1>4 DEF GateInv, Wake, Stays
<1>5. CASE Look(k) /\ pc'[k] # "out" /\ Stays
  BY <1>2, <1>4, <1>5 DEF Look, Replies, Goes
<1>6. CASE Look(k) /\ unit[Behind[k]] = "active" /\ st[Behind[k]].lease # NoId /\ Goto(k, "ready")
  BY <1>2, <1>3, <1>6 DEF Look
<1>7. CASE Look(k) /\ unit[Behind[k]] = "activating" /\ Goto(k, "wake")
  BY <1>2, <1>3, <1>7 DEF Look
<1>8. CASE Look(k) /\ pc'[k] = "out" /\ Goto(k, "quiet")
  BY <1>2, <1>3, <1>8 DEF Look, Goes
<1>9. CASE ReattachCall(k) /\ Goto(k, "ready")
  BY <1>3, <1>9 DEF ReattachCall
<1>10. CASE Admitted(k) /\ Stays
  BY <1>4, <1>10 DEF Admitted
<1>11. CASE (Deferred(k) \/ Started(k)) /\ Goto(k, "wake")
  BY <1>3, <1>11 DEF Deferred, Started
<1>12. CASE (AskRaises(k) \/ StartFails(k) \/ StartTimesOut(k)) /\ Goto(k, "quiet")
  BY <1>3, <1>12 DEF AskRaises, StartFails, StartTimesOut
<1> QED BY <1>5, <1>6, <1>7, <1>8, <1>9, <1>10, <1>11, <1>12 DEF Told

(* The steps of everybody else.                                            *)
LEMMA OthersWake ==
  ASSUME GateInv,
         \/ \E c \in Caller : Enters(c)
         \/ \E c \in Caller \ Conn : ApiStep(c)
         \/ DrainTurn \/ DrainOn \/ DrainGets \/ OtherTakes \/ OtherDone
         \/ World \/ GateRestart
  PROVE  Wake'
<1> USE GateAssumption, NamesAssumption DEF Stays
<1>1. ASSUME NEW c \in Caller, Enters(c)
      PROVE  Wake'
  BY <1>1 DEF GateInv, Wake, Enters, Enter, Inv, TypeOK
<1>2. ASSUME NEW c \in Caller \ Conn, ApiStep(c)
      PROVE  Wake'
  <2>1. UNCHANGED <<conn, others, fresh>> /\ lock' \in {lock, Free}
    BY <1>2 DEF ApiStep, CallerStep, Look, ReattachCall, Admitted, Deferred, AskRaises,
                Started, StartFails, StartTimesOut, Replies, Goes
  <2>2. \A k \in Conn : pc'[k] = pc[k] /\ about'[k] = about[k]
    BY <1>2 DEF GateInv, Inv, TypeOK, ApiStep, CallerStep, Look, ReattachCall, Admitted,
                Deferred, AskRaises, Started, StartFails, StartTimesOut, Replies, Goes
  <2> QED BY <2>1, <2>2 DEF GateInv, Wake
<1>3. CASE DrainTurn \/ DrainOn \/ DrainGets
  <2>1. UNCHANGED <<conn, others, fresh, callers>> /\ lock' \in {lock, Free, Drain}
    BY <1>3 DEF DrainTurn, DrainOn, DrainGets, DrainWake, DrainStep, DrainSleep, DrainTake,
                DrainLook, DrainPurge, DrainAdopt, DrainAdoptRaises, DrainStop,
                DrainStopTimesOut, DrainStopFails, DrainFree, DrainBeat, DrainGoes,
                DrainsNext, CallTimesOut, DrainDies
  <2> QED BY <2>1 DEF GateInv, Wake, callers
<1>4. CASE World
  <2>1. ASSUME NEW m \in Model, ~Attending(m), Age(m)
        PROVE  Wake'
    BY <2>1, <1>4 DEF GateInv, Wake, World, Age, Attending, Connecting, callers
  <2>2. CASE \E c \in Caller \ Conn, m \in Model : Call(c, m)
    BY <2>2, <1>4 DEF GateInv, Wake, World, Call, Inv, TypeOK
  <2>3. CASE \E m \in Model : UnitUp(m) \/ UnitExit(m)
    BY <2>3, <1>4 DEF GateInv, Wake, World, UnitUp, UnitExit, callers
  <2>4. CASE \E l \in Id : Lapse(l) \/ Reap(l)
    BY <2>4, <1>4 DEF GateInv, Wake, World, Lapse, Reap, callers
  <2> QED BY <1>4, <2>1, <2>2, <2>3, <2>4 DEF World
<1>5. CASE GateRestart
  BY <1>5 DEF GateInv, Wake, GateRestart, Restart
<1>6. CASE OtherTakes \/ OtherDone
  BY <1>6 DEF GateInv, Wake, OtherTakes, OtherDone, vars, callers
<1> QED BY <1>1, <1>2, <1>3, <1>4, <1>5, <1>6

LEMMA GateInvNext == GateInv /\ [GateNext]_gvars => GateInv'
<1> SUFFICES ASSUME GateInv, [GateNext]_gvars PROVE GateInv'
  OBVIOUS
<1>1. Inv'
  BY StepMaps, InvNext DEF GateInv
<1>2. CASE UNCHANGED gvars
  BY <1>1, <1>2 DEF GateInv, Wake, gvars, vars, callers
<1>3. CASE GateNext
  BY <1>1, <1>3, HandlerWakes, ToldWakes, OthersWake DEF GateInv, GateNext
<1> QED BY <1>2, <1>3

LEMMA GateAlways == GateSpec => []GateInv
BY GateInvInit, GateInvNext, PTL DEF GateSpec
-----------------------------------------------------------------------------
(* The manager with its gates is a manager without (gates.py:77: a gate    *)
(* only ever calls ensure()): what is proved of Models holds behind gates. *)
THEOREM GateImplements == GateSpec => Spec
<1>1. GateInit => Init
  BY DEF GateInit
<1> QED BY <1>1, StepMaps, PTL DEF GateSpec, Spec

(* Every variable keeps its type.                                          *)
THEOREM GateTypeCorrect == GateSpec => []GateTypeOK
<1>1. GateInv => GateTypeOK
  BY DEF GateInv, Inv, Wake, GateTypeOK
<1> QED BY <1>1, GateAlways, PTL

(* The drain loop does not stop a model between the "resident" a gate was  *)
(* told and its connection to the server (gates.py:77-82).                 *)
THEOREM WakingCorrect == GateSpec => []WakingSpared
<1>1. GateInv => WakingSpared
  BY DEF GateInv, Inv, Wake, StopsOnlyUnused, WakingSpared, Connecting
<1> QED BY <1>1, GateAlways, PTL

(* What a model's state names stays its row behind gates as well, however  *)
(* often handlers ask again (models.py:54-147, gates.py:64-90).            *)
THEOREM GateReservationCorrect == ASSUME Prompt PROVE GateSpec => []ReservationKnown
BY GateImplements, ReservationCorrect, PTL
=============================================================================
