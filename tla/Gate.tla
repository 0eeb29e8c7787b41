-------------------------------- MODULE Gate --------------------------------
(***************************************************************************)
(* Wake-on-use gates (src/gpu_manager/gates.py) in front of the models of  *)
(* Models.  A gate handler is one more caller of ensure(), one that asks   *)
(* again until its model is resident and its server answers, then pipes.   *)
(* ensure() runs in a worker of the event loop's executor, and so do the   *)
(* rounds of the drain loop and of the manager's other loops: the handlers *)
(* can occupy all the workers, and wait in them for a lock the drain loop  *)
(* holds.                                                                  *)
(*                                                                         *)
(* The 240 s of a wake may be over whenever the handler looks at the       *)
(* clock, which it does only between two calls: once it has asked for a    *)
(* worker it waits for one, and for ensure(), however long that takes.     *)
(***************************************************************************)
EXTENDS Models

CONSTANTS
  Conn,     \* connections to gates, a connection's handler being a caller
  Behind,   \* Behind[k]: the model behind the gate that k came to
  Workers,  \* threads of the executor that asyncio.to_thread uses
  Loops     \* loops beside the drain loop that use it: reaper, presence,
            \* rogue and stall watch, AMD poll

ASSUME GateAssumption ==
  Conn \subseteq Caller /\ Behind \in [Conn -> Model]
  /\ Workers \in Nat \ {0} /\ Loops \in Nat

VARIABLES
  conn,   \* conn[k]: where the handler of k stands
  others  \* workers that the other loops occupy

gvars == <<vars, conn, others>>

(* "quiet": no connection, or one that has sent nothing, which no call     *)
(* follows; "wake": about to look at the clock, or asleep before; "call":  *)
(* past the clock, ensure() waits for a worker or runs; "ready": told      *)
(* "resident", asking the server; "dial": connecting to it; "pipe": bytes  *)
(* go both ways.                                                           *)
GateTypeOK ==
  /\ TypeOK
  /\ conn \in [Conn -> {"quiet", "wake", "call", "ready", "dial", "pipe"}]
  /\ others \in 0..Loops

GateInit == Init /\ conn = [k \in Conn |-> "quiet"] /\ others = 0

Goto(k, where) == conn' = [conn EXCEPT ![k] = where] /\ UNCHANGED others

Stays == UNCHANGED <<conn, others>>

-----------------------------------------------------------------------------
(* The connection before and after the wake.  A handler in the wake loop   *)
(* does not see its client leave; the end of either side ends the pipe.    *)
Speaks(k) == conn[k] = "quiet" /\ Goto(k, "wake") /\ UNCHANGED vars

Leaves(k) == conn[k] = "pipe" /\ Goto(k, "quiet") /\ UNCHANGED vars

-----------------------------------------------------------------------------
(* The wake loop.                                                          *)

Busy == Cardinality({k \in Conn : pc[k] # "out"}) + others
        + (IF dpc \in {"asleep", "dead"} THEN 0 ELSE 1)

GivesUp(k) == conn[k] = "wake" /\ Goto(k, "quiet") /\ UNCHANGED vars

Asks(k) == conn[k] = "wake" /\ Goto(k, "call") /\ UNCHANGED vars

Wakes(k) ==
  /\ conn[k] = "call" /\ pc[k] = "out"
  /\ Busy < Workers
  /\ Call(k, Behind[k])
  /\ Stays

(* How ensure() ends for the handler: resident, still loading or deferred, *)
(* or an error or exception, which drops the connection.                   *)
Told(k) ==
  LET m == Behind[k] IN
  \/ /\ Look(k)
     /\ \/ pc'[k] # "out" /\ Stays
        \/ unit[m] = "active" /\ st[m].lease # NoId /\ Goto(k, "ready")
        \/ unit[m] = "activating" /\ Goto(k, "wake")
        \/ pc'[k] = "out" /\ "timeout" \in Faults /\ Goto(k, "quiet")
  \/ ReattachCall(k) /\ Goto(k, "ready")
  \/ Admitted(k) /\ Stays
  \/ (Deferred(k) \/ Started(k)) /\ Goto(k, "wake")
  \/ (AskRaises(k) \/ StartFails(k) \/ StartTimesOut(k)) /\ Goto(k, "quiet")

(* The server of an active unit may still be loading.                      *)
Ready(k) ==
  /\ conn[k] = "ready"
  /\ \/ unit[Behind[k]] = "active" /\ Goto(k, "dial")
     \/ Goto(k, "wake")
  /\ UNCHANGED vars

Dial(k) ==
  /\ conn[k] = "dial"
  /\ \/ unit[Behind[k]] = "active" /\ Goto(k, "pipe")
     \/ Goto(k, "wake")
  /\ UNCHANGED vars

-----------------------------------------------------------------------------
(* The rest of the manager.  A call of ensure() and the connection that    *)
(* follows take less than idle_drain_s (1800 s): a model does not become   *)
(* idle under a handler that has the lock or is connecting.                *)
Connecting(m) == \E k \in Conn : Behind[k] = m /\ conn[k] \in {"ready", "dial"}
Attending(m) == Connecting(m) \/ \E k \in Conn : Behind[k] = m /\ lock = k

GateRestart == Restart /\ conn' = [k \in Conn |-> "quiet"] /\ others' = 0

DrainTurn == DrainWake /\ Busy < Workers /\ Stays

DrainOn == DrainStep /\ dpc # "asleep" /\ Stays

DrainGets == DrainTake /\ Stays

(* A round of another loop: what it does is its own module's.              *)
OtherTakes ==
  /\ others < Loops /\ Busy < Workers
  /\ others' = others + 1
  /\ UNCHANGED <<vars, conn>>

OtherDone == others > 0 /\ others' = others - 1 /\ UNCHANGED <<vars, conn>>

Enters(c) == Enter(c) /\ Stays

ApiStep(c) == CallerStep(c) /\ Stays

World ==
  /\ \/ \E c \in Caller \ Conn, m \in Model : Call(c, m)
     \/ \E m \in Model : UnitUp(m) \/ UnitExit(m) \/ (~Attending(m) /\ Age(m))
     \/ \E l \in Id : Lapse(l) \/ Reap(l)
  /\ Stays

GateNext ==
  \/ \E k \in Conn : \/ Speaks(k) \/ Leaves(k) \/ GivesUp(k) \/ Asks(k)
                     \/ Wakes(k) \/ Told(k) \/ Ready(k) \/ Dial(k)
  \/ \E c \in Caller : Enters(c)
  \/ \E c \in Caller \ Conn : ApiStep(c)
  \/ DrainTurn \/ DrainOn \/ DrainGets \/ OtherTakes \/ OtherDone
  \/ World \/ GateRestart

GateSpec == GateInit /\ [][GateNext]_gvars

(* The next step of a handler that has asked: it is in one place, so at    *)
(* most one of these can be taken at a time.                               *)
HandlerGoes(k) == Wakes(k) \/ Enters(k) \/ Told(k) \/ Ready(k) \/ Dial(k)

(* The same of the drain loop, which begins a round again and again.       *)
DrainLoopGoes == DrainTurn \/ DrainGets \/ DrainOn

(* Threads that run go on; a lock or a worker that is free again and again *)
(* is got (the executor's queue is first come, first served); a handler    *)
(* that looks at the clock again and again finds the 240 s over; a round   *)
(* of another loop ends (an AMD poll only if its bytes stop trickling in,  *)
(* amd.py:136).  Nobody has to ask, or to leave.                           *)
GateFairSpec ==
  /\ GateSpec
  /\ \A c \in Caller \ Conn : WF_gvars(ApiStep(c))
  /\ \A k \in Conn : SF_gvars(HandlerGoes(k)) /\ SF_gvars(GivesUp(k))
  /\ SF_gvars(DrainLoopGoes) /\ WF_gvars(OtherDone)

-----------------------------------------------------------------------------
(* The drain loop does not stop a model between the "resident" a gate was  *)
(* told and the connection it makes to the server (gates.py:77-82).        *)
WakingSpared == dpc = "stop" => ~Connecting(dat)

(* A client whose bytes the gate has read is connected to the server or    *)
(* dropped, whatever the unit, the lock, the loops and the other clients   *)
(* do, also when it is past its look at the clock and has to wait for a    *)
(* worker and for _state_lock: nobody hangs behind a gate for good         *)
(* (gates.py:73-74, 91-96).                                                *)
WakeEnds ==
  \A k \in Conn : conn[k] \in {"wake", "call"} ~> conn[k] \in {"pipe", "quiet"}
=============================================================================
