------------------------------ MODULE GpuLease ------------------------------
(***************************************************************************)
(* The client that wraps a command in a lease (src/bin/gpu-lease): ask     *)
(* until granted, start the child, rebind the lease to it, heartbeat from  *)
(* a thread, wait, release.  Signals arrive between any two steps, and the *)
(* manager may be down at any call.  All of them want the exclusive lease  *)
(* of one card, the default of the command line.                           *)
(*                                                                         *)
(* The manager side is one row per shim: granted with the pid of the shim  *)
(* or of its child, due once no heartbeat came for ttl_s, expired by the   *)
(* reaper unless the process of that pid lives (Leases has the whole).     *)
(***************************************************************************)

CONSTANTS
  Shim,       \* runs of gpu-lease
  Signals     \* which signals arrive, of {"TERM", "INT", "KILL"}

ASSUME SignalsAssumption == Signals \subseteq {"TERM", "INT", "KILL"}

VARIABLES
  up,         \* the manager answers
  pc,         \* pc[s]: the next step of main(), or "gone"
  row,        \* row[s]: "none", or the process the granted row is bound to
  due,        \* due[s]: the row's heartbeat is older than its ttl_s
  child,      \* child[s]: "none", "up" or "gone"
  beating     \* beating[s]: the heartbeat thread runs

vars == <<up, pc, row, due, child, beating>>

TypeOK ==
  /\ up \in BOOLEAN
  /\ pc \in [Shim -> {"ask", "spawn", "rebind", "handler", "wait", "release", "gone"}]
  /\ row \in [Shim -> {"none", "shim", "child"}]
  /\ due \in [Shim -> BOOLEAN]
  /\ child \in [Shim -> {"none", "up", "gone"}]
  /\ beating \in [Shim -> BOOLEAN]
  /\ \A s \in Shim : /\ due[s] => row[s] # "none"
                     /\ beating[s] => pc[s] \notin {"ask", "gone"}

Init ==
  /\ up = TRUE
  /\ pc = [s \in Shim |-> "ask"]
  /\ row = [s \in Shim |-> "none"]
  /\ due = [s \in Shim |-> FALSE]
  /\ child = [s \in Shim |-> "none"]
  /\ beating = [s \in Shim |-> FALSE]

-----------------------------------------------------------------------------
Goes(s, here, next) == pc[s] = here /\ pc' = [pc EXCEPT ![s] = next]

Binds(s, process) ==
  /\ row' = [row EXCEPT ![s] = process]
  /\ due' = [due EXCEPT ![s] = FALSE]

LaneFree == \A s \in Shim : row[s] = "none"

(* A deferral changes nothing: main() sleeps and asks again, or gives up   *)
(* after --timeout, or when the manager does not answer.                   *)
GiveUp(s) ==
  /\ Goes(s, "ask", "gone")
  /\ UNCHANGED <<up, row, due, child, beating>>

Granted(s) ==
  /\ up /\ LaneFree
  /\ Goes(s, "ask", "spawn")
  /\ Binds(s, "shim")
  /\ beating' = [beating EXCEPT ![s] = TRUE]
  /\ UNCHANGED <<up, child>>

(* The row is there, the reply is not: _call raises and main() with it.    *)
ReplyLost(s) ==
  /\ up /\ LaneFree
  /\ Goes(s, "ask", "gone")
  /\ Binds(s, "shim")
  /\ UNCHANGED <<up, child, beating>>

SpawnChild(s) ==
  /\ Goes(s, "spawn", "rebind")
  /\ child' = [child EXCEPT ![s] = "up"]
  /\ UNCHANGED <<up, row, due, beating>>

(* Popen raises, inside the try: the finally clause runs.                  *)
SpawnFails(s) ==
  /\ Goes(s, "spawn", "release")
  /\ UNCHANGED <<up, row, due, child, beating>>

\* mutant: a heartbeat puts back a row that has ended
HeartbeatRevives(s, process) ==
  IF up THEN Binds(s, process) ELSE UNCHANGED <<row, due>>

(* A heartbeat reaches the row if the manager is up and the row granted.   *)
Heartbeat(s, process) ==
  IF up /\ row[s] # "none" THEN Binds(s, process) ELSE UNCHANGED <<row, due>>

Rebind(s) ==
  /\ Goes(s, "rebind", "handler")
  /\ Heartbeat(s, "child")
  /\ UNCHANGED <<up, child, beating>>

Handler(s) ==
  /\ Goes(s, "handler", "wait")
  /\ UNCHANGED <<up, row, due, child, beating>>

(* Every 120 s; the pid is sent once Popen has returned.                   *)
Beat(s) ==
  /\ beating[s]
  /\ Heartbeat(s, IF child[s] = "none" THEN row[s] ELSE "child")
  /\ UNCHANGED <<up, pc, child, beating>>

Waited(s) ==
  /\ child[s] = "gone"
  /\ Goes(s, "wait", "release")
  /\ UNCHANGED <<up, row, due, child, beating>>

(* The finally clause; the call raises if the manager is down.             *)
Release(s) ==
  /\ Goes(s, "release", "gone")
  /\ IF up THEN Binds(s, "none") ELSE UNCHANGED <<row, due>>
  /\ beating' = [beating EXCEPT ![s] = FALSE]
  /\ UNCHANGED <<up, child>>

-----------------------------------------------------------------------------
Dies(s) ==
  /\ pc' = [pc EXCEPT ![s] = "gone"]
  /\ beating' = [beating EXCEPT ![s] = FALSE]
  /\ UNCHANGED <<up, row, due, child>>

(* Until the handler is set SIGTERM ends the shim on the spot; from then   *)
(* on it is passed to the child.                                           *)
Term(s) ==
  "TERM" \in Signals /\ pc[s] \in {"ask", "spawn", "rebind", "handler"} /\ Dies(s)

Kill(s) == "KILL" \in Signals /\ pc[s] # "gone" /\ Dies(s)

(* KeyboardInterrupt: before the try it ends main(), inside it the finally *)
(* clause releases the lease; the child may take its time.                 *)
Interrupt(s) ==
  /\ "INT" \in Signals /\ pc[s] \notin {"release", "gone"}
  /\ \/ pc[s] \in {"ask", "spawn"} /\ Dies(s)
     \/ /\ pc[s] # "ask"
        /\ pc' = [pc EXCEPT ![s] = "release"]
        /\ UNCHANGED <<up, row, due, child, beating>>

ChildExit(s) ==
  /\ child[s] = "up" /\ child' = [child EXCEPT ![s] = "gone"]
  /\ UNCHANGED <<up, pc, row, due, beating>>

Down == up /\ up' = FALSE /\ UNCHANGED <<pc, row, due, child, beating>>
Up == ~up /\ up' = TRUE /\ UNCHANGED <<pc, row, due, child, beating>>

Lapse(s) ==
  /\ row[s] # "none" /\ ~due[s]
  /\ due' = [due EXCEPT ![s] = TRUE]
  /\ UNCHANGED <<up, pc, row, child, beating>>

\* mutant: a row that was bound to a child counts as alive for good
LivesOnceBound(s) == (row[s] = "shim" /\ pc[s] # "gone") \/ row[s] = "child"

\* mutant: only the shim counts, not the command it started
LivesWithShim(s) == pc[s] # "gone"

(* The process of the row's pid has a /proc entry.                         *)
Lives(s) == (row[s] = "shim" /\ pc[s] # "gone") \/ (row[s] = "child" /\ child[s] = "up")

\* mutant: the reaper does not look whether the process lives
ReapAny(s) ==
  /\ up /\ due[s]
  /\ Binds(s, "none")
  /\ UNCHANGED <<up, pc, child, beating>>

Reap(s) ==
  /\ up /\ due[s] /\ ~Lives(s)
  /\ Binds(s, "none")
  /\ UNCHANGED <<up, pc, child, beating>>

Next ==
  \/ \E s \in Shim :
       \/ GiveUp(s) \/ Granted(s) \/ ReplyLost(s) \/ SpawnChild(s) \/ SpawnFails(s)
       \/ Rebind(s) \/ Handler(s) \/ Beat(s) \/ Waited(s) \/ Release(s)
       \/ Term(s) \/ Kill(s) \/ Interrupt(s)
       \/ ChildExit(s) \/ Lapse(s) \/ Reap(s)
  \/ Down \/ Up

Spec == Init /\ [][Next]_vars

(* Time passes, the reaper runs, and systemd brings the manager back.      *)
FairSpec ==
  Spec /\ SF_vars(Up) /\ \A s \in Shim : WF_vars(Lapse(s)) /\ SF_vars(Reap(s))

-----------------------------------------------------------------------------
(* Two commands wrapped in exclusive leases of one card do not run at the  *)
(* same time, whatever calls fail and however late the heartbeats are, as  *)
(* long as their shims stand (bin/gpu-lease:8-10).                         *)
OneWorks ==
  \A s \in Shim : \A t \in Shim \ {s} :
    child[s] = "up" /\ child[t] = "up" => pc[s] = "gone" \/ pc[t] = "gone"

(* Once bound to the child, the lease outlives the shim: only a release    *)
(* takes it from a running child (admission.py:100-105).                   *)
BoundWorkKept ==
  [][\A s \in Shim : row[s] = "child" /\ child[s] = "up" /\ row'[s] = "none"
       => pc[s] = "release"]_vars

(* Whatever became of the shim, the lease of a finished command ends.      *)
LeaseEnds == \A s \in Shim : (pc[s] = "gone" /\ child[s] # "up") ~> row[s] = "none"

(* The rows of this module obey the abstract registry, as those of Leases  *)
(* do: they enter the lane one at a time, and no lost reply, no failed     *)
(* rebinding and no late heartbeat puts a second one beside the first      *)
(* (bin/gpu-lease:86-142).                                                 *)
LaneLease == [gpu |-> "card", initiator |-> "gpu-lease", vram |-> 0, exclusive |-> TRUE]
NoLease == [LaneLease EXCEPT !.gpu = "none"]
Table == [s \in Shim |-> IF row[s] = "none" THEN NoLease ELSE LaneLease]
Lane == INSTANCE Registry WITH table <- Table, LeaseId <- Shim, Offers <- {LaneLease},
                               Gpu <- {"card"}, Total <- [g \in {"card"} |-> 0], Margin <- 0
LaneKept == Lane!Spec
=============================================================================
