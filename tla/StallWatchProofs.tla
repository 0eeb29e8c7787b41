-------------------------- MODULE StallWatchProofs --------------------------
(***************************************************************************)
(* Proofs about StallWatch, for every set of leases, pids and units, every *)
(* order of ticks, questions and strikes and any number of restarts: the   *)
(* types, that a lease is acted on only after a quiet window, and that the *)
(* process that is signalled is the one whose owner was asked; and, while  *)
(* pids are not reused, the one the lease was granted to.                  *)
(***************************************************************************)
EXTENDS StallWatch, TLAPS

Examined == tpc \in {"ping", "check", "strike"}

(* A clock runs only for a row that was granted once, so a new lease never *)
(* inherits one; once it is over nothing has been seen for the window, and *)
(* the row under examination is such a row.                                *)
Clocks ==
  /\ \A l \in Lease : row[l] = "new" => clock[l] = "none" /\ l \notin todo
  /\ \A l \in Lease : clock[l] = "over" => l \notin recent
  /\ Examined => cur \in Lease /\ row[cur] # "new" /\ clock[cur] = "over"

Inv == TypeOK /\ Clocks /\ StrikesTheAsked
-----------------------------------------------------------------------------
LEMMA InvInit == Init => Inv
BY StallAssumption DEF Init, Inv, TypeOK, Clocks, Examined, StrikesTheAsked

LEMMA StartTimeType == ASSUME TypeOK, NEW p \in Pid PROVE StartTime(p) \in Nat
BY StallAssumption DEF TypeOK, StartTime

(* Rows come and go and their clocks run.                                  *)
LEMMA RowStep ==
  ASSUME Inv, NEW l \in Lease, Grant(l) \/ Release(l) \/ Window(l)
  PROVE  Inv'
<1> USE StallAssumption DEF Inv
<1>1. CASE Grant(l)
  <2>1. TypeOK'
    BY <1>1 DEF TypeOK, Grant, walk
  <2>2. Clocks' /\ StrikesTheAsked'
    BY <1>1 DEF TypeOK, Clocks, StrikesTheAsked, Examined, Grant, walk
  <2> QED BY <2>1, <2>2
<1>2. CASE Release(l)
  <2>1. TypeOK'
    BY <1>2 DEF TypeOK, Release, Ended, walk
  <2>2. Clocks' /\ StrikesTheAsked'
    BY <1>2 DEF TypeOK, Clocks, StrikesTheAsked, Examined, Release, Ended, walk
  <2> QED BY <2>1, <2>2
<1>3. CASE Window(l)
  BY <1>3 DEF TypeOK, Clocks, StrikesTheAsked, Examined, Window, walk, jobs
<1> QED BY <1>1, <1>2, <1>3

(* Processes work, rest, exit and are born.                                *)
LEMMA ProcessStep ==
  ASSUME Inv, NEW p \in Pid, Work(p) \/ Rest(p) \/ Exit(p) \/ Spawn(p)
  PROVE  Inv'
<1> USE StallAssumption DEF Inv
<1>1. CASE Work(p) \/ Rest(p)
  BY <1>1 DEF TypeOK, Clocks, StrikesTheAsked, Examined, Work, Rest, walk
<1>2. CASE Exit(p)
  BY <1>2 DEF TypeOK, Clocks, StrikesTheAsked, Examined, Exit, walk
<1>3. CASE Spawn(p)
  <2>1. TypeOK'
    <3>1. \A q \in Pid : born'[q] \in 1 .. MaxBorn[q]
      BY <1>3 DEF TypeOK, Spawn
    <3> QED BY <1>3, <3>1 DEF TypeOK, Spawn, walk
  <2>2. Clocks'
    BY <1>3 DEF Clocks, Examined, Spawn, walk
  <2>3. StrikesTheAsked'
    BY <1>3 DEF TypeOK, StrikesTheAsked, Spawn, walk
  <2> QED BY <2>1, <2>2, <2>3
<1> QED BY <1>1, <1>2, <1>3

(* The walk over the rows.                                                 *)
LEMMA WalkStep ==
  ASSUME Inv,
         \/ TickStart \/ TickEnd
         \/ \E l \in Lease : VisitWorking(l) \/ VisitIdle(l) \/ VisitSuspect(l)
  PROVE  Inv'
<1> USE StallAssumption DEF Inv
<1>1. CASE TickStart \/ TickEnd
  BY <1>1 DEF TypeOK, Clocks, StrikesTheAsked, Examined, TickStart, TickEnd, Granted, jobs
<1>2. ASSUME NEW l \in Lease, VisitWorking(l) \/ VisitIdle(l) PROVE Inv'
  BY <1>2 DEF TypeOK, Clocks, StrikesTheAsked, Examined, VisitWorking, VisitIdle, Done, jobs
<1>3. ASSUME NEW l \in Lease, VisitSuspect(l) PROVE Inv'
  <2>1. PidOf[l] \in Pid /\ st0' \in Nat
    BY <1>3, StartTimeType DEF VisitSuspect
  <2> QED BY <1>3, <2>1 DEF TypeOK, Clocks, StrikesTheAsked, Examined, VisitSuspect, jobs
<1> QED BY <1>1, <1>2, <1>3

(* The question and the eviction.                                          *)
LEMMA EvictStep ==
  ASSUME Inv,
         \/ Vouched \/ Unvouched \/ CheckGone \/ CheckSame
         \/ StrikeUnit \/ StrikeTimesOut \/ StrikePid
  PROVE  Inv'
<1> USE StallAssumption DEF Inv
<1>1. CASE Vouched \/ Unvouched
  BY <1>1 DEF TypeOK, Clocks, StrikesTheAsked, Examined, Vouched, Unvouched, Done, jobs
<1>2. CASE CheckSame
  BY <1>2 DEF TypeOK, Clocks, StrikesTheAsked, Examined, CheckSame, StartTime, jobs
<1>3. CASE StrikeTimesOut
  BY <1>3 DEF TypeOK, Clocks, StrikesTheAsked, Examined, StrikeTimesOut, Targets
<1>4. CASE CheckGone \/ StrikePid \/ StrikeUnit
  <2>1. cur \in Lease /\ row[cur] # "new" /\ Evicted /\ UNCHANGED <<born, enforce>>
    BY <1>4 DEF Clocks, Examined, CheckGone, StrikePid, StrikeUnit
  <2>2. up' \subseteq Pid /\ busy' \subseteq up' /\ stopping' \subseteq up'
    BY <1>4 DEF TypeOK, CheckGone, StrikePid, StrikeUnit
  <2>3. TypeOK'
    BY <2>1, <2>2 DEF TypeOK, Evicted, Ended, Done
  <2>4. Clocks' /\ StrikesTheAsked'
    BY <2>1 DEF TypeOK, Clocks, StrikesTheAsked, Examined, Evicted, Ended, Done
  <2> QED BY <2>3, <2>4
<1> QED BY <1>1, <1>2, <1>3, <1>4

LEMMA InvNext == Inv /\ [Next]_vars => Inv'
<1> SUFFICES ASSUME Inv, [Next]_vars PROVE Inv'
  OBVIOUS
<1>1. CASE UNCHANGED vars
  BY <1>1 DEF vars, jobs, walk, Inv, TypeOK, Clocks, StrikesTheAsked, Examined
<1>2. CASE Restart
  BY <1>2, StallAssumption
  DEF Inv, TypeOK, Clocks, StrikesTheAsked, Examined, Restart, jobs
<1>3. CASE TickStep
  BY <1>3, WalkStep, EvictStep DEF TickStep
<1> QED BY <1>1, <1>2, <1>3, RowStep, ProcessStep DEF Next

LEMMA Always == Spec => []Inv
BY InvInit, InvNext, PTL DEF Spec

(* Every variable keeps its type.                                          *)
THEOREM TypeCorrect == Spec => []TypeOK
<1>1. Inv => TypeOK
  BY DEF Inv
<1> QED BY <1>1, Always, PTL

(* A lease is acted on only after a whole window in which no sample found  *)
(* its process working and no owner vouched for it (stall.py:3-7).         *)
THEOREM QuietCorrect == Spec => []QuietForWindow
<1>1. Inv => QuietForWindow
  BY DEF Inv, Clocks, Examined, QuietForWindow
<1> QED BY <1>1, Always, PTL

(* Whoever is signalled through a pid is the process whose owner was asked *)
(* (stall.py:92-94).                                                       *)
THEOREM AskedCorrect == Spec => []StrikesTheAsked
<1>1. Inv => StrikesTheAsked
  BY DEF Inv
<1> QED BY <1>1, Always, PTL
-----------------------------------------------------------------------------
(* Each pid is given out once, as on a host that stays up for less than    *)
(* it takes the numbers to come round.                                     *)
NoReuse == \A p \in Pid : MaxBorn[p] = 1

(* A granted row knows the process it was granted to.                      *)
Owned == \A l \in Lease : row[l] = "granted" => owner[l] = 1

LEMMA OwnedNext == ASSUME NoReuse, Inv, Owned, [Next]_vars PROVE Owned'
<1> USE StallAssumption DEF Owned, Inv, TypeOK
<1>1. ASSUME NEW l \in Lease, Grant(l) PROVE Owned'
  <2>1. PidOf[l] \in Pid /\ born[PidOf[l]] = 1
    BY DEF NoReuse
  <2> QED BY <1>1, <2>1 DEF Grant
<1>2. ASSUME NEW l \in Lease, Ended(l) PROVE Owned'
  BY <1>2 DEF Ended
<1>3. CASE UNCHANGED <<row, owner>>
  BY <1>3
<1>4. Evicted => Owned'
  BY <1>2, <1>3 DEF Evicted, Ended, Clocks, Examined
<1>5. ASSUME NEW l \in Lease, Grant(l) \/ Release(l) \/ Window(l) PROVE Owned'
  BY <1>1, <1>2, <1>3, <1>5 DEF Release, Window, jobs
<1>6. ASSUME NEW p \in Pid, Work(p) \/ Rest(p) \/ Exit(p) \/ Spawn(p) PROVE Owned'
  BY <1>3, <1>6 DEF Work, Rest, Exit, Spawn
<1>7. CASE CheckGone \/ StrikeUnit \/ StrikePid
  BY <1>4, <1>7 DEF CheckGone, StrikeUnit, StrikePid
<1>8. CASE TickStart \/ TickEnd \/ Vouched \/ Unvouched \/ CheckSame \/ StrikeTimesOut
           \/ Restart \/ UNCHANGED vars
  BY <1>3, <1>8 DEF TickStart, TickEnd, Vouched, Unvouched, CheckSame, StrikeTimesOut,
                    Restart, jobs, vars
<1>9. ASSUME NEW l \in Lease, VisitWorking(l) \/ VisitIdle(l) \/ VisitSuspect(l)
      PROVE  Owned'
  BY <1>3, <1>9 DEF VisitWorking, VisitIdle, VisitSuspect, jobs
<1> QED BY <1>5, <1>6, <1>7, <1>8, <1>9 DEF Next, TickStep

(* A pid that changes hands is the only way to signal a process other than *)
(* the one the lease was granted to (stall.py:66-67, 94): without reuse    *)
(* the late reading of the start time does no harm.                        *)
THEOREM OwnerCorrect == ASSUME NoReuse PROVE Spec => []StrikesTheOwner
<1>1. Init => Owned
  BY DEF Init, Owned
<1>2. Inv /\ Owned => StrikesTheOwner
  BY StallAssumption DEF Inv, TypeOK, Owned, Granted, NoReuse, StrikesTheOwner
<1>3. Inv /\ Owned /\ [Next]_vars => Owned'
  BY OwnedNext
<1> QED BY <1>1, <1>2, <1>3, Always, PTL DEF Spec
=============================================================================
