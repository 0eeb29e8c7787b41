------------------------------- MODULE Leases -------------------------------
(***************************************************************************)
(* The lease registry of gpu-manager (src/gpu_manager/admission.py): the   *)
(* handler threads of one or more manager processes that share state.db,   *)
(* the reaper thread, and the clients that ask, heartbeat, release, die or *)
(* lose a reply.  A request resolves its candidate cards, reads the cards  *)
(* OUTSIDE the lock, then walks the candidates under the lock and inserts  *)
(* a row; every one of these is a step of its own here.                    *)
(*                                                                         *)
(* Time is the flag "due" of a row: its heartbeat is older than its ttl_s. *)
(* A card's reading is any that its VRAM allows (Readings), taken at Probe *)
(* and used at Consider however old it is by then.                         *)
(***************************************************************************)
EXTENDS Integers, FiniteSets, Floors

CONSTANTS
  Gpu,        \* the configured cards, by UUID (strings)
  Card,       \* Card[g]: role, remote, caps, spill, total and rank in the config
  Margin,     \* MARGIN_MIB
  Mps,        \* the mps section: enabled, card, batchExclusive
  Manager,    \* processes that serve the API from the same state.db
  Job,        \* clients of the API
  Ask,        \* Ask[j]: the body job j posts to /v1/lease
  Child,      \* Child[j]: the pid j rebinds its lease to by heartbeat, or NoPid
  LeaseId,    \* bound: rows that can be granted at once
  Readings,   \* Readings[g]: the NVML / agent readings of card g, as used and free
  Pid,        \* process ids
  Holdable,   \* bound: the cards on which holds are set
  Recycle,    \* whether the OS gives a pid out again after its process died
  NoLease, NoId, NoPid, Free, Offline

VARIABLES
  lease,      \* lease[l]: the granted row of id l, or NoLease
  lock,       \* lock[m]: the job whose handler holds the RLock of m, or Free
  pc,         \* pc[j]: where job j stands
  mgr,        \* mgr[j]: the manager process that serves j's request
  todo,       \* todo[j]: candidate cards not yet considered
  snap,       \* snap[j]: the readings taken for j's request
  plan,       \* plan[j]: the card and eff_exclusive about to be inserted
  mine,       \* mine[j]: the lease id granted to j, or NoId
  hold,       \* cards with a hold marker
  mpsUp,      \* the MPS control daemon is running
  alive,      \* pids with a /proc entry
  clear       \* history: cards seen without a hold since j's request arrived

vars == <<lease, lock, pc, mgr, todo, snap, plan, mine, hold, mpsUp, alive, clear>>

ModelManager == "model-manager"
NoCap == ""
NonLeasable == {"vaapi"}

AskBody == [target : STRING, initiator : STRING, vram : Nat,
            exclusive : BOOLEAN, pid : Pid \cup {NoPid}, cap : STRING]

Row == [gpu : Gpu, initiator : STRING, vram : Nat, exclusive : BOOLEAN,
        pid : Pid \cup {NoPid}, due : BOOLEAN]

(* What a row promises to everybody else.                                  *)
Terms == [gpu : Gpu, initiator : STRING, vram : Nat, exclusive : BOOLEAN]

Reading == [used : Nat, free : Nat]

ASSUME LeasesAssumption ==
  /\ Card \in [Gpu -> [role : STRING, remote : BOOLEAN, caps : SUBSET STRING,
                       spill : Nat, total : Nat, rank : Nat]]
  /\ Margin \in Nat
  /\ Mps \in [enabled : BOOLEAN, card : STRING, batchExclusive : BOOLEAN]
  /\ Ask \in [Job -> AskBody]
  /\ Child \in [Job -> Pid \cup {NoPid}]
  /\ IsFiniteSet(LeaseId)
  /\ \A g \in Gpu : Readings[g] \subseteq Reading
  /\ NoLease \notin Row \cup Terms /\ NoId \notin LeaseId /\ NoPid \notin Pid
  /\ Free \notin Job /\ Offline \notin Reading

(* used + free never exceeds what the card has.                            *)
ASSUME ReadingsAssumption ==
  \A g \in Gpu : \A r \in Readings[g] : r.used + r.free <= Card[g].total
-----------------------------------------------------------------------------
(* The table and what a card has promised.                                 *)

Granted == {l \in LeaseId : lease[l] # NoLease}
Holders(g) == {l \in Granted : lease[l].gpu = g}

(* sum_floors                                                              *)
FloorsOf(S) == SumFloors(S, [l \in S |-> lease[l].vram])

Without(S) == [l \in LeaseId |-> IF l \in S THEN NoLease ELSE lease[l]]

(* Mutants stand before the definition they change.  Here: the guard keyed *)
(* on "exclusive", as it once was; processes that are not looked at; a     *)
(* registered pid that is never checked.                                   *)
OverdueLaneOnly ==
  {l \in Granted : lease[l].due /\ (~lease[l].exclusive \/ lease[l].pid \notin alive)}
OverdueAnyProcess == {l \in Granted : lease[l].due}
OverduePidless == {l \in Granted : lease[l].due /\ lease[l].pid = NoPid}
Overdue == {l \in Granted : lease[l].due /\ lease[l].pid \notin alive}

(* Ids of uuid4 are never used twice: an id is free again only when no     *)
(* client remembers it.                                                    *)
FreshIds == {l \in LeaseId : lease[l] = NoLease /\ \A j \in Job : mine[j] # l}
InFlight == {j \in Job : pc[j] \in {"probe", "choose", "insert"}}
Waiting == InFlight \cup {j \in Job : pc[j] = "reply"}

(* _resolve_gpu                                                            *)
CanRun(a, g) == a.cap # NoCap => a.cap \in Card[g].caps
Named(a) == {g \in Gpu : g = a.target}
(* Mutant: remote cards offered to asks that declare no capability.        *)
InRoleAnywhere(a) == {g \in Gpu : Card[g].role = a.target /\ CanRun(a, g)}

InRole(a) == {g \in Gpu : /\ Card[g].role = a.target
                          /\ CanRun(a, g)
                          /\ a.cap = NoCap => ~Card[g].remote}
Spill(a) == {g \in Gpu : /\ a.target # "interactive"
                         /\ Card[g].role = "interactive" /\ ~Card[g].remote
                         /\ 0 < a.vram /\ a.vram <= Card[g].spill
                         /\ CanRun(a, g)}
Candidates(a) == IF Named(a) # {} THEN Named(a) ELSE InRole(a) \cup Spill(a)

(* Cards of the role come before spillover cards, else in config order.    *)
Before(a, g, h) ==
  IF g \in Spill(a) <=> h \in Spill(a) THEN Card[g].rank < Card[h].rank
                                       ELSE h \in Spill(a)

(* mps.concurrency_active, with _valid_card                                *)
CoExecutes(g) == /\ Mps.enabled /\ Mps.card = g /\ Card[g].role # "interactive"
                 /\ ~Mps.batchExclusive /\ mpsUp

EffExclusive(a, g) == a.exclusive /\ (a.initiator = ModelManager \/ ~CoExecutes(g))

(* Mutant: promised but unallocated VRAM is forgotten.                     *)
UnrealizedNone(r, S) == 0

(* VRAM that card reading r leaves to a newcomer beside the leases of S.    *)
Unrealized(r, S) == IF FloorsOf(S) > r.used THEN FloorsOf(S) - r.used ELSE 0
Grantable(r, S) == r.free - Unrealized(r, S) - Margin

(* Mutants: no look at co-tenants; no look at an exclusive holder; holds   *)
(* that gate the interactive card only.                                    *)
AdmitsBesideTenants(a, g, r, S) ==
  /\ CanRun(a, g) /\ g \in hold => a.initiator = ModelManager
  /\ \A l \in S : ~lease[l].exclusive
  /\ r # Offline /\ (a.vram # 0 => Grantable(r, S) >= a.vram)

AdmitsBesideLane(a, g, r, S) ==
  /\ CanRun(a, g) /\ g \in hold => a.initiator = ModelManager
  /\ EffExclusive(a, g) => \A l \in S : lease[l].initiator = ModelManager
  /\ r # Offline /\ (a.vram # 0 => Grantable(r, S) >= a.vram)

AdmitsHoldDesktopOnly(a, g, r, S) ==
  /\ CanRun(a, g)
  /\ g \in hold /\ Card[g].role = "interactive" => a.initiator = ModelManager
  /\ \A l \in S : ~lease[l].exclusive
  /\ EffExclusive(a, g) => \A l \in S : lease[l].initiator = ModelManager
  /\ r # Offline /\ (a.vram # 0 => Grantable(r, S) >= a.vram)

Admits(a, g, r, S) ==
  /\ CanRun(a, g)
  /\ g \in hold => a.initiator = ModelManager
  /\ \A l \in S : ~lease[l].exclusive
  /\ EffExclusive(a, g) => \A l \in S : lease[l].initiator = ModelManager
  /\ r # Offline
  /\ a.vram # 0 => Grantable(r, S) >= a.vram

(* Mutant: only exclusive leases are reclaimed.                            *)
OrphansLaneOnly(a, g) ==
  {l \in Holders(g) : /\ lease[l].exclusive /\ a.pid # NoPid /\ lease[l].pid = a.pid
                      /\ lease[l].initiator = a.initiator}

(* At most one earlier lease of the same process and initiator on g.       *)
Orphans(a, g) == {l \in Holders(g) : /\ a.pid # NoPid /\ lease[l].pid = a.pid
                                     /\ lease[l].initiator = a.initiator}
Reclaims(a, g) == IF Orphans(a, g) = {} THEN {{}} ELSE {{l} : l \in Orphans(a, g)}
-----------------------------------------------------------------------------
NoSnap == [g \in Gpu |-> Offline]
NoPlan == [gpu |-> NoId, exclusive |-> FALSE]

(* gpu-lease runs one command and exits; a long-lived service asks again.  *)
After(j) == IF Child[j] = NoPid THEN "idle" ELSE "done"

Runs(j) == Ask[j].pid = NoPid \/ Ask[j].pid \in alive

Init ==
  /\ lease = [l \in LeaseId |-> NoLease]
  /\ lock = [m \in Manager |-> Free]
  /\ pc = [j \in Job |-> "idle"]
  /\ mgr \in [Job -> Manager]
  /\ todo = [j \in Job |-> {}]
  /\ snap = [j \in Job |-> NoSnap]
  /\ plan = [j \in Job |-> NoPlan]
  /\ mine = [j \in Job |-> NoId]
  /\ hold = {}
  /\ mpsUp \in BOOLEAN
  /\ alive = Pid
  /\ clear = [j \in Job |-> {}]
-----------------------------------------------------------------------------
(* The request.  request() first reaps, under the lock, then leaves it.     *)

Asks(j, m) ==
  /\ pc[j] = "idle" /\ Runs(j) /\ lock[m] = Free
  /\ lease' = Without(Overdue)

(* A capability that is never leased, or no candidate card.                *)
Refuse(j, m) ==
  /\ Asks(j, m)
  /\ Ask[j].cap \in NonLeasable \/ Candidates(Ask[j]) = {}
  /\ UNCHANGED <<lock, pc, mgr, todo, snap, plan, mine, hold, mpsUp, alive, clear>>

Request(j, m) ==
  /\ Asks(j, m)
  /\ Ask[j].cap \notin NonLeasable /\ Candidates(Ask[j]) # {}
  /\ Cardinality(InFlight) < Cardinality(FreshIds)     \* bound: LeaseId
  /\ pc' = [pc EXCEPT ![j] = "probe"]
  /\ mgr' = [mgr EXCEPT ![j] = m]
  /\ todo' = [todo EXCEPT ![j] = Candidates(Ask[j])]
  /\ clear' = [clear EXCEPT ![j] = Gpu \ hold]
  /\ UNCHANGED <<lock, snap, plan, mine, hold, mpsUp, alive>>

(* nvml_snapshot and amd.probe_snapshot, outside the lock.                 *)
Probe(j) ==
  /\ pc[j] = "probe"
  /\ \E r \in [todo[j] -> UNION {Readings[g] : g \in todo[j]} \cup {Offline}] :
       /\ \A g \in todo[j] : r[g] \in Readings[g] \cup {Offline}
       /\ snap' = [snap EXCEPT ![j] = [g \in Gpu |-> IF g \in todo[j] THEN r[g]
                                                                     ELSE Offline]]
  /\ pc' = [pc EXCEPT ![j] = "choose"]
  /\ UNCHANGED <<lease, lock, mgr, todo, plan, mine, hold, mpsUp, alive, clear>>

(* An NVML call that raises escapes request(): the client gets a 500.      *)
ProbeRaises(j) ==
  /\ pc[j] = "probe"
  /\ pc' = [pc EXCEPT ![j] = "idle"]
  /\ todo' = [todo EXCEPT ![j] = {}]
  /\ clear' = [clear EXCEPT ![j] = {}]
  /\ UNCHANGED <<lease, lock, mgr, snap, plan, mine, hold, mpsUp, alive>>

(* The loop over the candidates: job j looks at card g, with the lock, and *)
(* reclaims an orphan of its own there first, whatever it decides then.    *)
Looks(j, g, back) ==
  /\ pc[j] = "choose" /\ lock[mgr[j]] \in {Free, j}
  /\ g \in todo[j] /\ \A h \in todo[j] \ {g} : Before(Ask[j], g, h)
  /\ back \in Reclaims(Ask[j], g)
  /\ lease' = Without(back)
  /\ UNCHANGED <<mgr, mine, hold, mpsUp, alive>>

(* Mutant: the card chosen is not carried to the insert.                   *)
ChooseForgetsCard(j, g, back) ==
  /\ Looks(j, g, back)
  /\ Admits(Ask[j], g, snap[j][g], Holders(g) \ back)
  /\ pc' = [pc EXCEPT ![j] = "insert"]
  /\ lock' = [lock EXCEPT ![mgr[j]] = j]
  /\ UNCHANGED <<todo, snap, plan, clear>>

Choose(j, g, back) ==
  /\ Looks(j, g, back)
  /\ Admits(Ask[j], g, snap[j][g], Holders(g) \ back)
  /\ pc' = [pc EXCEPT ![j] = "insert"]
  /\ plan' = [plan EXCEPT ![j] = [gpu |-> g, exclusive |-> EffExclusive(Ask[j], g)]]
  /\ lock' = [lock EXCEPT ![mgr[j]] = j]
  /\ UNCHANGED <<todo, snap, clear>>

(* The next candidate, or the deferral (and the end of "with self._lock"). *)
NextCandidate(j, g) ==
  /\ todo' = [todo EXCEPT ![j] = @ \ {g}]
  /\ IF todo[j] = {g}
     THEN /\ pc' = [pc EXCEPT ![j] = "idle"]
          /\ lock' = [lock EXCEPT ![mgr[j]] = Free]
          /\ snap' = [snap EXCEPT ![j] = NoSnap]
          /\ clear' = [clear EXCEPT ![j] = {}]
     ELSE /\ pc' = [pc EXCEPT ![j] = "choose"]
          /\ lock' = [lock EXCEPT ![mgr[j]] = j]
          /\ UNCHANGED <<snap, clear>>

PassOver(j, g, back) ==
  /\ Looks(j, g, back)
  /\ ~Admits(Ask[j], g, snap[j][g], Holders(g) \ back)
  /\ NextCandidate(j, g)
  /\ UNCHANGED plan

NewRow(j) == [gpu |-> plan[j].gpu, initiator |-> Ask[j].initiator,
              vram |-> Ask[j].vram, exclusive |-> plan[j].exclusive,
              pid |-> Ask[j].pid, due |-> FALSE]

(* Mutant: a database without the unique index.                            *)
UniqueNever(row) == TRUE

(* ux_lease_excl: a second exclusive row on a card is refused by SQLite.   *)
Unique(row) == row.exclusive => \A l \in Holders(row.gpu) : ~lease[l].exclusive

Insert(j, l) ==
  /\ pc[j] = "insert" /\ l \in FreshIds
  /\ Unique(NewRow(j))
  /\ lease' = [lease EXCEPT ![l] = NewRow(j)]
  /\ mine' = [mine EXCEPT ![j] = l]
  /\ pc' = [pc EXCEPT ![j] = "reply"]
  /\ lock' = [lock EXCEPT ![mgr[j]] = Free]
  /\ todo' = [todo EXCEPT ![j] = {}]
  /\ snap' = [snap EXCEPT ![j] = NoSnap]
  /\ plan' = [plan EXCEPT ![j] = NoPlan]
  /\ UNCHANGED <<mgr, hold, mpsUp, alive, clear>>

RacedAway(j) ==
  /\ pc[j] = "insert"
  /\ ~Unique(NewRow(j))
  /\ NextCandidate(j, plan[j].gpu)
  /\ plan' = [plan EXCEPT ![j] = NoPlan]
  /\ UNCHANGED <<lease, mgr, mine, hold, mpsUp, alive>>

Reply(j) ==
  /\ pc[j] = "reply" /\ Runs(j)
  /\ pc' = [pc EXCEPT ![j] = "holding"]
  /\ clear' = [clear EXCEPT ![j] = {}]
  /\ UNCHANGED <<lease, lock, mgr, todo, snap, plan, mine, hold, mpsUp, alive>>

Forget(S) ==
  /\ pc' = [j \in Job |-> IF j \in S THEN After(j) ELSE pc[j]]
  /\ mine' = [j \in Job |-> IF j \in S THEN NoId ELSE mine[j]]

(* The client never learns its lease id: the row stays behind.             *)
LoseReply(j) ==
  /\ pc[j] = "reply"
  /\ Forget({j})
  /\ clear' = [clear EXCEPT ![j] = {}]
  /\ UNCHANGED <<lease, lock, mgr, todo, snap, plan, hold, mpsUp, alive>>
-----------------------------------------------------------------------------
(* heartbeat, release, reap: each takes the lock of the manager it reaches. *)

Heartbeat(j, m) ==
  /\ pc[j] = "holding" /\ lock[m] = Free
  /\ mine[j] \in Granted
  /\ lease' = [lease EXCEPT ![mine[j]].due = FALSE,
                            ![mine[j]].pid = IF Child[j] = NoPid THEN @ ELSE Child[j]]
  /\ UNCHANGED <<lock, pc, mgr, todo, snap, plan, mine, hold, mpsUp, alive, clear>>

Release(j, m) ==
  /\ pc[j] = "holding" /\ lock[m] = Free
  /\ lease' = Without({mine[j]})
  /\ Forget({j})
  /\ UNCHANGED <<lock, mgr, todo, snap, plan, hold, mpsUp, alive, clear>>

(* The release call failed, or the client never made it.                   *)
Abandon(j) ==
  /\ pc[j] = "holding"
  /\ Forget({j})
  /\ UNCHANGED <<lease, lock, mgr, todo, snap, plan, hold, mpsUp, alive, clear>>

Reap(m) ==
  /\ lock[m] = Free
  /\ Overdue # {}
  /\ lease' = Without(Overdue)
  /\ UNCHANGED <<lock, pc, mgr, todo, snap, plan, mine, hold, mpsUp, alive, clear>>
-----------------------------------------------------------------------------
(* The environment: time, processes, the manager itself, holds and MPS.    *)

Lapse(l) ==
  /\ l \in Granted /\ ~lease[l].due
  /\ lease' = [lease EXCEPT ![l].due = TRUE]
  /\ UNCHANGED <<lock, pc, mgr, todo, snap, plan, mine, hold, mpsUp, alive, clear>>

(* Process p ends; a client that was that process forgets its lease.       *)
Exit(p) ==
  /\ p \in alive
  /\ alive' = alive \ {p}
  /\ Forget({j \in Job : Ask[j].pid = p /\ pc[j] = "holding"})
  /\ UNCHANGED <<lease, lock, mgr, todo, snap, plan, hold, mpsUp, clear>>

Spawn(p) ==
  /\ Recycle /\ p \notin alive
  /\ alive' = alive \cup {p}
  /\ UNCHANGED <<lease, lock, pc, mgr, todo, snap, plan, mine, hold, mpsUp, clear>>

(* The manager dies and comes back: its handlers are gone, the rows are    *)
(* not, and systemd has emptied RuntimeDirectory, where the holds live.    *)
Restart(m) ==
  LET lost == {j \in Waiting : mgr[j] = m}
  IN  /\ lock' = [lock EXCEPT ![m] = Free]
      /\ Forget(lost)
      /\ todo' = [j \in Job |-> IF j \in lost THEN {} ELSE todo[j]]
      /\ snap' = [j \in Job |-> IF j \in lost THEN NoSnap ELSE snap[j]]
      /\ plan' = [j \in Job |-> IF j \in lost THEN NoPlan ELSE plan[j]]
      /\ hold' = {}
      /\ clear' = [j \in Job |-> IF j \in Waiting \ lost THEN Gpu ELSE {}]
      /\ UNCHANGED <<lease, mgr, mpsUp, alive>>

SetHold(g) ==
  /\ g \in Holdable
  /\ hold' = hold \cup {g}
  /\ UNCHANGED <<lease, lock, pc, mgr, todo, snap, plan, mine, mpsUp, alive, clear>>

ClearHold(g) ==
  /\ hold' = hold \ {g}
  /\ clear' = [j \in Job |-> IF j \in Waiting THEN clear[j] \cup {g} ELSE {}]
  /\ UNCHANGED <<lease, lock, pc, mgr, todo, snap, plan, mine, mpsUp, alive>>

MpsToggle ==
  /\ Mps.enabled
  /\ mpsUp' = ~mpsUp
  /\ UNCHANGED <<lease, lock, pc, mgr, todo, snap, plan, mine, hold, alive, clear>>
-----------------------------------------------------------------------------
ClientStep(j) ==
  \/ \E m \in Manager : Refuse(j, m) \/ Request(j, m)
  \/ \E m \in Manager : Heartbeat(j, m) \/ Release(j, m)
  \/ Reply(j) \/ LoseReply(j) \/ Abandon(j)

HandlerStep(j) ==
  \/ Probe(j) \/ ProbeRaises(j)
  \/ \E g \in Gpu : \E back \in Reclaims(Ask[j], g) :
       Choose(j, g, back) \/ PassOver(j, g, back)
  \/ \E l \in LeaseId : Insert(j, l)
  \/ RacedAway(j)

EnvironmentStep ==
  \/ \E l \in LeaseId : Lapse(l)
  \/ \E p \in Pid : Exit(p) \/ Spawn(p)
  \/ \E m \in Manager : Restart(m)
  \/ \E g \in Gpu : SetHold(g) \/ ClearHold(g)
  \/ MpsToggle

Next == \/ \E j \in Job : ClientStep(j) \/ HandlerStep(j)
        \/ \E m \in Manager : Reap(m)
        \/ EnvironmentStep

Spec == Init /\ [][Next]_vars

(* Handler threads run, the reaper thread wakes every minute, time passes. *)
Fairness == /\ \A j \in Job : WF_vars(HandlerStep(j))
            /\ \A m \in Manager : WF_vars(Reap(m))
            /\ \A l \in LeaseId : WF_vars(Lapse(l))

FairSpec == Spec /\ Fairness

-----------------------------------------------------------------------------
(* Every variable has its type.                                            *)
TypeOK ==
  /\ lease \in [LeaseId -> Row \cup {NoLease}]
  /\ lock \in [Manager -> Job \cup {Free}]
  /\ pc \in [Job -> {"idle", "probe", "choose", "insert", "reply", "holding", "done"}]
  /\ mgr \in [Job -> Manager]
  /\ todo \in [Job -> SUBSET Gpu]
  /\ snap \in [Job -> [Gpu -> Reading \cup {Offline}]]
  /\ \A j \in Job, g \in Gpu : snap[j][g] \in Readings[g] \cup {Offline}
  /\ plan \in [Job -> [gpu : Gpu \cup {NoId}, exclusive : BOOLEAN]]
  /\ mine \in [Job -> LeaseId \cup {NoId}]
  /\ hold \subseteq Gpu /\ mpsUp \in BOOLEAN /\ alive \subseteq Pid
  /\ clear \in [Job -> SUBSET Gpu]

(* A card never has two exclusive leases, however many manager processes   *)
(* race for it: what ux_lease_excl is there for.                           *)
ExclusiveLane ==
  \A l, k \in Granted :
    l # k /\ lease[l].gpu = lease[k].gpu => ~(lease[l].exclusive /\ lease[k].exclusive)

(* Whatever shares a card with an exclusive lease is a model the manager   *)
(* keeps resident: the job that asked for the card to itself is alone on   *)
(* it, through reclaims, expiries, downgrades under MPS and restarts.      *)
ExclusiveAlone ==
  \A l, k \in Granted :
    l # k /\ lease[l].gpu = lease[k].gpu /\ lease[l].exclusive =>
      ~lease[k].exclusive /\ lease[k].initiator = ModelManager

(* The floors promised on a card fit in it with the margin to spare,       *)
(* although each was admitted against a reading taken before the lock.     *)
FloorsFit ==
  \A g \in Gpu : FloorsOf(Holders(g)) = 0
               \/ FloorsOf(Holders(g)) + Margin <= Card[g].total

(* Check and insert are one step to everybody else: what the candidate     *)
(* loop decided about a card still holds when the row is written, because  *)
(* the lock has been held in between.  For one manager process.            *)
StillAdmits(j) ==
  LET H == Holders(plan[j].gpu)
  IN  /\ \A l \in H : ~lease[l].exclusive
      /\ plan[j].exclusive => \A l \in H : lease[l].initiator = ModelManager
      /\ Ask[j].vram # 0 =>
           FloorsOf(H) + Ask[j].vram + Margin <= Card[plan[j].gpu].total

DecisionStands ==
  \A j \in Job : pc[j] = "insert" => lock[mgr[j]] = j /\ StillAdmits(j)

(* A hold that was up when the request came, and stayed up, keeps the job  *)
(* off the card; the model manager alone is exempt.                        *)
HoldHonoured ==
  \A j \in Job : pc[j] = "reply" /\ mine[j] \in Granted /\ Ask[j].initiator # ModelManager
                  => lease[mine[j]].gpu \in clear[j]

(* A job whose registered processes run keeps its lease, and with it its   *)
(* floor in the admission arithmetic, however late its heartbeats are.     *)
Working(j) == Ask[j].pid \in alive /\ Child[j] \in alive \cup {NoPid}

WorkingJobKeepsLease ==
  \A j \in Job : pc[j] = "holding" /\ Working(j) => mine[j] \in Granted

(* Nobody but the job itself ends the lease of a job whose processes run:  *)
(* no reaper, no other manager process and no newcomer that asks with a    *)
(* pid the system has given out again.                                     *)
LeaseStays ==
  [][\A j \in Job : Working(j) /\ mine[j] \in Granted /\ mine'[j] = mine[j] =>
       mine[j] \in Granted']_vars

(* A process that asks again on a card never has two rows there, so no     *)
(* floor is counted twice after a lost reply or a lost release.            *)
OneLeasePerHolder ==
  \A l, k \in Granted :
    /\ lease[l].gpu = lease[k].gpu /\ lease[l].pid = lease[k].pid
    /\ lease[l].initiator = lease[k].initiator
    => l = k \/ lease[l].pid = NoPid

(* A granted job can run on its card: the card offers the capability it    *)
(* declared, a role ask that declares none never lands on a remote card,   *)
(* and the interactive card takes a stranger only within its bound.        *)
RoutedRight ==
  \A j \in Job : mine[j] \in Granted =>
    LET a == Ask[j]  g == lease[mine[j]].gpu
    IN  /\ a.cap # NoCap => a.cap \in Card[g].caps \ NonLeasable
        /\ a.cap = NoCap /\ a.target \notin Gpu => ~Card[g].remote
        /\ Card[g].role = "interactive" /\ a.target \notin {g, "interactive"} =>
             a.vram \in 1 .. Card[g].spill

(* A lease nobody remembers, whose process is gone, is ended by the        *)
(* reaper: the reply or the release that was lost costs the card nothing.  *)
Orphan(l) == /\ l \in Granted /\ lease[l].pid \notin alive
             /\ \A j \in Job : mine[j] # l
OrphansExpire == \A l \in LeaseId : Orphan(l) ~> l \notin Granted

(* The table of leases is the abstract registry's.                         *)
Abstract(row) == [gpu |-> row.gpu, initiator |-> row.initiator,
                  vram |-> row.vram, exclusive |-> row.exclusive]
Table == [l \in LeaseId |-> IF lease[l] = NoLease THEN NoLease ELSE Abstract(lease[l])]
Offered == {[gpu |-> g, initiator |-> Ask[j].initiator, vram |-> Ask[j].vram,
             exclusive |-> e] : g \in Gpu, j \in Job, e \in BOOLEAN}
Promise == INSTANCE Registry WITH table <- Table, Offers <- Offered,
                                  Total <- [g \in Gpu |-> Card[g].total]
Kept == Promise!Spec
=============================================================================
