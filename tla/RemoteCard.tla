----------------------------- MODULE RemoteCard -----------------------------
(***************************************************************************)
(* A card in another guest: the reporter there (src/agent/fpr_amd_agent.py)*)
(* and the manager's poller (src/gpu_manager/amd.py), which must show the  *)
(* card while it can be read and fail open when it cannot, and derives the *)
(* activity of the card's clients from two samples in a row.               *)
(*                                                                         *)
(* A sample is what state() returns: what the card said, then the clients  *)
(* found in /proc.  The reporter keeps one for 2 s; its two fields are     *)
(* stored apart, so a handler that looks in between serves the one before. *)
(* Of time the poller needs only which of two samples is later.            *)
(***************************************************************************)
EXTENDS Naturals

CONSTANTS
  Client,       \* DRM clients, by drm-client-id, which the kernel never reuses
  MaxRestarts,  \* bound: restarts of the manager
  None

(* What the render node is: the configured card, that card with files in   *)
(* sysfs that cannot be read, or another (renumbered, or gone altogether). *)
CardState == {"ours", "blind", "other"}
Sample == [card : CardState, clients : SUBSET Client]
Snap == [online : BOOLEAN, card : CardState \ {"other"}, util : SUBSET Client, stale : BOOLEAN]

ASSUME RemoteAssumption == MaxRestarts \in Nat /\ None \notin Sample \cup Snap

VARIABLES
  card, clients,   \* the card, and who has the render node open
  agent,           \* the reporter answers: FALSE while it is down or says ok: false
  memo,            \* the reporter's cached sample, or None
  unread,          \* that sample is later than the poller's last one
  pc,              \* where the poll stands; "hung": bytes trickle in
  answer,          \* what the poll brought, or None
  later,           \* that sample is later than the poller's last one
  snap,            \* _snap of the card, or None
  base,            \* _prev_engine of the card: the clients in it
  restarts,
  before           \* history: clients in the good poll just before this one

vars == <<card, clients, agent, memo, unread, pc, answer, later, snap, base, restarts, before>>
guest == <<card, clients, agent>>
reporter == <<memo, unread>>
poller == <<pc, answer, later>>
shown == <<snap, base>>

TypeOK ==
  /\ card \in CardState /\ clients \subseteq Client
  /\ agent \in BOOLEAN
  /\ memo \in Sample \cup {None} /\ unread \in BOOLEAN
  /\ pc \in {"idle", "ask", "scan", "reply", "hung"}
  /\ answer \in Sample \cup {None} /\ later \in BOOLEAN
  /\ snap \in Snap \cup {None, [online |-> FALSE]}
  /\ base \subseteq Client /\ before \subseteq Client
  /\ restarts \in 0 .. MaxRestarts

Init ==
  /\ card \in CardState /\ clients = {} /\ agent = FALSE
  /\ memo = None /\ unread = FALSE
  /\ pc = "idle" /\ answer = None /\ later = FALSE
  /\ snap = None /\ base = {} /\ restarts = 0 /\ before = {}

-----------------------------------------------------------------------------
(* A poll, up to its answer.                                               *)

Ask ==
  /\ pc = "idle"
  /\ pc' = "ask"
  /\ UNCHANGED <<guest, reporter, answer, later, shown, restarts, before>>

Answers(sample, new) ==
  pc' = "reply" /\ answer' = sample /\ later' = new

(* No connection, a timeout, or a reporter that says ok: false.            *)
NoAnswer ==
  /\ pc \in {"ask", "scan", "hung"}
  /\ Answers(None, FALSE)
  /\ UNCHANGED <<guest, reporter, shown, restarts, before>>

(* The timeout of requests is between two bytes, not for the answer.       *)
Hang ==
  /\ pc \in {"ask", "scan"}
  /\ pc' = "hung"
  /\ UNCHANGED <<guest, reporter, answer, later, shown, restarts, before>>

(* state(): the memo, or read_card, then scan_clients.                     *)
ServeMemo ==
  /\ pc = "ask" /\ agent /\ memo # None
  /\ Answers(memo, unread)
  /\ unread' = FALSE
  /\ UNCHANGED <<guest, memo, shown, restarts, before>>

ReadCard ==
  /\ pc = "ask" /\ agent
  /\ pc' = "scan"
  /\ answer' = [card |-> card, clients |-> {}]
  /\ UNCHANGED <<guest, reporter, later, shown, restarts, before>>

ScanClients ==
  /\ pc = "scan" /\ agent
  /\ LET sample == [answer EXCEPT !.clients = clients]
     IN  Answers(sample, TRUE) /\ memo' = sample
  /\ unread' = FALSE
  /\ UNCHANGED <<guest, shown, restarts, before>>

(* Somebody else asks the reporter, or a handler whose poll has timed out  *)
(* comes to its end: a sample is dated when its handler began.             *)
Scanner ==
  /\ agent
  /\ memo' = [card |-> card, clients |-> clients] /\ unread' \in BOOLEAN
  /\ UNCHANGED <<guest, poller, shown, restarts, before>>

-----------------------------------------------------------------------------
(* _poll_one takes the answer.                                             *)

PollEnds == pc' = "idle" /\ answer' = None /\ later' = FALSE

Unusable == IF answer = None THEN TRUE ELSE answer.card = "other"

(* {**(prev or {}), "online": False, "checked_at": now}                    *)
LastOffline ==
  IF snap \in Snap THEN [snap EXCEPT !.online = FALSE, !.stale = FALSE] ELSE [online |-> FALSE]

\* mutant: the engine baseline survives an outage
OfflineKeepsBase ==
  /\ pc = "reply" /\ Unusable
  /\ snap' = LastOffline
  /\ before' = {}
  /\ PollEnds
  /\ UNCHANGED <<guest, reporter, base, restarts>>

\* mutant: no answer is no news
OfflineKeepsSnap ==
  /\ pc = "reply" /\ Unusable
  /\ base' = {} /\ before' = {}
  /\ PollEnds
  /\ UNCHANGED <<guest, reporter, snap, restarts>>

(* Unreachable, or another card's reporter: the entry is kept, offline.    *)
Offline ==
  /\ pc = "reply" /\ Unusable
  /\ snap' = LastOffline
  /\ base' = {} /\ before' = {}
  /\ PollEnds
  /\ UNCHANGED <<guest, reporter, restarts>>

\* mutant: another card's reporter is believed
OnlineAnyCard ==
  /\ pc = "reply" /\ answer # None
  /\ snap' = [online |-> TRUE, card |-> answer.card,
              util |-> IF later THEN answer.clients \cap base ELSE {}, stale |-> FALSE]
  /\ base' = answer.clients /\ before' = answer.clients
  /\ PollEnds
  /\ UNCHANGED <<guest, reporter, restarts>>

(* A client gets a number if it is in the baseline and time has passed.    *)
(* (A reply of another shape than the reporter's raises on the way and     *)
(* leaves the snapshot to go stale: left out.)                             *)
Online ==
  /\ pc = "reply" /\ ~Unusable
  /\ snap' = [online |-> TRUE, card |-> answer.card,
              util |-> IF later THEN answer.clients \cap base ELSE {}, stale |-> FALSE]
  /\ base' = answer.clients /\ before' = answer.clients
  /\ PollEnds
  /\ UNCHANGED <<guest, reporter, restarts>>

(* STALE_AFTER_S pass without a poll: rounds are seconds apart, so one     *)
(* hangs.                                                                  *)
GoesStale ==
  /\ pc = "hung" /\ snap \in Snap
  /\ snap' = [snap EXCEPT !.stale = TRUE]
  /\ UNCHANGED <<guest, reporter, poller, base, restarts, before>>

(* probe_snapshot(): what admission and the status page are given.         *)
Usable == snap \in Snap /\ snap.online /\ ~snap.stale /\ snap.card = "ours"

-----------------------------------------------------------------------------
(* The guest and the manager.                                              *)

CardChanges ==
  /\ card' \in CardState \ {card}
  /\ UNCHANGED <<clients, agent, reporter, poller, shown, restarts, before>>

ClientsChange ==
  /\ \E c \in Client : clients' = IF c \in clients THEN clients \ {c} ELSE clients \cup {c}
  /\ UNCHANGED <<card, agent, reporter, poller, shown, restarts, before>>

(* A reporter that is restarted has no memo; one that fails keeps it.      *)
AgentChanges ==
  /\ agent' = ~agent
  /\ \/ UNCHANGED reporter
     \/ agent /\ memo' = None /\ unread' = FALSE
  /\ UNCHANGED <<card, clients, poller, shown, restarts, before>>

Restart ==
  /\ restarts < MaxRestarts /\ restarts' = restarts + 1
  /\ PollEnds
  /\ snap' = None /\ base' = {} /\ before' = {}
  /\ UNCHANGED <<guest, reporter>>

PollStep ==
  \/ Ask \/ NoAnswer \/ ServeMemo \/ ReadCard \/ ScanClients \/ Offline \/ Online

Next ==
  \/ PollStep \/ Hang \/ Scanner \/ GoesStale
  \/ CardChanges \/ ClientsChange \/ AgentChanges \/ Restart

Spec == Init /\ [][Next]_vars

(* The poller's thread runs unless a poll hangs; the reporter's memo lasts *)
(* 2 s, so polls get new samples; time passes.                             *)
FairSpec ==
  /\ Spec
  /\ WF_vars(pc # "hung" /\ PollStep) /\ SF_vars(ReadCard) /\ SF_vars(ScanClients)
  /\ WF_vars(GoesStale)

-----------------------------------------------------------------------------
(* An activity is shown only for a client that was in two good polls in a  *)
(* row, the second with a later sample: never one measured across an       *)
(* outage (amd.py:89-91) or over no time at all.                           *)
UtilOfOneInterval ==
  [][snap' \in Snap /\ snap' # snap =>
       \/ ~snap'.online \/ snap'.stale
       \/ /\ snap'.util \subseteq before \cap answer.clients
          /\ snap'.util # {} => later]_vars

(* Fail-open, and back (amd.py:8-10, 33-40, 53-55): a card that cannot be  *)
(* read, or whose poll never ends, comes to be offline for admission and   *)
(* stays so; one that can be read again, by polls that end, is online.     *)
Readable == agent /\ card = "ours"
Polled == pc # "hung"
SeenInTime ==
  /\ <>[]~Readable \/ <>[]~Polled => <>[]~Usable
  /\ <>[](Readable /\ Polled) => []<>Usable
=============================================================================
