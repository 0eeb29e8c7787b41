-------------------------- MODULE RemoteCardProofs --------------------------
(***************************************************************************)
(* Proofs about RemoteCard, for any set of clients and number of restarts, *)
(* whatever the reporter, the card and the network do between two polls:   *)
(* the types, and that a shown activity was measured between two good      *)
(* polls in a row.                                                         *)
(***************************************************************************)
EXTENDS RemoteCard, TLAPS

(* While the clients are scanned the card has been read.                   *)
Answered == pc = "scan" => answer \in Sample

(* The engine baseline is that of the good poll just before, or none.      *)
Baseline == base = before

Inv == TypeOK /\ Answered /\ Baseline
-----------------------------------------------------------------------------
LEMMA NoneShown == None \in Snap \cup {None, [online |-> FALSE]}
OBVIOUS

LEMMA InvInit == Init => Inv
<1> SUFFICES ASSUME Init PROVE Inv
  OBVIOUS
<1>1. snap \in Snap \cup {None, [online |-> FALSE]}
  BY NoneShown DEF Init
<1>2. restarts \in 0 .. MaxRestarts
  BY RemoteAssumption DEF Init
<1> QED BY <1>1, <1>2 DEF Init, Inv, TypeOK, Answered, Baseline

(* A poll, up to its answer.                                               *)
LEMMA PollKeeps ==
  ASSUME Inv, Ask \/ NoAnswer \/ Hang \/ ServeMemo \/ ReadCard \/ ScanClients \/ Scanner
  PROVE  Inv'
<1> USE DEF Inv, TypeOK, Answered, Baseline, guest, reporter, shown, poller
<1>1. CASE Ask \/ NoAnswer \/ Hang
  BY <1>1 DEF Ask, NoAnswer, Hang, Answers
<1>2. CASE ServeMemo
  BY <1>2 DEF ServeMemo, Answers
<1>3. CASE ReadCard
  <2>1. answer' \in Sample
    BY <1>3 DEF ReadCard, Sample
  <2> QED BY <1>3, <2>1 DEF ReadCard
<1>4. CASE ScanClients
  <2>1. answer' \in Sample /\ memo' = answer'
    BY <1>4 DEF ScanClients, Answers, Sample
  <2> QED BY <1>4, <2>1 DEF ScanClients, Answers
<1>5. CASE Scanner
  <2>1. memo' \in Sample
    BY <1>5 DEF Scanner, Sample
  <2> QED BY <1>5, <2>1 DEF Scanner
<1> QED BY <1>1, <1>2, <1>3, <1>4, <1>5

(* The poller takes the answer, or misses it.                              *)
LEMMA TakeKeeps ==
  ASSUME Inv, Offline \/ Online \/ GoesStale \/ Restart
  PROVE  Inv'
<1> USE DEF Inv, TypeOK, Answered, Baseline, guest, reporter, shown, poller, PollEnds
<1>1. CASE Offline
  <2>1. snap' \in Snap \cup {[online |-> FALSE]}
    BY <1>1 DEF Offline, LastOffline, Snap
  <2> QED BY <1>1, <2>1 DEF Offline
<1>2. CASE Online
  <2>1. answer \in Sample /\ answer.card \in CardState \ {"other"} /\ answer.clients \subseteq Client
    BY <1>2 DEF Online, Unusable, Sample
  <2>2. snap' \in Snap
    BY <1>2, <2>1 DEF Online, Snap
  <2> QED BY <1>2, <2>1, <2>2 DEF Online
<1>3. CASE GoesStale
  <2>1. snap' \in Snap
    BY <1>3 DEF GoesStale, Snap
  <2> QED BY <1>3, <2>1 DEF GoesStale
<1>4. CASE Restart
  <2>1. snap' \in Snap \cup {None, [online |-> FALSE]}
    BY <1>4, NoneShown DEF Restart
  <2>2. restarts' \in 0 .. MaxRestarts
    BY <1>4, RemoteAssumption DEF Restart
  <2> QED BY <1>4, <2>1, <2>2 DEF Restart
<1> QED BY <1>1, <1>2, <1>3, <1>4

(* The guest changes.                                                      *)
LEMMA GuestKeeps ==
  ASSUME Inv, CardChanges \/ ClientsChange \/ AgentChanges \/ UNCHANGED vars
  PROVE  Inv'
<1> USE DEF Inv, TypeOK, Answered, Baseline, reporter, shown, poller
<1>1. CASE CardChanges
  BY <1>1 DEF CardChanges
<1>2. CASE ClientsChange
  BY <1>2 DEF ClientsChange
<1>3. CASE AgentChanges
  BY <1>3 DEF AgentChanges
<1>4. CASE UNCHANGED vars
  BY <1>4 DEF vars
<1> QED BY <1>1, <1>2, <1>3, <1>4

LEMMA InvNext == Inv /\ [Next]_vars => Inv'
BY PollKeeps, TakeKeeps, GuestKeeps DEF Next, PollStep

LEMMA Always == Spec => []Inv
BY InvInit, InvNext, PTL DEF Spec
-----------------------------------------------------------------------------
(* Every variable keeps its type (amd.py:45-105): what is shown as online  *)
(* is never another card, whose reporter is refused.                       *)
THEOREM TypeCorrect == Spec => []TypeOK
<1>1. Inv => TypeOK
  BY DEF Inv
<1> QED BY <1>1, Always, PTL

(* An activity is shown only for a client that was in two good polls in a  *)
(* row, the second with a later sample: never one measured across an       *)
(* outage (amd.py:89-91) or over no time at all.                           *)
THEOREM UtilCorrect == Spec => UtilOfOneInterval
<1> DEFINE Measured ==
      snap' \in Snap /\ snap' # snap =>
        \/ ~snap'.online \/ snap'.stale
        \/ /\ snap'.util \subseteq before \cap answer.clients
           /\ snap'.util # {} => later
<1>1. Inv /\ [Next]_vars => [Measured]_vars
  <2> SUFFICES ASSUME Inv, Next, snap' \in Snap, snap' # snap
               PROVE  \/ ~snap'.online \/ snap'.stale
                      \/ /\ snap'.util \subseteq before \cap answer.clients
                         /\ snap'.util # {} => later
    OBVIOUS
  <2>1. Offline \/ Online \/ GoesStale \/ Restart
    BY DEF Next, PollStep, Ask, NoAnswer, Hang, ServeMemo, ReadCard, ScanClients, Scanner,
           CardChanges, ClientsChange, AgentChanges, shown
  <2>2. CASE Offline
    BY <2>2 DEF Offline, LastOffline, Snap
  <2>3. CASE Online
    BY <2>3 DEF Online, Inv, Baseline
  <2>4. CASE GoesStale
    BY <2>4 DEF GoesStale, Snap
  <2>5. CASE Restart
    <3>1. snap' = None
      BY <2>5 DEF Restart
    <3> QED BY <3>1, RemoteAssumption
  <2> QED BY <2>1, <2>2, <2>3, <2>4, <2>5
<1> QED BY <1>1, Always, PTL DEF Spec, UtilOfOneInterval
=============================================================================
