-------------------------------- MODULE Holds --------------------------------
(***************************************************************************)
(* The hold markers of one card: files hold-<uuid>.<reason> in hold_dir    *)
(* that pause new batch admission there.  The API sets and clears them     *)
(* (src/gpu_manager/app.py), the presence poller keeps the .nx marker      *)
(* while a remote-desktop client is connected (src/gpu_manager/presence.py)*)
(* and systemd owns the directory (src/systemd/gpu-manager.service).       *)
(*                                                                         *)
(* Time is the flag "stale": the .nx marker is older than cooldown_s.      *)
(***************************************************************************)
EXTENDS Naturals

CONSTANTS
  Reason,      \* reasons an operator gives, after _REASON_RE
  MaxRestarts  \* bound: how often the service stops and starts

Nx == "nx"     \* the suffix of the poller's marker

VARIABLES
  marker,      \* reasons with a marker file
  stale,       \* the .nx marker was last touched more than cooldown_s ago
  connected,   \* a client is connected to the remote desktop
  broken,      \* `nxserver --list` fails or times out
  poll,        \* "asleep", or what the poll that runs now has read
  restarts,
  polled,      \* the configuration has an enabled nomachine entry for the card
  wanted       \* history: reasons set by POST and not cleared by DELETE

vars == <<marker, stale, connected, broken, poll, restarts, wanted, polled>>

TypeOK ==
  /\ marker \subseteq Reason \cup {Nx}
  /\ stale \in BOOLEAN /\ (stale => Nx \in marker)
  /\ connected \in BOOLEAN /\ broken \in BOOLEAN /\ polled \in BOOLEAN
  /\ poll \in {"asleep", "client", "none"}
  /\ wanted \subseteq Reason /\ restarts \in Nat

Init ==
  /\ marker = {} /\ stale = FALSE /\ connected = FALSE /\ broken = FALSE
  /\ poll = "asleep" /\ wanted = {} /\ restarts = 0 /\ polled \in BOOLEAN

Held == marker # {}

-----------------------------------------------------------------------------
(* hold_set: touch the marker of the reason.                               *)
Set(r) ==
  /\ marker' = marker \cup {r}
  /\ stale' = (stale /\ r # Nx)
  /\ wanted' = wanted \cup {r}
  /\ UNCHANGED <<connected, broken, poll, restarts, polled>>

\* mutant: only the marker of the default reason is removed
ClearManual ==
  /\ marker' = marker \ {"manual"} /\ wanted' = {}
  /\ UNCHANGED <<stale, connected, broken, poll, restarts, polled>>

\* mutant: every marker of the card is removed, the poller's too
ClearAll ==
  /\ marker' = {} /\ stale' = FALSE /\ wanted' = {}
  /\ UNCHANGED <<connected, broken, poll, restarts, polled>>

(* hold_clear: remove every marker of the card but the poller's.           *)
Clear ==
  /\ marker' = marker \cap {Nx} /\ wanted' = {}
  /\ UNCHANGED <<stale, connected, broken, poll, restarts, polled>>

Connect ==
  /\ ~connected /\ connected' = TRUE
  /\ UNCHANGED <<marker, stale, broken, poll, restarts, wanted, polled>>

Disconnect ==
  /\ connected /\ connected' = FALSE
  /\ UNCHANGED <<marker, stale, broken, poll, restarts, wanted, polled>>

(* The probe starts, or stops, to fail.                                    *)
Break ==
  /\ broken' = ~broken
  /\ UNCHANGED <<marker, stale, connected, poll, restarts, wanted, polled>>

Cooldown ==
  /\ Nx \in marker /\ stale' = TRUE
  /\ UNCHANGED <<marker, connected, broken, poll, restarts, wanted, polled>>

\* mutant: the exception of a probe that fails is not caught
ReadRaises ==
  /\ polled /\ poll = "asleep"
  /\ poll' = IF broken THEN "raised" ELSE IF connected THEN "client" ELSE "none"
  /\ UNCHANGED <<marker, stale, connected, broken, restarts, wanted, polled>>

(* _nx_client_connected: a probe that fails reads as nobody connected.     *)
(* Only the cards of enabled nomachine entries are polled, if there are    *)
(* any (app.py:58, presence.py:36-38).                                     *)
Read ==
  /\ polled /\ poll = "asleep"
  /\ poll' = IF connected /\ ~broken THEN "client" ELSE "none"
  /\ UNCHANGED <<marker, stale, connected, broken, restarts, wanted, polled>>

Touch ==
  /\ poll = "client"
  /\ marker' = marker \cup {Nx} /\ stale' = FALSE
  /\ poll' = "asleep"
  /\ UNCHANGED <<connected, broken, restarts, wanted, polled>>

\* mutant: the poller removes whatever marker the card has
RemoveAll ==
  /\ poll = "none"
  /\ IF stale THEN marker' = {} /\ stale' = FALSE ELSE UNCHANGED <<marker, stale>>
  /\ poll' = "asleep"
  /\ UNCHANGED <<connected, broken, restarts, wanted, polled>>

Remove ==
  /\ poll = "none"
  /\ IF stale THEN marker' = marker \ {Nx} /\ stale' = FALSE
     ELSE UNCHANGED <<marker, stale>>
  /\ poll' = "asleep"
  /\ UNCHANGED <<connected, broken, restarts, wanted, polled>>

(* RuntimeDirectory=gpu-manager: systemd removes /run/gpu-manager when the *)
(* service stops, for a restart too, and the next start may find another   *)
(* configuration.                                                          *)
Restart ==
  /\ restarts < MaxRestarts /\ restarts' = restarts + 1
  /\ marker' = {} /\ stale' = FALSE /\ poll' = "asleep"
  /\ polled' \in BOOLEAN
  /\ UNCHANGED <<connected, broken, wanted>>

Poll == Read \/ Touch \/ Remove

Next == \/ \E r \in Reason : Set(r)
        \/ Clear \/ Connect \/ Disconnect \/ Break \/ Cooldown \/ Poll \/ Restart

Spec == Init /\ [][Next]_vars

-----------------------------------------------------------------------------
(* A hold an operator set and did not clear stays, whatever clients come   *)
(* and go and however often the probe fails (presence.py:10), until the    *)
(* service stops.  One set with the reason "nx" does not: its marker is    *)
(* the poller's own.                                                       *)
OperatorHoldKept ==
  [][restarts' = restarts =>
       ((wanted \ {Nx}) \cap wanted' \cap marker) \subseteq marker']_vars

(* DELETE leaves the hold of a client that stays connected alone, and the  *)
(* poller restores it whatever happened to the directory (app.py:215), as  *)
(* long as the card is polled and the probe works.                         *)
ClientHeld == <>[](connected /\ ~broken /\ polled) => <>[](Nx \in marker)

(* With the operator's holds cleared and the client gone a card that is    *)
(* polled is leasable again.  (One that is not keeps a hold posted with    *)
(* the reason "nx": DELETE leaves that marker to a poller that is not      *)
(* there, app.py:215, and it stays until the service stops.)               *)
HoldEnds == <>[](~connected /\ wanted = {} /\ polled) => <>[]~Held
=============================================================================
