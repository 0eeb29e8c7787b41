----------------------------- MODULE ConfigSave -----------------------------
(***************************************************************************)
(* Saving the configuration (config_put in src/gpu_manager/app.py): the    *)
(* text goes to config.yaml.candidate, is loaded from there by name, the   *)
(* live file is copied to a backup and the candidate renamed over it.      *)
(* Every system call is a step: requests run in a thread pool, and the     *)
(* manager may die between any two (a save restarts it 0.8 s later).       *)
(*                                                                         *)
(* Files are inodes: an open descriptor follows its inode through renames. *)
(***************************************************************************)
EXTENDS Naturals, FiniteSets

CONSTANTS
  Editor,      \* requests in flight at once
  Text,        \* texts that are saved
  Valid,       \* those the loader accepts, with at least one card
  Initial,     \* the text that is live at first
  Inode,       \* bound: inodes
  NoInode, Nothing, Empty

VARIABLES
  live,        \* the inode named config.yaml
  candidate,   \* the inode named config.yaml.candidate, or NoInode
  data,        \* data[i]: the text in inode i
  backup,      \* the text of the latest backup
  pc,          \* pc[e]: the next system call of request e
  text,        \* text[e]: the text e saves
  fd           \* fd[e]: the inode e has open for writing

vars == <<live, candidate, data, backup, pc, text, fd>>
files == <<live, candidate, data, backup>>

TypeOK ==
  /\ live \in Inode /\ candidate \in Inode \cup {NoInode}
  /\ candidate # live
  /\ data \in [Inode -> Text \cup {Empty}]
  /\ backup \in Text \cup {Empty, Nothing}
  /\ pc \in [Editor -> {"idle", "open", "write", "load", "unlink", "backup", "replace"}]
  /\ text \in [Editor -> Text \cup {Nothing}]
  /\ fd \in [Editor -> Inode \cup {NoInode}]

InUse == {live, candidate} \cup {fd[e] : e \in Editor}

Init ==
  /\ live = CHOOSE i \in Inode : TRUE
  /\ candidate = NoInode
  /\ data = [i \in Inode |-> IF i = live THEN Initial ELSE Empty]
  /\ backup = Nothing
  /\ pc = [e \in Editor |-> "idle"]
  /\ text = [e \in Editor |-> Nothing]
  /\ fd = [e \in Editor |-> NoInode]

At(e, here, next) == pc[e] = here /\ pc' = [pc EXCEPT ![e] = next]

(* A reply to the request, or a 500 after an exception.                    *)
Ends(e, here) ==
  /\ At(e, here, "idle")
  /\ text' = [text EXCEPT ![e] = Nothing]
  /\ fd' = [fd EXCEPT ![e] = NoInode]

-----------------------------------------------------------------------------
Put(e, t) ==
  /\ At(e, "idle", "open")
  /\ text' = [text EXCEPT ![e] = t]
  /\ UNCHANGED <<files, fd>>

(* open(tmp, "w"): truncate the candidate, or create it.                   *)
Open(e) ==
  /\ At(e, "open", "write")
  /\ \E i \in Inode :
       /\ IF candidate # NoInode THEN i = candidate ELSE i \notin InUse
       /\ candidate' = i
       /\ data' = [data EXCEPT ![i] = Empty]
       /\ fd' = [fd EXCEPT ![e] = i]
  /\ UNCHANGED <<live, backup, text>>

(* The text lands in whatever the inode is called by now.  (Two requests   *)
(* that write one inode can also leave a mixture; the last one wins here.) *)
Write(e) ==
  /\ At(e, "write", "load")
  /\ data' = [data EXCEPT ![fd[e]] = text[e]]
  /\ fd' = [fd EXCEPT ![e] = NoInode]
  /\ UNCHANGED <<live, candidate, backup, text>>

(* _config.load(tmp) accepts what is now under that name, or raises.       *)
Loads == candidate # NoInode /\ data[candidate] \in Valid

Load(e) ==
  /\ At(e, "load", IF Loads THEN "backup" ELSE "unlink")
  /\ UNCHANGED <<files, text, fd>>

(* os.unlink raises if the name is gone; either way the request ends.      *)
Unlink(e) ==
  /\ Ends(e, "unlink")
  /\ candidate' = NoInode
  /\ UNCHANGED <<live, data, backup>>

\* mutant: the copy is made of the candidate
BackupCandidate(e) ==
  /\ At(e, "backup", "replace")
  /\ backup' = data[candidate]
  /\ UNCHANGED <<live, candidate, data, text, fd>>

Backup(e) ==
  /\ At(e, "backup", "replace")
  /\ backup' = data[live]
  /\ UNCHANGED <<live, candidate, data, text, fd>>

(* os.replace, or FileNotFoundError if another request took the candidate. *)
Replace(e) ==
  /\ Ends(e, "replace")
  /\ IF candidate # NoInode THEN live' = candidate ELSE UNCHANGED live
  /\ candidate' = NoInode
  /\ UNCHANGED <<data, backup>>

(* The manager dies or is restarted: requests end where they stand.        *)
Restart ==
  /\ pc' = [e \in Editor |-> "idle"]
  /\ text' = [e \in Editor |-> Nothing]
  /\ fd' = [e \in Editor |-> NoInode]
  /\ UNCHANGED files

Next ==
  \/ \E e \in Editor :
       \/ \E t \in Text : Put(e, t)
       \/ Open(e) \/ Write(e) \/ Load(e) \/ Unlink(e) \/ Backup(e) \/ Replace(e)
  \/ Restart

Spec == Init /\ [][Next]_vars

-----------------------------------------------------------------------------
(* The live file holds a text the loader accepts, whole, after any crash   *)
(* (app.py:235-236), so the manager can always start again; and what a     *)
(* save replaces is in the latest backup.                                  *)
LiveLoads == data[live] \in Valid
SaveSafe == []LiveLoads /\ [][live' # live => backup = data[live]]_vars
=============================================================================
