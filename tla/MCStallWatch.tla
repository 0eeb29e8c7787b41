---------------------------- MODULE MCStallWatch ----------------------------
(***************************************************************************)
(* Small instances of StallWatch.                                          *)
(***************************************************************************)
EXTENDS StallWatch, TLC

CONSTANTS k1, k2, k3, k4, p1, p2, u1, c1

(* -- watch: a long-lived service that takes two leases one after the     *)
(*    other and whose unit may be slow to stop, a model on the same card,  *)
(*    and a lease on a remote card whose pid number is that of the model.  *)
WatchPid == k1 :> p1 @@ k2 :> p1 @@ k3 :> p2 @@ k4 :> p2
WatchKind == k1 :> "job" @@ k2 :> "job" @@ k3 :> "remote" @@ k4 :> "model"
WatchBorn == p1 :> 2 @@ p2 :> 1
WatchUnit == p1 :> u1 @@ p2 :> NoUnit
OneCard == p1 :> c1 @@ p2 :> c1

(* -- recycled: two jobs in plain processes.                               *)
PlainPid == k1 :> p1 @@ k2 :> p2
PlainKind == k1 :> "job" @@ k2 :> "job"
TwiceBorn == p1 :> 2 @@ p2 :> 2
PlainUnit == p1 :> NoUnit @@ p2 :> NoUnit
=============================================================================
