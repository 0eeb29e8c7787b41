------------------------------ MODULE MCLeases ------------------------------
(***************************************************************************)
(* Instances of Leases for TLC.  VRAM is counted in units; a card of 6     *)
(* units with a margin of 1 has room for one floor of 3 and one of 2.      *)
(***************************************************************************)
EXTENDS Leases, TLC

LeaseSymmetry == Permutations(LeaseId)

Batch(rank) == [role |-> "batch", remote |-> FALSE, caps |-> {"cuda"},
                spill |-> 0, total |-> 6, rank |-> rank]
Desktop(rank) == [Batch(rank) EXCEPT !.role = "interactive", !.spill = 2]
Remote(rank) == [Batch(rank) EXCEPT !.remote = TRUE, !.caps = {"vulkan", "vaapi"}]

Body(target, who, v, ex, p, c) ==
  [target |-> target, initiator |-> who, vram |-> v, exclusive |-> ex, pid |-> p, cap |-> c]

MpsOn(g) == [enabled |-> TRUE, card |-> g, batchExclusive |-> FALSE]
MpsOff == [enabled |-> FALSE, card |-> "none", batchExclusive |-> FALSE]

NoChild == [j \in Job |-> NoPid]

(* An idle, a half-used and an almost full card; the last two are of a     *)
(* card on which something other than a lease may be running.              *)
Empty == [used |-> 0, free |-> 6]
Half  == [used |-> 3, free |-> 3]
Full  == [used |-> 5, free |-> 1]

CONSTANTS j1, j2, j3, p1, p2, p3   \* jobs and pids, as model values

(* -- lanes: a card that MPS may share and a plain one; two batch jobs and *)
(*    a model that lives on the first card.                                *)
LaneGpus == {"b1", "b2"}
LaneCards == "b1" :> Batch(1) @@ "b2" :> Batch(2)
LaneMps == MpsOn("b1")
LaneReadings == "b1" :> {Empty, Half} @@ "b2" :> {Empty}
ThreeJobs == {j1, j2, j3}
LaneAsks == j1 :> Body("batch", "render", 2, TRUE, p1, NoCap)
         @@ j2 :> Body("batch", "train", 2, TRUE, NoPid, NoCap)
         @@ j3 :> Body("b1", ModelManager, 3, FALSE, NoPid, NoCap)

(* -- working: a wrapped command that rebinds its lease to its child, a    *)
(*    long-lived service that asks again and again, and an ask for the     *)
(*    video encoder, which is never leased; on one card.                   *)
OneGpu == {"b1"}
OneCard == "b1" :> Batch(1)
OneReadings == "b1" :> {Empty, Half}
WorkAsks == j1 :> Body("batch", "gpu-lease", 2, FALSE, p1, NoCap)
         @@ j2 :> Body("b1", "docgen", 3, TRUE, p3, NoCap)
         @@ j3 :> Body("b1", "encode", 2, TRUE, NoPid, "vaapi")
WorkChild == j1 :> p2 @@ j2 :> NoPid @@ j3 :> NoPid

(* -- routing: a batch card, the desktop with room for small overflow, and *)
(*    a remote card in the batch role; two manager processes on one        *)
(*    database, and pids that the system uses again.                       *)
RouteGpus == {"b1", "d1", "r1"}
RouteCards == "r1" :> Remote(1) @@ "b1" :> Batch(2) @@ "d1" :> Desktop(3)
RouteReadings == "b1" :> {Empty, Half} @@ "d1" :> {Empty} @@ "r1" :> {Empty}
RouteAsks == j1 :> Body("batch", "render", 2, TRUE, p1, NoCap)
          @@ j2 :> Body("b1", "shader", 3, TRUE, NoPid, "cuda")
          @@ j3 :> Body("batch", "upscale", 3, TRUE, NoPid, "vulkan")
=============================================================================
