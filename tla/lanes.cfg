CONSTANTS
  Gpu <- LaneGpus
  Card <- LaneCards
  Margin = 1
  Mps <- LaneMps
  Manager = {m1}
  Job <- ThreeJobs
  Ask <- LaneAsks
  Child <- NoChild
  LeaseId = {l1, l2, l3}
  Readings <- LaneReadings
  Pid = {p1}
  Holdable = {}
  Recycle = FALSE
  NoLease = NoLease
  NoId = NoId
  NoPid = NoPid
  Free = Free
  Offline = Offline
  j1 = j1
  j2 = j2
  j3 = j3
  p1 = p1
  p2 = p2
  p3 = p3
SPECIFICATION Spec
SYMMETRY LeaseSymmetry
INVARIANTS TypeOK ExclusiveAlone FloorsFit OneLeasePerHolder
PROPERTY Kept
