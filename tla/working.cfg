CONSTANTS
  Gpu <- OneGpu
  Card <- OneCard
  Margin = 1
  Mps <- MpsOff
  Manager = {m1}
  Job <- ThreeJobs
  Ask <- WorkAsks
  Child <- WorkChild
  LeaseId = {l1, l2, l3}
  Readings <- OneReadings
  Pid = {p1, p2, p3}
  Holdable = {}
  Recycle = FALSE
  NoLease = NoLease
  NoId = NoId
  NoPid = NoPid
  Free = Free
  Offline = Offline
  j1 = j1
  j2 = j2
  j3 = j3
  p1 = p1
  p2 = p2
  p3 = p3
SPECIFICATION FairSpec
INVARIANTS WorkingJobKeepsLease
PROPERTY OrphansExpire
