CONSTANTS
  Gpu <- RouteGpus
  Card <- RouteCards
  Margin = 1
  Mps <- MpsOff
  Manager = {m1, m2}
  Job <- ThreeJobs
  Ask <- RouteAsks
  Child <- NoChild
  LeaseId = {l1, l2}
  Readings <- RouteReadings
  Pid = {p1}
  Holdable = {"b1", "d1"}
  Recycle = TRUE
  NoLease = NoLease
  NoId = NoId
  NoPid = NoPid
  Free = Free
  Offline = Offline
  j1 = j1
  j2 = j2
  j3 = j3
  p1 = p1
  p2 = p2
  p3 = p3
SPECIFICATION Spec
SYMMETRY LeaseSymmetry
INVARIANTS RoutedRight HoldHonoured ExclusiveLane
PROPERTY LeaseStays
