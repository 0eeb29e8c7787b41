SPECIFICATION FairSpec
CONSTANTS
  k1 = k1
  k2 = k2
  k3 = k3
  k4 = k4
  p1 = p1
  p2 = p2
  u1 = u1
  c1 = c1
  Lease = {k1, k2, k3, k4}
  Pid = {p1, p2}
  Card = {c1}
  Unit = {u1}
  PidOf <- WatchPid
  Kind <- WatchKind
  CardOf <- OneCard
  UnitOf <- WatchUnit
  Vouching = {k1}
  Slow = TRUE
  MaxBorn <- WatchBorn
  Restarts = TRUE
  NoLease = NoLease
  NoUnit = NoUnit
INVARIANT TypeOK
INVARIANT QuietForWindow
INVARIANT StrikesTheAsked
PROPERTY StalledEnds
CHECK_DEADLOCK FALSE
