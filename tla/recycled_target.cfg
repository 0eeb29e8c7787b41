SPECIFICATION Spec
CONSTANTS
  k1 = k1
  k2 = k2
  k3 = k3
  k4 = k4
  p1 = p1
  p2 = p2
  u1 = u1
  c1 = c1
  Lease = {k1, k2}
  Pid = {p1, p2}
  Card = {c1}
  Unit = {u1}
  PidOf <- PlainPid
  Kind <- PlainKind
  CardOf <- OneCard
  UnitOf <- PlainUnit
  Vouching = {}
  Slow = FALSE
  MaxBorn <- TwiceBorn
  Restarts = FALSE
  NoLease = NoLease
  NoUnit = NoUnit
INVARIANT StrikesTheOwner
CHECK_DEADLOCK FALSE
