SPECIFICATION GateFairSpec
CONSTANTS
  m1 = m1
  c1 = c1
  c2 = c2
  Model = {m1, m2}
  Caller = {c1}
  Conn = {}
  Behind <- NoGates
  Workers = 1
  Loops = 0
  Id = {l1, l2}
  Faults <- Refused
  MaxRestarts = 1
  NoModel = NoModel
  NoId = NoId
  NoState = NoState
  Free = Free
  Drain = Drain
INVARIANT StopsOnlyUnused
INVARIANT ReservationKnown
PROPERTY LiveLoopDrains
PROPERTY StrandedReleased
PROPERTY SurplusEnds
