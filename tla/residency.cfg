SPECIFICATION GateFairSpec
CONSTANTS
  m1 = m1
  c1 = c1
  c2 = c2
  Model = {m1}
  Caller = {c1, c2, c3}
  Conn = {c1, c2}
  Behind <- GatesToM1
  Workers = 2
  Loops = 1
  Id = {l1}
  Faults <- AllFaults
  MaxRestarts = 1
  NoModel = NoModel
  NoId = NoId
  NoState = NoState
  Free = Free
  Drain = Drain
INVARIANT GateTypeOK
INVARIANT HeldIsOurs
INVARIANT WakingSpared
PROPERTY WakeEnds
