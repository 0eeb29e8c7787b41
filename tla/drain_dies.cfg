SPECIFICATION DrainSpec
CONSTANTS
  Model = {m1}
  Caller = {c1}
  Id = {l1, l2}
  Faults <- SlowCalls
  MaxRestarts = 0
  NoModel = NoModel
  NoId = NoId
  NoState = NoState
  Free = Free
  Drain = Drain
PROPERTY UnusedDrains
