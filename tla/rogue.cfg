SPECIFICATION FairSpec
CONSTANTS
  Pid = {p1, p2}
  MaxRestarts = 1
PROPERTY AlertsRight
PROPERTY RogueListed
