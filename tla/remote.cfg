SPECIFICATION FairSpec
CONSTANTS
  Client = {k1}
  MaxRestarts = 2
  None = None
INVARIANT TypeOK
PROPERTY UtilOfOneInterval
PROPERTY SeenInTime
