SPECIFICATION FairSpec
CONSTANTS
  Shim = {s1, s2, s3}
  Signals = {"TERM", "INT", "KILL"}
INVARIANT OneWorks
PROPERTY BoundWorkKept
PROPERTY LeaseEnds
PROPERTY LaneKept
