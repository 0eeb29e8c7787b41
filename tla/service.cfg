SPECIFICATION FairSpec
CONSTANTS
  Reason = {"meeting", "nx"}
  MaxRestarts = 2
  old = old
  new = new
  bad = bad
  i1 = i1
  i2 = i2
  Editor = {e1}
  Text = {old, new, bad}
  Valid = {old, new}
  Initial = old
  Inode <- Inodes
  NoInode = NoInode
  Nothing = Nothing
  Empty = Empty
  Polling = {old}
INVARIANT TypeOK
PROPERTY OperatorHoldKept
PROPERTY ClientHeld
PROPERTY HoldEnds
PROPERTY SaveSafe
PROPERTY SavedRuns
