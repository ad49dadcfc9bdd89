SPECIFICATION FairSpec
CONSTANTS
  NumEdits = 1
  NumPaths = 2
  Created = {}
  Works = {w1}
  Empty = Empty
  FsyncOrders = TRUE
  MaxEdits = 1
  MaxFaults = 1
CHECK_DEADLOCK FALSE
PROPERTY RecoveryResolves
