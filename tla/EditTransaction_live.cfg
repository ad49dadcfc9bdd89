SPECIFICATION FairSpec
CONSTANTS
  NumEdits = 2
  NumPaths = 2
  Created = {1}
  Works = {w1}
  Empty = Empty
  FsyncOrders = TRUE
  MaxEdits = 1
  MaxFaults = 2
CHECK_DEADLOCK FALSE
PROPERTY RecoveryResolves
