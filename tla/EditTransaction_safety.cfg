SPECIFICATION Spec
CONSTANTS
  NumEdits = 2
  NumPaths = 2
  Created = {1, 2}
  Works = {w1, w2}
  Empty = Empty
  FsyncOrders = TRUE
  MaxEdits = 2
  MaxFaults = 2
CHECK_DEADLOCK FALSE
SYMMETRY Symmetry
INVARIANTS TypeOK ExternalWorkKept ActiveFilesWhole ClassificationTrue StagesJournaled AllOrNothing
PROPERTIES RecoveryKeepsActive DestroyedAfterApplied
