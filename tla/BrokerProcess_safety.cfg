SPECIFICATION FairSpec
CONSTANTS
    p1 = p1
    p2 = p2
    Pids <- TwoPids
    Leader = p1
    Self = Self
    Reasons = {"timeout"}
    MaxStarts = 3
    MaxTracked = 3
INVARIANTS TypeOK SuccessIsClean UnseenOrphansOnly
PROPERTIES SiblingsKept RunEnds
CHECK_DEADLOCK FALSE
