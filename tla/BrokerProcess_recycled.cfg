SPECIFICATION Spec
CONSTANTS
    p1 = p1
    p2 = p2
    Pids <- TwoPids
    Leader = p1
    Self = Self
    Reasons = {"timeout"}
    MaxStarts = 2
    MaxTracked = 3
PROPERTY RecycledNeverSignaled
CHECK_DEADLOCK FALSE
