SPECIFICATION Spec
CONSTANTS
    t1 = t1
    t2 = t2
    c1 = c1
    c2 = c2
    m1 = m1
    m2 = m2
    None = None
    Tabs <- TwoTabs
    Changes = {c1, c2}
    ManifestOf <- Releases
    InitialSelections <- Starts
    Pages <- Pairs
    MaxMade = 3
    MaxEvents = 0
SYMMETRY Symmetry
INVARIANT ConflictAppliedNothing
CHECK_DEADLOCK FALSE
