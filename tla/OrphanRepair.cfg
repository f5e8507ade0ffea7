SPECIFICATION RepairSpec
CONSTANTS
    Ids = {a, b, c}
    Graphs = {g, h}
    None = None
INVARIANT Repaired
PROPERTY PlacedKept
CHECK_DEADLOCK FALSE
