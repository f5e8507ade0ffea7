SPECIFICATION Spec
CONSTANTS
    Layouts = {"sequence", "random", "array", "dictionary", "vararg", "switch", "select", "dialogue", "entry", "call"}
    Peers = {p, q}
    MaxElements = 3
    MaxWires = 3
    Limit = 4
INVARIANT WellWired
PROPERTY KeepsWires
CHECK_DEADLOCK FALSE
