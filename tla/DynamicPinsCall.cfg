SPECIFICATION Spec
CONSTANTS
    Layouts = {"call"}
    Peers = {p, q}
    MaxElements = 3
    MaxWires = 3
    Limit = 4
PROPERTY KindKept
CHECK_DEADLOCK FALSE
