SPECIFICATION Spec
CONSTANTS
    Contents = {1, 2, 3}
    OtherHeader = {}
    Worlds <- Refused
INVARIANT ShowsFile
CHECK_DEADLOCK FALSE
