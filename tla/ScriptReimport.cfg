SPECIFICATION Spec
CONSTANTS
    Contents = {1, 2, 3}
    OtherHeader = {}
    Worlds <- Reimported
PROPERTY EditsSurvive
CHECK_DEADLOCK FALSE
