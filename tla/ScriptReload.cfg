SPECIFICATION Spec
CONSTANTS
    Contents = {1, 2, 3}
    OtherHeader = {2}
    Worlds <- Both
INVARIANT TabShowsFile
PROPERTIES EditsKept ChangeNoticed
CHECK_DEADLOCK FALSE
