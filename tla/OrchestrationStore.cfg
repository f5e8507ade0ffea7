SPECIFICATION Spec
CONSTANTS
    Main = Main
    Names = {Main, a, b}
    Guids = {g1, g2}
    NoRef = NoRef
    MaxNode = 4
    MaxLinks = 3
    MaxReloads = 1
    Budget = 6
    SavedBudget = 3
SYMMETRY Symmetry
INVARIANTS WellFormed UsesDeclared
PROPERTIES RemovedFunctionUncalled
CONSTRAINTS Small Sound
CHECK_DEADLOCK FALSE
