SPECIFICATION Spec
CONSTANTS
    Rows = 2
    Cols = 3
    Bands = 2
    Depths = {8}
    Shapes <- const_Shapes
    WriteModes = {"B", "P", "R", "S"}
    MaxSets = 2
    MaxWrites = 2
    MaskedReblock = TRUE
    MaskedSequential = FALSE
INVARIANTS
    NothingShownIsLeftOut
CHECK_DEADLOCK FALSE
