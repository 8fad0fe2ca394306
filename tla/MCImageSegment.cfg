SPECIFICATION Spec
CONSTANTS
    Rows = 2
    Cols = 3
    Bands = 2
    Depths = {8, 12}
    Shapes <- const_Shapes
    WriteModes = {"B", "P", "R", "S"}
    MaxSets = 2
    MaxWrites = 2
    MaskedReblock = FALSE
    MaskedSequential = FALSE
INVARIANTS
    TypeOK
    AnnouncedBlocksReadable
    RangesHoldTheBlock
    MaskTellsProvided
PROPERTIES
    KeepsThePicture
CHECK_DEADLOCK FALSE
