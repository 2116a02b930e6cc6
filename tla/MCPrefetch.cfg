CONSTANTS
    First = 2
    Final = 6
    Shapes <- MCShapes
    Ages = {0, 3}
    FirstChunk = 4
    MinChunk = 2
SPECIFICATION LiveSpec
CHECK_DEADLOCK FALSE
INVARIANTS
    TypeOK
    NoStall
    LogsCoverBlock
PROPERTIES
    ScansInOrder
    ScanEnds
