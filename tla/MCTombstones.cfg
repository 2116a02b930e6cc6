CONSTANTS
    Hash = {h1, h2, h3}
    Cap = 2
    MaxSeq = 7
SPECIFICATION MemorySpec
CHECK_DEADLOCK FALSE
INVARIANTS
    FifoBounded
PROPERTIES
    ForgetsOldest
    ImplementsMemory
