CONSTANTS
    one = one
    Arrivals = 4
    Matching = {1, 2, 4}
    Worker = {one}
    WorkCap = 1
    OutCap = 1
    LookupBatch = 2
    MaxSessions = 2
SPECIFICATION LiveSpec
CHECK_DEADLOCK FALSE
INVARIANTS
    TypeOK
    EveryHashAccounted
    NothingSlips
PROPERTIES
    Drained
    SessionEnds
