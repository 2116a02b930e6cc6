CONSTANTS
    x = x
    y = y
    Ix = {x, y}
    Leg = {1, 2, 4}
    TxOf <- MCTxOf
    IxOf <- MCIxOf
    Buffer = 2
    Page = 1
    NoCursor = NoCursor
    MaxEvents <- Two
    MaxDrops = 1
    Overlap = FALSE
    Cut = FALSE
    Lag = FALSE
SPECIFICATION LiveSpec
CHECK_DEADLOCK FALSE
INVARIANTS
    TypeOK
    NeverDropped
PROPERTIES
    EventuallyInformed
