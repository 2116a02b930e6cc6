CONSTANTS
    x = x
    y = y
    Ix = {x, y}
    Leg = {1, 2}
    TxOf <- MCTxOf
    IxOf <- MCIxOf
    Buffer = 2
    Page = 1
    NoCursor = NoCursor
    MaxEvents <- Two
    MaxDrops = 1
    Overlap = FALSE
    Cut = TRUE
    Lag = FALSE
SPECIFICATION Spec
CHECK_DEADLOCK FALSE
INVARIANTS
    NeverDropped
