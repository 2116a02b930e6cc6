CONSTANTS
    x = x
    y = y
    Ix = {x, y}
    Leg = {3}
    TxOf <- MCTxOf
    IxOf <- MCIxOf
    Buffer = 2
    Page = 1
    NoCursor = NoCursor
    MaxEvents <- Two
    MaxDrops = 1
    Overlap = TRUE
    Cut = FALSE
    Lag = FALSE
SPECIFICATION Spec
CHECK_DEADLOCK FALSE
INVARIANTS
    NeverDropped
