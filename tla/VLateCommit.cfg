CONSTANTS
    x = x
    y = y
    Ix = {x, y}
    Leg = {3, 4}
    TxOf <- MCTxOf
    IxOf <- MCIxOf
    Buffer = 2
    Page = 1
    NoCursor = NoCursor
    MaxEvents <- One
    MaxDrops = 1
    Overlap = FALSE
    Cut = FALSE
    Lag = TRUE
SPECIFICATION Spec
CHECK_DEADLOCK FALSE
INVARIANTS
    NeverDropped
