CONSTANTS
    p = p
    q = q
    slot = slot
    other = other
    Height = 5
    Reorgs = 1
    Fails = 0
    Crashes = 0
    Expiries = 0
    Gossips = 0
    Finals = 1
    Outages = 0
    Silent = 2
    Queue = 1
    Calm = 9
    Hash = {p, q}
    Slot = {slot}
    SlotOf <- MCSlotOf
    Block <- MCBlock
    NoBlock = NoBlock
    Cap = 2
    Depth = 2
    TagMode = TRUE
    RingSize = 4
    AncestorChunk = 2
    NoRef = NoRef
    Body <- MCBody
    TxsIn <- MCTxsIn
    CallLegs <- MCCallLegs
    FoundLegs <- MCFoundLegs
    Failing = {}
    Resume = TRUE
    AgeCap = 0
    MayLower = TRUE
    MayReturn = FALSE
    MidScan = TRUE
    FinalAhead = TRUE
    Genesis <- MCGenesis
    Bound <- MCBound
SPECIFICATION Spec
CHECK_DEADLOCK FALSE
INVARIANTS
    FinalKept
