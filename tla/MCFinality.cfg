CONSTANTS
    p = p
    q = q
    slot = slot
    other = other
    Height = 4
    Reorgs = 1
    Fails = 0
    Crashes = 1
    Expiries = 0
    Gossips = 0
    Finals = 2
    Outages = 0
    Silent = 0
    Queue = 2
    Calm = 9
    Hash = {p, q}
    Slot = {slot}
    SlotOf <- MCSlotOf
    Block <- MCBlock
    NoBlock = NoBlock
    Cap = 2
    Depth = 2
    TagMode = TRUE
    RingSize = 4
    AncestorChunk = 2
    NoRef = NoRef
    Body <- MCBody
    TxsIn <- MCTxsIn
    CallLegs <- MCNoLegs
    FoundLegs <- MCFoundLegs
    Failing = {}
    Resume = TRUE
    AgeCap = 0
    MayLower = TRUE
    MayReturn = FALSE
    MidScan = TRUE
    FinalAhead = FALSE
    Genesis <- MCGenesis
    Bound <- MCBound
SPECIFICATION Spec
CHECK_DEADLOCK FALSE
INVARIANTS
    TypeOK
    DepthReached
    FinalKept
