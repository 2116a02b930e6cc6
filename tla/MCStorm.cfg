CONSTANTS
    p = p
    q = q
    slot = slot
    other = other
    Height = 4
    Reorgs = 1
    Fails = 0
    Crashes = 1
    Expiries = 1
    Gossips = 1
    Finals = 0
    Outages = 0
    Silent = 1
    Queue = 1
    Calm = 9
    Hash = {p, q}
    Slot = {slot}
    SlotOf <- MCSlotOf
    Block <- MCBlock
    NoBlock = NoBlock
    Cap = 2
    Depth = 2
    TagMode = FALSE
    RingSize = 4
    AncestorChunk = 2
    NoRef = NoRef
    Body <- MCBody
    TxsIn <- MCTxsIn
    CallLegs <- MCCallLegs
    FoundLegs <- MCFoundLegs
    Failing = {}
    Resume = FALSE
    AgeCap = 2
    MayLower = TRUE
    MayReturn = TRUE
    MidScan = TRUE
    FinalAhead = FALSE
    Genesis <- MCGenesis
    Bound <- MCBound
SPECIFICATION Spec
CHECK_DEADLOCK FALSE
INVARIANTS
    TrackedIsStored
PROPERTIES
    KnownSlotsReplaced
