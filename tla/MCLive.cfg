CONSTANTS
    p = p
    q = q
    slot = slot
    other = other
    Height = 5
    Reorgs = 0
    Fails = 1
    Crashes = 1
    Expiries = 0
    Gossips = 2
    Finals = 0
    Outages = 0
    Silent = 0
    Queue = 2
    Calm = 5
    Hash = {p, q}
    Slot = {slot, other}
    SlotOf <- MCPairSlots
    Block <- MCPairBlock
    NoBlock = NoBlock
    Cap = 2
    Depth = 2
    TagMode = FALSE
    RingSize = 4
    AncestorChunk = 2
    NoRef = NoRef
    Body <- MCPairBody
    TxsIn <- MCPairIn
    CallLegs <- MCPairCalls
    FoundLegs <- MCPairLegs
    Failing = {}
    Resume = TRUE
    AgeCap = 0
    MayLower = FALSE
    MayReturn = FALSE
    MidScan = TRUE
    FinalAhead = FALSE
    Genesis <- MCGenesis
    Bound <- MCBound
SPECIFICATION LiveSpec
CHECK_DEADLOCK FALSE
PROPERTIES
    PaymentsConfirmed
    RestoredEventually
