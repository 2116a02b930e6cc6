CONSTANTS
    h1 = h1
    h2 = h2
    slot = slot
    a1 = a1
    b1 = b1
    a2 = a2
    Hash = {h1, h2}
    Slot = {slot}
    Block = {a1, b1, a2}
    NoBlock = NoBlock
    Cap = 1
    Depth = 2
    TagMode = FALSE
    SlotOf <- MCSlotOf
    NumOf <- MCNumOf
    Number <- MCNumber
    PendingLegs <- MCPendingLegs
    BlockLegs <- MCBlockLegs
SPECIFICATION Spec
INVARIANTS
    TypeOK
    NonceIndexExact
    TrackedOrBuried
    MinedIsFounded
PROPERTIES
    LifecycleSpec
    FirstSeenBlockKept
