SPECIFICATION FairSpec
CONSTANTS
    None = None
    b1 = b1
    b2 = b2
    u = u
    d = d
    Op <- MCOp
    Kind <- MCKind
    Slot = {"s"}
    SlotOf <- MCSlotOf
    Body = {"x", "y"}
    BodyOf <- MCBodyOf
    TokenLimit = 2
    JournalFaults = 1
    MaxToken = 2
    MaxEpoch = 3
    CanExpire = TRUE
CHECK_DEADLOCK FALSE
INVARIANTS JournalSound AppliedStaysTrue
PROPERTIES WriteAhead OnlySettledDropped RecoverySettles
