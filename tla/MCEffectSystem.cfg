SPECIFICATION FairSysSpec
CONSTANTS
    None = None
    b1 = b1
    b2 = b2
    w1 = w1
    w2 = w2
    Op <- MCBaselines
    Kind <- MCKind
    Slot = {"s"}
    SlotOf <- MCSlotOf
    Body = {"x", "y"}
    BodyOf <- MCBodyOf
    TokenLimit = 2
    JournalFaults = 0
    MaxToken = 2
    MaxEpoch = 2
    CanExpire = FALSE
    Worker = {w1, w2}
    MaxAttempts = 3
    MaxAckTries = 2
    Bounded = TRUE
CONSTRAINT MCBound
CHECK_DEADLOCK FALSE
INVARIANTS LedgerIsTrue AtMostOnce ActiveBankWhole
PROPERTIES ForgottenAfterCommit OutcomeIsFinal ClaimsEnd
