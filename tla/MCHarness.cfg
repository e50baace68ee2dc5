SPECIFICATION Spec
CONSTANTS
    NPhases = 1
    PerPhase = 2
    PublishAt = 2
    NSamples = 1
    NStable = 1
    NFaults = 2
    SenderDies = TRUE
CHECK_DEADLOCK FALSE
INVARIANT ReportIsTrue
PROPERTY RunEnds
