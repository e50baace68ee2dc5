SPECIFICATION Spec
CONSTANTS
    Counts <- MCCounts
    Initial = 2
    Batch = 1
    Repeats = 1
    PhaseTime = 2
    SampleTime = 1
    Interval = 1
    QueueMax = 1
    DrainMax = 1
    NFaults = 2
    NCycles = 2
    Attempts = 2
INVARIANTS QualInv AcceptedWhole ExitZeroIsFresh
PROPERTY RunEnds
