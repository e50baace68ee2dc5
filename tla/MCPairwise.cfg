SPECIFICATION Spec
CONSTANTS
    MaxFaults = 2
    MaxRounds = 1
CHECK_DEADLOCK FALSE
INVARIANTS EarnedPass CleanedUp
PROPERTIES TakenDownLast RunEnds
