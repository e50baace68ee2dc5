SPECIFICATION Spec
CONSTANTS
    None = None
    MaxPackets = 1
    MaxFlips = 2
    MaxLives = 2
    MaxHints = 1
    SlowPipeline = TRUE
    MaxWindow = 2
CHECK_DEADLOCK FALSE
INVARIANTS TelemetryInv Conserved
PROPERTY HintsOutlive
