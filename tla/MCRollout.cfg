SPECIFICATION SysSpec
CONSTANTS
    Boot = boot
    o1 = o1
    o2 = o2
    Op <- MCOps
    Gen = {1, 2}
    Deadline = {1, 2, 3}
    Batch = 2
    InputLimit = 2
    MaxWindow = 2
    MaxEpoch = 3
    MaxCrash = 1
    MaxFaults = 1
    None = None
SYMMETRY MCSymmetry
CONSTRAINT MCBound
CHECK_DEADLOCK FALSE
INVARIANT RolloutInv
PROPERTY BindingMovesDrained
