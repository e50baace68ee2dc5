CONSTANTS
    None = None
    Run = {r1, r2, r3}
    Pids = {p1, p2}
    Seeds = {17, 29}
    Quota <- MCQuota
    Worlds <- MCWorlds
    Changes <- MCChanges
    ProcFS = TRUE
    Root = FALSE
SPECIFICATION Spec
SYMMETRY MCSymmetry
CHECK_DEADLOCK FALSE
INVARIANTS StagingInv OutputIsEarned
PROPERTY OutputStays
