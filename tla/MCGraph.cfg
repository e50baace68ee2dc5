CONSTANTS
    NoValue = NoValue
    Budgets <- MCBudgets
    Responses <- MCResponses
    Allowed = {"p1", "p2"}
    Path = {}
    MaxTools = 2
    MaxPeers = 2
SPECIFICATION FairRunSpec
CHECK_DEADLOCK FALSE
INVARIANTS GraphInv ArtifactIsEarned
PROPERTY EverythingEnds
