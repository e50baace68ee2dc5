CONSTANTS
    None = None
    Workers = {w1, w2}
    Requests <- MCRequests
    QueueDepth = 1
    MaxTasks = 2
    MaxTrace = 9
    Gens = {1, 2}
    GraphCodes = {5, 7}
    MaxCrash = 2
SPECIFICATION FairSpec
CHECK_DEADLOCK FALSE
INVARIANT TaskInv
PROPERTIES TaskSteps TasksEnd
