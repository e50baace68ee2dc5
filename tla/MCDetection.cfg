SPECIFICATION Spec
CONSTANTS
    Op = {o1, o2}
    Gen = {1}
    Deadline = {1}
    Batch = 2
    InputLimit = 2
    MaxWindow = 4
    MaxEpoch = 2
    MaxCrash = 2
    None = None
CHECK_DEADLOCK FALSE
INVARIANTS RouteSound OneEvent NothingLost
