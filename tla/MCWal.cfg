SPECIFICATION Spec
CONSTANTS
    HeaderBytes = 2
    RecordSizes <- MCSizes
    SegmentBytes = 7
    MaxBytes = 16
    MaxRecords = 4
    MaxAge = 1
    IOFaults = 0
    MaxSequence = 4
    MaxClock = 2
INVARIANT LogConsistent
PROPERTY ImplementsDurableLog
