CONSTANTS
    Functions <- SiblingIfs
    HwEventIdNum = 2
    MaxRunNum = 12
    MaxReuseNum = 20
    Trips = 3
    Executed <- SiblingIfs
SPECIFICATION SpecSystem
INVARIANTS Ordered
CHECK_DEADLOCK FALSE
