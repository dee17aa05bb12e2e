CONSTANTS
    Functions <- RunFunctions
    HwEventIdNum = 2
    MaxRunNum = 12
    MaxReuseNum = 20
    Trips = 3
    Executed <- RunFunctions
SPECIFICATION SpecSystem
INVARIANTS Ordered NoStuck FlagsBalanced
CHECK_DEADLOCK FALSE
