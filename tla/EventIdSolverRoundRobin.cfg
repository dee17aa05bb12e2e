SPECIFICATION Spec
CONSTANTS
    MaxNodes = 5
    MaxPairs = 5
    MaxFrq = 1
    Kinds <- PinnedKinds
    HwEventIdNum = 3
    RoundRobin = TRUE
    ReservedIds = {0}
INVARIANTS ShrinkSucceeds ProperIds ReservedNotAssigned
CONSTRAINT PinnedFirst
CHECK_DEADLOCK FALSE
