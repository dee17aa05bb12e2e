SPECIFICATION Spec
CONSTANTS
    MaxNodes = 4
    MaxPairs = 4
    MaxFrq = 2
    Kinds <- MixedKinds
    HwEventIdNum = 3
    RoundRobin = FALSE
    ReservedIds = {}
INVARIANTS
    TypeOK
    RemoveNodeAsserts
    LazyCheckSound
    ShrinkKeepsColorable
    IdsInHardwareRange
PROPERTIES UndoRestores Transactional
CHECK_DEADLOCK FALSE
