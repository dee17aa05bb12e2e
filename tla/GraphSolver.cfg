CONSTANTS
    CorePipe <- TwoCorePipes
    PipeS = "S"
    PipeAll = "ALL"
    LastIndex = 4
    Pairs <- ChainPairs
    MaxCopies = 1
    Queries <- ChainQueries
SPECIFICATION FairSpec
INVARIANTS PathIsReal NoneIsReal ResultIsLeast
PROPERTY SearchEnds
CHECK_DEADLOCK FALSE
