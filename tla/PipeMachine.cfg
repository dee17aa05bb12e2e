CONSTANTS
    A = A
    B = B
    Pipes = {A, B}
    EventIds = {0}
    Memory = {1}
    Length = 5
SPECIFICATION MCSpec
INVARIANTS TypeOK OrderedWhenSynchronised RunsWhenSequential BalancesWhenBalanced
CHECK_DEADLOCK FALSE
