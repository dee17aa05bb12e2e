CONSTANTS
    NumBlocks = 3
    NumSubs = 1
    Mix = FALSE
    Limited = {}
    MaxParticipants = 1024
    FirstTrips = 2
    OtherTrips = 1
    Trips <- MCTrips
SPECIFICATION MCSpec
INVARIANTS InTurn TurnNotLost Exclusive NeverStuck ArrivalOrder
PROPERTY AllReturn
