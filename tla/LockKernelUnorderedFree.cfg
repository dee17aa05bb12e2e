CONSTANTS
    NumBlocks = 2
    NumSubs = 2
    Mix = TRUE
    Limited = {}
    MaxParticipants = 1024
    FirstTrips = 1
    OtherTrips = 0
    Trips <- MCTrips
SPECIFICATION MCSpec
INVARIANT Exclusive
