CONSTANTS
    NumBlocks = 2
    NumSubs = 2
    Mix = TRUE
    Limited = {"ordered"}
    MaxParticipants = 1024
    FirstTrips = 0
    OtherTrips = 0
    Trips <- MCTrips
SPECIFICATION MCSpec
PROPERTY AllReturn
CHECK_DEADLOCK FALSE
