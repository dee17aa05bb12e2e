CONSTANTS
    Functions <- SolvedFunctions
    HwEventIdNum = 2
    MaxRunNum = 12
    MaxReuseNum = 20
SPECIFICATION SpecSolver
INVARIANTS TypeOK NeverAborts NeverGivesUp Covered IdsApart
    AnswersAfresh NothingMissed
CHECK_DEADLOCK FALSE
