SPECIFICATION Spec
CONSTANT MaxNum = 3
CONSTANT Unlimited = 13
CONSTANT Jobs <- MCJobs
INVARIANTS TypeOK NoOverwrite OutlineTold PlanComplete
PROPERTY RollBackExact
PROPERTY Terminates
