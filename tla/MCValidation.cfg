SPECIFICATION Spec
CHECK_DEADLOCK FALSE
CONSTANTS
    Malformed = Malformed
    MaxActivities = 4
    MaxTransfers = 6
    MaxHorizon = 5
    Inputs <- ValidationInputs
    Times = {0, 1, 2, 3, 4, 5}
INVARIANTS
    TypeOK
    FrontierIsExact
    CycleVerdictIsJust
    InfeasibleVerdictIsJust
    EarliestScheduleIsAttained
PROPERTY ImplementsContract
