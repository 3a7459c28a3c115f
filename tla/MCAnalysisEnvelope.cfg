SPECIFICATION Spec
CHECK_DEADLOCK FALSE
CONSTANTS
    Malformed = Malformed
    Nobody = Nobody
    MaxActivities = 3
    MaxTransfers = 3
    MaxHorizon = 5
    Inputs <- EnvelopeInputs
    Times = {0, 1, 2, 3, 4, 5, 6, 7}
INVARIANTS
    TypeOK
    EnvelopeEnclosesEverySchedule
    RobustMeansEveryVector
    ChainExplainsTightestDeadline
PROPERTY ReportIsProduced
