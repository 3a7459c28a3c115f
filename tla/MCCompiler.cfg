SPECIFICATION Spec
CHECK_DEADLOCK FALSE
CONSTANTS
    Malformed = Malformed
    None = None
    MaxActivities = 3
    MaxTransfers = 3
    MaxHorizon = 3
    Inputs <- CompilerInputs
    Times <- CompilerTimes
INVARIANTS
    GraphMeansTheItinerary
    EdgesPointForward
    EdgeOrderIsDetermined
