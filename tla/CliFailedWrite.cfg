SPECIFICATION Spec
CHECK_DEADLOCK FALSE
CONSTANTS
    MaxInput = 3
    MaxPieces = 2
INVARIANT FailedWriteIsExitFive
