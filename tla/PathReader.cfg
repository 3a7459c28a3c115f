SPECIFICATION ReaderSpec
CHECK_DEADLOCK FALSE
CONSTANTS
    Inodes = {i1, i2}
    Nothing = Nothing
    MaxCells = 2
    MaxChanges = 2
INVARIANTS
    OutcomeWasTrue
    UndisturbedReadIsFaithful
    DescriptorIsClosed
PROPERTY CallReturns
