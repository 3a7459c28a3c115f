SPECIFICATION Spec
CHECK_DEADLOCK FALSE
SYMMETRY Symmetry
CONSTANTS
    Runs = {r1, r2}
    Programs = {0, 1, 2}
    Fixtures = {0, 1}
    Behaviour <- Library
    Last = 3
    Accepted = Accepted
    Unrecorded = Unrecorded
    Absent = Absent
    Empty = Empty
    Torn = Torn
    Foreign = Foreign
    MaxEdits = 2
INVARIANTS
    OverlappingRunsAgree
    MatrixShowsTheContract
PROPERTY UndisturbedVerdictIsRight
