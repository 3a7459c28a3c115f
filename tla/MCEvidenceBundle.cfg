SPECIFICATION Spec
CHECK_DEADLOCK FALSE
CONSTANTS
    Runs = {r1, r2}
    Last = 3
    Manifest = 2
    Raw = {3}
    Contents = {0, 1, 2}
    Package = {core, cli}
    Metadata = {metadata}
    Record = record
    Pinned = Pinned
    Nothing = Nothing
    Wheels <- BuiltWheels
    Environments <- FoundEnvironments
    Behaviour <- Observed
    core = core
    cli = cli
    metadata = metadata
    record = record
    hook = hook
    Absent = Absent
    Torn = Torn
    Foreign = Foreign
    MaxEdits = 2
INVARIANTS
    TypeOK
    EvidenceIsOfItsSubject
    PublishedIsWhole
    PassedMeansVerifiable
PROPERTY
    NothingUncommittedIsLost
