SPECIFICATION DecodeSpec
CHECK_DEADLOCK FALSE
CONSTANTS
    Malformed = Malformed
    WrongType = WrongType
    MaxActivities = 3
    MaxTransfers = 3
    MaxHorizon = 3
    MaxInputBytes = 1
    Data <- CodecData
INVARIANTS
    AcceptedDocumentIsCanonical
    RepresentationDoesNotMatter
