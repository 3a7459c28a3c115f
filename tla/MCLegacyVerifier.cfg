SPECIFICATION Spec
CHECK_DEADLOCK FALSE
CONSTANTS
    ManifestName = 0
    Site = 3
    Html = {1}
    HtmlLike = {1, 2}
    WrongType = WrongType
    MaxFile = 3
    MaxTotal = 4
    MaxManifest = 2
    FileCount = 2
    HtmlCount = 1
    JpegCounts <- OneJpeg
    MarkCounts <- OneMark
    Starts <- LegacyStarts
    Cells <- LegacyCells
    Drafts <- LegacyDrafts
    MaxChanges = 2
INVARIANTS
    BudgetHolds
    PassIsTrueOfTheManifestsBytes
    UndisturbedVerdictIsRight
    
