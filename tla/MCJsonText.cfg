SPECIFICATION Spec
CHECK_DEADLOCK FALSE
CONSTANTS
    MaxDepth = 3
    MaxDigits = 2
    Largest = 99
    Numerals <- SampleNumerals
    Keys = {"k", "l"}
    MaxLength = 16
INVARIANTS
    ScanFollowsParser
    ParserNestsWithinLimit
    ScanRefusesOnlyDepth
    DecodedTextIsClean
