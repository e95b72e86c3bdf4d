SPECIFICATION CountSpec
CONSTANTS
    Newline = 0
    GramLen = 2
    LineBlock = 2
    PairWeights = {}
    Bodies = {}
    MaxDocuments = 2
    BlockBytes = 3
    PackBytes = 4
    RangeBytes = 5
    RegionGap = 1
    RegionMax = 2
    LargeBytes = 2
    WindowBytes = 4
    WindowDocuments = 2
    Asked = {}
    Segments <- TwoInLine
    PatternSets <- OneWord
    Details = {"count"}
    MaxGrams = 1
    Options <- FirstLine
    FileChunk = 2
    WindowMax = 2
INVARIANTS
    FirstCountAgrees
CHECK_DEADLOCK FALSE
