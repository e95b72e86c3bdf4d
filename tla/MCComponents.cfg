SPECIFICATION ComponentsSpec
CONSTANTS
    \* ObjectCache
    Tasks = {a, b}
    CacheKeys = {2, 3}
    BodyLen <- Lens
    HeaderLen = 2
    CapBytes = 4
    Nobody = Nobody
    MaxStamp = 3
    MaxDamage = 1
    MaxCrashes = 1
    \* SegmentCache
    Openers = {a, b}
    SegIds = {s, t}
    MaxTime = 2
    MaxDeaths = 1
    \* ConditionalPut
    Writers = {a, b}
    NoWriter = NoWriter
    MaxPutTries = 2
    \* Credentials
    Processes = {p, q}
    MaxEdits = 1
    MaxHours = 2
    Lifetime = 2
    \* WatchLoop
    MaxCycles = 4
    \* SearchCommand
    Searches = {p, q}
    Places <- TwoPlaces
    MaxHits = 1
    MaxBuilds = 2
    \* Grams, PackLayout
    Newline = 0
    GramLen = 2
    LineBlock = 2
    PairWeights <- SomeWeights
    Bodies <- SmallBodies
    MaxDocuments = 2
    BlockBytes = 3
    PackBytes = 4
    RangeBytes = 5
    RegionGap = 1
    RegionMax = 2
    LargeBytes = 2
    WindowBytes = 4
    WindowDocuments = 2
    Asked <- SmallAsked
    \* Candidates, RegionalSearch
    Segments <- AllTexts
    PatternSets <- AllPatterns
    Details = {"documents", "lines", "count", "full", "windows"}
    MaxGrams = 1
    Options <- SomeOptions
    FileChunk = 2
    WindowMax = 2
    \* ProofGraph
    ProofStates = {s0, s1, s2}
    Start = s0
    Dead = dead
    Symbols = {a, b}
    ProofMax = 2
    MaxWord = 4
    \* Decoding
    SourceBodies <- SomeSources
    MaxDepth = 3
    MaxMembers = 4
    MaxExpanded = 5
    \* PostingIndex
    PostingGrams = {1, 2}
    IdSpace = 4
    RunCap = 2
    MaxOpenRuns = 2
    DeltaIds = 2
    TermEntries = 1
    VerifyCells = 2
    MaxPushes = 4
    MaxRuns = 5
    MaxReads = 2
INVARIANTS
    CacheSound
    SegmentFilesSound
    NoLostUpdate
    
    
    
    PacksSound
    
    AnswersAgree
    ProofSound
    PostingsSound
    
PROPERTIES
    OnlyDamagedRemoved
    
    
    SearchedCovers
    RootGrows
CHECK_DEADLOCK FALSE
