CONSTANTS
    Keys = {1, 2}
    Bodies = {x, y}
    Undecodable = {y}
    None = None
    Indexers = {a}
    DocCap = 2
    CountTarget = 1
    DeadFraction = 1
    PurgeModes = {TRUE, FALSE}
    FirstRoots = {"absent", "unreadable"}
    MaxMutations = 2
    MaxForced = 0
    MaxFaults = 1
SPECIFICATION FairSpec
INVARIANTS TypeOK PacksPresent IndexedBodyIsListedBody NothingLeftBehind UpToDateIsTrue
PROPERTIES ImplementsSnapshot Converges
