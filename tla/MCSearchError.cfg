CONSTANTS
    Keys = {1, 2}
    Bodies = {x, y}
    Undecodable = {}
    None = None
    Indexers = {a}
    DocCap = 1
    CountTarget = 2
    DeadFraction = 2
    PurgeModes = {FALSE}
    FirstRoots = {"absent"}
    MaxMutations = 2
    MaxForced = 1
    MaxFaults = 0
    Matching = {x}
    MayBeCached = {TRUE, FALSE}
SPECIFICATION SearchSpec
INVARIANT NoOtherError
