CONSTANTS
    Keys = {1}
    Bodies = {x, y}
    Undecodable = {}
    None = None
    Indexers = {a, b}
    DocCap = 2
    CountTarget = 1
    DeadFraction = 1
    PurgeModes = {FALSE}
    FirstRoots = {"absent"}
    MaxMutations = 2
    MaxForced = 1
    MaxFaults = 0
SPECIFICATION Spec
SYMMETRY Symmetry
INVARIANT PacksPresent
