CONSTANTS
    Keys = {1, 2}
    Bodies = {x}
    Undecodable = {}
    None = None
    Indexers = {a, b}
    DocCap = 2
    CountTarget = 1
    DeadFraction = 1
    PurgeModes = {FALSE}
    FirstRoots = {"absent", "unreadable"}
    MaxMutations = 1
    MaxForced = 0
    MaxFaults = 0
SPECIFICATION Spec
SYMMETRY Symmetry
INVARIANTS RootInv RootComplete UniqueLive
PROPERTIES DeadStaysDead ImplementsSnapshot

