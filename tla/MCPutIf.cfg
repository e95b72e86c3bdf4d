SPECIFICATION PutSpec
CONSTANTS
    Writers = {a, b}
    NoWriter = NoWriter
    MaxPutTries = 2
INVARIANTS
    FalseMeansLost
CHECK_DEADLOCK FALSE
