SPECIFICATION CacheSpec
CONSTANTS
    Tasks = {a, b}
    CacheKeys = {2, 3}
    BodyLen <- Lens
    HeaderLen = 2
    CapBytes = 4
    Nobody = Nobody
    MaxStamp = 3
    MaxDamage = 0
    MaxCrashes = 1
INVARIANTS
    EntriesAccounted
CHECK_DEADLOCK FALSE
