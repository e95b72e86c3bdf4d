SPECIFICATION UploadSpec
CONSTANTS
    Modes = {"stream"}
    PartSize = 2
    Mib = 2
    MaxParts = 3
    MaxPartSize = 4
    Window = 2
    Budget = 4
    MaxUploadRetries = 1
    MaxData = 13
INVARIANTS
    FailureLeavesNoBlob
CHECK_DEADLOCK FALSE
