SPECIFICATION TransportSpec
CONSTANTS
    \* BlobUpload
    Modes = {"put", "stream"}
    PartSize = 2
    Mib = 2
    MaxParts = 3
    MaxPartSize = 4
    Window = 2
    Budget = 4
    MaxUploadRetries = 1
    MaxData = 13
    \* Downloads
    Workers = {w1, w2}
    Sources = {1, 2, 3, 4}
    SourceSize <- Sizes
    BytePermits = 2
    FetchWindow = 2
    ChannelCap = 1
    \* RangedRead
    Parts = {1, 2, 3}
    MaxVersion = 3
    ReadWindow = 2
    Tokens = {1, 2}
    \* PackBlocks
    Loaders = {a, b, c}
    MaxBlock = 2
    MaxFaults = 2
    \* SearchBatch
    Verifiers = {v1, v2}
    MaxCandidates = 5
    BatchDocuments = 4
    ChannelRoom = 1
    Kinds <- SomeKinds
INVARIANTS
    UploadsSound
    DownloadsSound
    OneVersion
    BlocksSound
    OutcomeIsTrue
PROPERTIES
    CorruptNotWritten
    EveryCallEnds
CHECK_DEADLOCK FALSE
