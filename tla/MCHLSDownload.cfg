SPECIFICATION FairSpec
CONSTANTS
    Timestamps <- Broadcast
    DayLength = 6
    ChunkLength = 3
    SegmentLength = 2
    MaxDepth = 2
    MaxParallel = 2
    MaxAttempts = 3
    Faults = {"playlist", "temporary", "permanent", "cancel", "disk", "empty"}
CHECK_DEADLOCK FALSE
INVARIANTS
    TypeOK
    NothingLeftRunning
PROPERTIES
    DownloadEnds
    ImplementsDownload
