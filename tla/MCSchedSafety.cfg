SPECIFICATION Spec
CONSTANTS
    Schedules = {s1}
    Workers = {w1, w2, w3, w4}
    None = None
    MaxRetries = 2
    MaxCrashes = 1
    Touched = {w1, w2, w3, w4}
    Faults = {"db", "redis", "media"}
    PromptClaims = TRUE
CHECK_DEADLOCK FALSE
INVARIANTS
    TypeOK
    OneWorkerPerSchedule
    RetriesBounded
    OneRecordingPerSchedule
    RowMatchesRecording
PROPERTIES
    CancelSticks
    ImplementsLifecycle
