SPECIFICATION Spec
CONSTANTS
    Schedules = {s1}
    Workers = {w1, w2}
    None = None
    MaxRetries = 1
    MaxCrashes = 0
    Touched = {}
    Faults = {}
    PromptClaims = TRUE
CHECK_DEADLOCK FALSE
PROPERTIES
    CancelIsFinal
