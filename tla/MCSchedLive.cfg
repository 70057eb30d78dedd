SPECIFICATION FairSpec
CONSTANTS
    Schedules = {s1, s2}
    Workers = {w1, w2, w3, w4}
    None = None
    MaxRetries = 1
    MaxCrashes = 0
    Touched = {}
    Faults = {"media"}
    PromptClaims = TRUE
CHECK_DEADLOCK FALSE
INVARIANTS
    FailedMeansExhausted
PROPERTIES
    EveryScheduleSettles
    RecurringContinues
    OutcomeIsReported
