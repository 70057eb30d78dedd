SPECIFICATION FairSpec
CONSTANTS
    Recordings = {u1, s1}
    Scheduled = {s1}
    Programs = {p1, p2}
    ProgramOf <- OwnPrograms
    Requests = {q1}
    None = None
    HasFFmpeg = FALSE
    KeysExpire = TRUE
    MaxCrashes = 0
    Faults = {"media"}
    u1 = u1
    u2 = u2
    s1 = s1
    p1 = p1
    p2 = p2
INVARIANTS
    CompletedIsServed
PROPERTIES
    RecordingEnds
CHECK_DEADLOCK FALSE
