SPECIFICATION Spec
CONSTANTS
    Recordings = {u1, s1}
    Scheduled = {s1}
    Programs = {p1, p2}
    ProgramOf <- OwnPrograms
    Requests = {q1, q2}
    None = None
    HasFFmpeg = TRUE
    KeysExpire = TRUE
    MaxCrashes = 1
    Faults = {"redis", "media"}
    u1 = u1
    u2 = u2
    s1 = s1
    p1 = p1
    p2 = p2
INVARIANTS
    TypeOK
    CompletedIsServed
    NoTempLeft
    DeleteLeavesNoFile
PROPERTIES
    StopSticks
SYMMETRY Symmetry
CHECK_DEADLOCK FALSE
