SPECIFICATION Spec
CONSTANTS
    Recordings = {u1, u2}
    Scheduled = {}
    Programs = {p1, p2}
    ProgramOf <- SameProgram
    Requests = {q1}
    None = None
    HasFFmpeg = TRUE
    KeysExpire = FALSE
    MaxCrashes = 0
    Faults = {}
    u1 = u1
    u2 = u2
    s1 = s1
    p1 = p1
    p2 = p2
INVARIANTS
    DuplicatesGetOwnPath
SYMMETRY Symmetry
CHECK_DEADLOCK FALSE
