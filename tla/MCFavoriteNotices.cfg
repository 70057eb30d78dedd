SPECIFICATION Spec
CONSTANTS
    Users = {u1}
    Programs = {p1}
    Days = {mon}
    NoDay = noday
    Requests = {r1, r2}
    None = none
    Interval = 3
    DayLength = 10
    Labels = {3, 6, 8, 12}
    MaxRow = 2
    MaxClock = 14
    MaxErrors = 1
    MaxRestarts = 1
SYMMETRY Interchangeable
INVARIANTS
    TypeOK
    StartsAnnounced
    AnnouncedOnce
CHECK_DEADLOCK FALSE
