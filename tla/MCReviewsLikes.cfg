SPECIFICATION Spec
CONSTANTS
    Users = {u1, u2}
    Posts = {p1}
    Comments = {c1}
    Tags = {t1}
    Stations = {s1}
    Titles = {x1}
    Casts = {nocast}
    NoCast = nocast
    Requests = {r1, r2}
    None = none
    MaxTags = 1
    MaxRows = 1
    MayFail = FALSE
    MaxLikes = 2
SYMMETRY Interchangeable
INVARIANT
    LikesCountIsLikes
CHECK_DEADLOCK FALSE
