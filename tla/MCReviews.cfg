SPECIFICATION Spec
CONSTANTS
    Users = {u1, u2}
    Posts = {p1}
    Comments = {c1}
    Tags = {t1, t2}
    Stations = {s1, s2}
    Titles = {x1}
    Casts = {nocast}
    NoCast = nocast
    Requests = {r1, r2}
    None = none
    MaxTags = 1
    MaxRows = 2
    MayFail = TRUE
    MaxLikes = 1
SYMMETRY Interchangeable
INVARIANTS
    TypeOK
    CountersTrue
    TagsAreTheLastEdit
    ProgrammeOfPost
PROPERTY
    OnlyAuthorsChange
CHECK_DEADLOCK FALSE
