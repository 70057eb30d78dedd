SPECIFICATION Spec
CONSTANTS
    MaxBuild = 2
    Urls = {page, offline}
    Pages = {page}
    Resources = {}
    OFFLINE_URL = offline
    Recordings = {rec}
    Fetches = {f1}
    Saves = {s1}
    None = none
    MaxTroubles = 1
    Size = 3
    Offsets = {0, 1, 2, 3, 4}
INVARIANTS
    TypeOK
    OfflinePageShown
    PromisesKept
    OldCachesGone
    RangeLikeServer
PROPERTIES
    SaveIsAnswered
    NewBuildTakesOver
