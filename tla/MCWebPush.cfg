SPECIFICATION Spec
CONSTANTS
    Users = {u1}
    Endpoints = {e1, e2}
    Notes = {n1, n2}
    Senders = {s1}
    None = none
    Enabled = TRUE
    MaxCrashes = 1
INVARIANTS
    TypeOK
PROPERTIES
    OnlyDeadEndpointsDropped
    EveryDeviceIsTried
