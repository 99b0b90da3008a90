SPECIFICATION Spec
CONSTANTS
    a = a
    b = b
    Servers <- MCServers
    Kinds <- Clouds
    Retries = 1
    Grace = 2
    MaxLag = 1
    MaxMishaps = 4
INVARIANTS
    HandleCoversAll
    NothingLeftBehind
    AbsenceIsTrue
PROPERTIES
    OnlyOwnResourcesGo
CHECK_DEADLOCK FALSE
