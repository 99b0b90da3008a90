\* Every plan of a few hundred choices; three of them driven, in both modes,
\* with any two mishaps of any kind.
CONSTANTS
    Plans <- MCPlans
    Provisioned <- MCProvisioned
    Topologies = {"push", "callback"}
    MaxAttempts = 3
    Restarts = 2
    Budget = 2
    FetchTries = 3
    MaxMishaps = 2
SPECIFICATION Spec
INVARIANTS
    TypeOK
    ReadyIsEarned
    KeyRetiredOnlyWhenRevoked
    PlanIsNotWithheld
    PhasesInOrder
PROPERTIES
    NoOldVerdict
    GoneMeansUnfinished
    KeepsInstallContract
    DrivesEnd
CHECK_DEADLOCK FALSE
