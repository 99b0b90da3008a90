SPECIFICATION Spec
CONSTANTS
    r1 = r1
    r2 = r2
    r3 = r3
    k1 = k1
    k2 = k2
    NoRow = NoRow
    Requests <- MCRequests
    Keys <- MCKeys
    Servers = {1, 2}
    Rates = {2}
    Caps = {1, 2}
    MaxSpent = 1
    MaxSaves = 1
INVARIANTS
    KeyMeansOneServer
PROPERTIES
    LimitsBendOnlyToRaces
    CapBindsOnceCounted
SYMMETRY MCSymmetry
