SPECIFICATION Spec
CONSTANTS
    ann = ann
    bob = bob
    tab = tab
    f1 = f1
    f2 = f2
    c1 = c1
    c2 = c2
    Nothing = Nothing
    Users <- MCUsers
    Tabs <- MCTabs
    UserOf <- MCUserOf
    Flows <- MCFlows
    Calls <- MCCalls
    Life = 2
    Interval = 1
    SlowInterval = 2
SYMMETRY MCSymmetry
INVARIANTS
    TokenIsTheStarters
    LoginIsTheTokens
PROPERTIES
    GivenUpStaysGivenUp
    PollsAreSpaced
    CardSpeaksOfItsCode
