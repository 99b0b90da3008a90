SPECIFICATION Spec
CONSTANTS
    home = home
    cafe = cafe
    c1 = c1
    c2 = c2
    Nets <- MCNets
    Callers <- MCCallers
    Kinds <- Clouds
    MaxSaves = 2
    MaxTrouble = 1
PROPERTIES
    SteadyStaysIn
    NarrowsOnlyOnConsent
    AnswerIsTrue
SYMMETRY MCSymmetry
VIEW MCView
