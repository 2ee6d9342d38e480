SPECIFICATION Spec
CONSTANTS
    Worker = {w1, w2}
    Limit <- MCLimit
    Window = 2
    DayLength = 2
    MaxBlind = 1
SYMMETRY Symmetry
INVARIANTS TypeOK PassesBounded NoExpiryOnlyCutOff ViewCountedOnce
