SPECIFICATION Spec
CONSTANTS
    Perm = {p1}
    Wild = Wild
    Worker = {w1, w2}
    TTL = 1
    Latency = 1
    MaxTime = 2
    Failing = TRUE
    NoPerm = NoPerm
SYMMETRY Symmetry
INVARIANTS TypeOK StaleOnlyByOverlap ExpiryOnlyCutOff
PROPERTIES ImplementsChecks
