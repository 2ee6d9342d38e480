SPECIFICATION Spec
CONSTANTS
    Perm = {p1, p2}
    Wild = Wild
    Worker = {w1, w2}
    TTL = 2
    Latency = 0
    MaxTime = 3
    Failing = FALSE
    NoPerm = NoPerm
SYMMETRY Symmetry
INVARIANT FiveMinutes
