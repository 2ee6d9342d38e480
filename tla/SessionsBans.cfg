SPECIFICATION Spec
CONSTANTS
    User = {u1}
    Token = {t1, t2}
    Worker = {w1}
    Role = {"user", "admin", "owner"}
    NoToken = NoToken
    NoUser = NoUser
    NoRole = NoRole
    AccessTTL = 1
    RefreshTTL = 2
    Latency = 1
    MaxTime = 2
SYMMETRY Symmetry
INVARIANTS TypeOK BanBoundsAccess StaleRoleBound
PROPERTIES BanLiftedOnlyByRace
