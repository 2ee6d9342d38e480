SPECIFICATION Spec
CONSTANTS
    User = {u1, u2}
    Token = {t1, t2, t3}
    Worker = {w1, w2}
    Role = {"user", "owner"}
    NoToken = NoToken
    NoUser = NoUser
    NoRole = NoRole
    AccessTTL = 1
    RefreshTTL = 1
    Latency = 1
    MaxTime = 0
SYMMETRY Symmetry
INVARIANTS OneLivePerSession RotationChain BanBoundsIssue
PROPERTIES DeadSessionStaysDead LogoutAllMissesOnlyRotated ImplementsLogins
