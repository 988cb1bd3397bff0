SPECIFICATION AuditSpec
CONSTANTS
    Users = {u1}
    Keys = {k1}
    Calls = {c1, c2}
    RateLimitMax = 3
    CacheTtl = 2
    WindowTtl = 2
    Faults = {}
    NoUser = NoUser
    NoKey = NoKey
INVARIANTS
    RevokedRejected
