SPECIFICATION FairAuditSpec
CONSTANTS
    Users = {u1, u2}
    Keys = {k1}
    Calls = {c1, c2}
    RateLimitMax = 2
    CacheTtl = 2
    WindowTtl = 2
    Faults <- Operations
    NoUser = NoUser
    NoKey = NoKey
INVARIANTS
    TypeOK
    AtMostTwiceMax
PROPERTIES
    ImplementsKeyAuthority
    RevocationSettles
    CountersExpire
