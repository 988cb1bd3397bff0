SPECIFICATION DeviceSpec
CONSTANTS
    Logins = {d1, d2}
    Tokens = {t1, t2, t3}
    Calls = {d1, d2}
    AccessTtl = 1
    BlacklistTtl = 1
    Faults = {"verify", "updateLastSeen", "delRefresh"}
    NoToken = NoToken
    NoLogin = NoLogin
INVARIANTS
    TokensKept
    ClearedMeansGone
PROPERTIES
    SignedOutForCause
    GetsThrough
