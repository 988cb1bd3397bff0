SPECIFICATION AuditSpec
CONSTANTS
    Logins = {l1}
    Tokens = {t1, t2, t3}
    Calls = {c1}
    AccessTtl = 1
    BlacklistTtl = 1
    Faults = {}
    NoToken = NoToken
    NoLogin = NoLogin
INVARIANTS
    LogoutEndsLogin
