SPECIFICATION Spec
CONSTANTS
    Logins = {l1}
    Tokens = {t1, t2, t3}
    Calls = {c1, c2}
    AccessTtl = 3
    BlacklistTtl = 2
    Faults <- AllButStoreSession
    NoToken = NoToken
    NoLogin = NoLogin
SYMMETRY Symmetry
CONSTRAINT PairsOrEntries
INVARIANTS
    TypeOK
    BlacklistOutlivesToken
    LoginSurvives
