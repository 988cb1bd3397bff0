SPECIFICATION Spec
CONSTANTS
    Spellings <- OneSpelling
    Codes = {k1, k2}
    Calls = {c1, c2}
    OtpTtl = 2
    Faults = {}
    NoCode = NoCode
    NoPhone = NoPhone
INVARIANTS
    OneTimeCode
