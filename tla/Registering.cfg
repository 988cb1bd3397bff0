SPECIFICATION FairSpec
CONSTANTS
    Spellings <- MCSpellings
    Codes = {k1}
    Calls = {c1, c2}
    OtpTtl = 2
    Faults <- AllButCreateWallet
    NoCode = NoCode
    NoPhone = NoPhone
INVARIANTS
    TypeOK
    OneWalletCreator
    WalletlessHasCreator
    CodeStays
PROPERTIES
    UserGetsWallet
