SPECIFICATION SerialSpec
CONSTANTS
    Users = {u1, u2}
    Calls = {c1, c2, c3}
    NoJob = NoJob
    TopUpAmounts <- MCTopUpAmounts
    MinTopUp <- MCMinTopUp
    Files <- MCFiles
    MaxAudioSize <- MCMaxAudioSize
    BytesPerSecond <- MCBytesPerSecond
    NoDuration = NoDuration
    CostPerSecond <- MCCostPerSecond
    MaxBalance <- MCMaxBalance
    Faults <- AllFaults
SYMMETRY CallSymmetry
INVARIANTS
    BalanceIsChargedSum
PROPERTIES
    ImplementsAtomicLedger
