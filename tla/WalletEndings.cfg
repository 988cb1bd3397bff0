SPECIFICATION FairSpec
CONSTANTS
    Users = {u1}
    Calls = {c1, c2, c3}
    NoJob = NoJob
    TopUpAmounts <- MCTopUpAmounts
    MinTopUp <- MCMinTopUp
    Files <- MCFiles
    MaxAudioSize <- MCMaxAudioSize
    BytesPerSecond <- MCBytesPerSecond
    NoDuration = NoDuration
    CostPerSecond <- MCCostPerSecond
    MaxBalance <- MCMaxBalance
    Faults <- TryFaults
INVARIANTS
    FailedNotCharged
PROPERTIES
    RequestsSettle
