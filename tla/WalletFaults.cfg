SPECIFICATION Spec
CONSTANTS
    Users = {u1, u2}
    Calls = {c1, c2, c3}
    NoJob = NoJob
    TopUpAmounts <- MCTopUpAmounts
    MinTopUp <- MCMinTopUp
    Files <- MCFiles
    MaxAudioSize <- MCMaxAudioSize
    BytesPerSecond <- MCBytesPerSecond
    NoDuration = NoDuration
    CostPerSecond <- MCCostPerSecond
    MaxBalance <- MCMaxBalance
    Faults <- AllFaults
SYMMETRY Symmetry
INVARIANTS
    TypeOK
    BalanceInRange
    BalanceExplained
    RowsChain
    SucceedMeansSettled
    NeverChargedWithoutTranscript
    NoMoneyFromNothing
