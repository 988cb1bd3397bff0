SPECIFICATION ReportsSpec
CONSTANTS
    Users = {u1}
    Calls = {c1, c2}
    Dashboards = {d1}
    NoUser = NoUser
    LastDay = 1
    NoJob = NoJob
    TopUpAmounts <- DayTopUpAmounts
    MinTopUp <- DayMinTopUp
    Files <- DayFiles
    MaxAudioSize <- DayMaxAudioSize
    BytesPerSecond <- DayBytesPerSecond
    NoDuration = NoDuration
    CostPerSecond <- DayCostPerSecond
    MaxBalance <- DayMaxBalance
    Faults <- AllFaults
SYMMETRY CallSymmetry
INVARIANTS
    DashboardFresh
    TimeTellsDuration
    CostsCoverDebits
    TotalCoversBalance
    AnsweredIsOnRecord
