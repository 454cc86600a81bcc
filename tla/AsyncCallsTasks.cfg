SPECIFICATION AsyncFairSpec
CONSTANTS
    NoLimit = NoLimit
    Workers = {w1, w2}
    MaxInjections = 1
    MaxCost = NoLimit
    HasDuration = FALSE
    HasRate = FALSE
    RateNum = 1
    RateDen = 2
    WindowSize = 1
    MinCalls = 1
    MaxRecords = 1
    JudgeMayFail = FALSE
    MaxCalls = 2
    Costs = {}
    MaxReports = 0
    PoolSize = 2
INVARIANTS
    MergedOnce
    NoLateDispatch
PROPERTIES
    ImplementsCalls
    CancelUnwinds
