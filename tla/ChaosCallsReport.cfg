SPECIFICATION FairSpec
CONSTANTS
    NoLimit = NoLimit
    Workers = {w1, w2}
    MaxInjections = 1
    MaxCost = NoLimit
    HasDuration = FALSE
    HasRate = TRUE
    RateNum = 0
    RateDen = 1
    WindowSize = 2
    MinCalls = 2
    MaxRecords = 1
    JudgeMayFail = TRUE
    MaxCalls = 2
    Costs = {}
    MaxReports = 1
INVARIANTS
    ReportConsistent
PROPERTIES
    Drains
