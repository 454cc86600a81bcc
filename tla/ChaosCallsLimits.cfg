SPECIFICATION Spec
CONSTANTS
    NoLimit = NoLimit
    Workers = {w1, w2, w3}
    MaxInjections = 2
    MaxCost = 2
    HasDuration = TRUE
    HasRate = TRUE
    RateNum = 1
    RateDen = 2
    WindowSize = 2
    MinCalls = 2
    MaxRecords = 2
    JudgeMayFail = FALSE
    MaxCalls = 3
    Costs = {1}
    MaxReports = 0
SYMMETRY WorkerSymmetry
INVARIANTS
    TypeOK
    CountsExact
    EvidenceSound
    AbortSound
PROPERTIES
    StopIsFinal
    ImplementsBudget
