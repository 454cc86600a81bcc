SPECIFICATION Spec
CONSTANTS
    NoLimit = NoLimit
    Streams = {s1}
    MaxInjections = 1
    MaxCost = 1
    HasDuration = TRUE
    HasRate = TRUE
    RateNum = 0
    RateDen = 1
    WindowSize = 2
    MinCalls = 1
    MaxRecords = 2
    Async = FALSE
    Wrapped = FALSE
    AfterChunks = 1
    MaxChunks = 2
    Costs = {1}
INVARIANTS
    SourceClosed
