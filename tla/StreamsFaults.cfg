SPECIFICATION Spec
CONSTANTS
    NoLimit = NoLimit
    Streams = {s1, s2}
    MaxInjections = 1
    MaxCost = 1
    HasDuration = TRUE
    HasRate = TRUE
    RateNum = 0
    RateDen = 1
    WindowSize = 1
    MinCalls = 1
    MaxRecords = 2
    Async = TRUE
    Wrapped = TRUE
    AfterChunks = 1
    MaxChunks = 3
    Costs = {1}
SYMMETRY StreamSymmetry
INVARIANTS
    StreamAccounting
    ChunksExact
    SourceClosed
PROPERTIES
    NoDeliveryAfterStop
    ImplementsBudget
