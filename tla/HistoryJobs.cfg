SPECIFICATION Spec
CONSTANTS
    Jobs = {j1, j2}
    Names = {nightly, smoke}
    Scores = {1, 2}
    Times = {0, 2}
    NoScore = NoScore
    NoTrend = NoTrend
    MaxRuns = 2
    MaxAge = 1
    MaxRecords = 3
    Plans <- MCPlans
    Absent = Absent
    Torn = Torn
SYMMETRY HistorySymmetry
INVARIANTS
    StoreSound
PROPERTIES
    SavesKeep
    ImplementsLedger
CHECK_DEADLOCK FALSE
