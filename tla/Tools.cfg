SPECIFICATION Spec
CONSTANTS
    NoValue = NoValue
    NoReport = NoReport
    Unnamed = Unnamed
    Everywhere = Everywhere
    Anonymous = Anonymous
    Padded = Padded
    Documents <- MCDocuments
    LoggedRuns <- MCLoggedRuns
    StageRuns <- MCStageRuns
    Questions <- MCQuestions
    ScopePairs <- MCScopePairs
    Stops <- MCStops
    RunJobs <- MCRunJobs
    MaxRunCalls = 2
    FuzzJobs <- MCFuzzJobs
    Severities = {0, 1, 2, 3, 4, 5}
    DriftRuns = 3
    Cooldown = 60
    Months <- MCMonths
    DayHours = 3
    HourMinutes = 2
    WeekDays = 3
    Horizon = 60
    Expressions <- MCExpressions
    Methods = {1, 2, 3}
    Surfaces <- MCSurfaces
    MaxPatches = 3
    MaxSessions = 2
    TopologyJobs <- MCTopologyJobs
    Agents = {"planner"}
    MaxTrackers = 3
INVARIANTS
    PatchesRestored
    OwnTopology
    NothingSkipped
    BlameIsLocal
    BreakingPointExact
    DriftReported
    GreenIsEarned
    ScoreIsMeaningful
    VerdictsAgree
    ScopesCombine
    StopShown
    DocumentKept
CHECK_DEADLOCK FALSE
