SPECIFICATION Spec
CONSTANTS
    NoValue = NoValue
    NoReport = NoReport
    Unnamed = Unnamed
    Everywhere = Everywhere
    Anonymous = Anonymous
    Padded = Padded
    Documents <- SmallDocuments
    LoggedRuns = {}
    StageRuns = {}
    Questions = {}
    ScopePairs = {}
    Stops = {}
    RunJobs = {}
    MaxRunCalls = 0
    FuzzJobs = {}
    Severities = {0}
    DriftRuns = 0
    Cooldown = 60
    Months <- MCMonths
    DayHours = 3
    HourMinutes = 2
    WeekDays = 3
    Horizon = 60
    Expressions = {}
    Methods = {1}
    Surfaces = {}
    MaxPatches = 0
    MaxSessions = 1
    TopologyJobs = {}
    Agents = {}
    MaxTrackers = 0
INVARIANTS
    AcceptedRuns
CHECK_DEADLOCK FALSE
