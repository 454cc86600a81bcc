SPECIFICATION FairSpec
CONSTANTS
    Top <- MCTop
    Branches <- MCBranches
    Steps <- MCSteps
    Checks <- MCChecks
    Gates = {"gate"}
    SoftChecks = {"probe"}
    Retries = 1
    Workers <- MCWorkers
    MaxRuns = 2
    None = None
INVARIANTS
    RunsInOrder
    StatusTrue
    FreshReportFull
PROPERTIES
    RunEnds
CHECK_DEADLOCK FALSE
