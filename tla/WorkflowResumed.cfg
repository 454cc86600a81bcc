SPECIFICATION Spec
CONSTANTS
    Top <- MCTop
    Branches <- MCBranches
    Steps <- MCSteps
    Checks <- MCChecks
    Gates = {"gate"}
    SoftChecks = {}
    Retries = 1
    Workers <- MCWorkers
    MaxRuns = 1
    None = None
INVARIANTS
    ReportFull
CHECK_DEADLOCK FALSE
