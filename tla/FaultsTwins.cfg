SPECIFICATION Spec
CONSTANTS
    Workers = {w1, w2}
    Labels = {planner, retriever}
    Campaigns <- MCCampaigns
    MaxCalls = 3
    NoCopy = NoCopy
    NoCall = NoCall
SYMMETRY FaultSymmetry
INVARIANTS
    PreviewPredicts
    BudgetHolds
    CascadeInOrder
    EventTruth
