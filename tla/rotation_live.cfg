SPECIFICATION FairSpec
CONSTANTS
    Reconciler = {r1}
    Gen = {a, b}
    Strategy = {"surge", "in-place"}
    Id <- Ids
    NoId = NoId
    InitialCount = 3
    MaxCount = 3
    MinHealthy = 1
    EngineTTL = 1
    ScalerTTL = 1
    TickInterval = 1
    MaxEdits = 2
    StrategyEdits = TRUE
    MidCycleEdits = FALSE
    CountEdits = FALSE
    Scaler = FALSE
    MayStall = TRUE
    MayFail = TRUE
CHECK_DEADLOCK FALSE
PROPERTY
    EventuallyRotated
