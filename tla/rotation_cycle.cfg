SPECIFICATION Spec
CONSTANTS
    Reconciler = {r1}
    Gen = {a, b}
    Strategy = {"surge", "in-place", "off"}
    Id <- Ids
    NoId = NoId
    InitialCount = 3
    MaxCount = 3
    MinHealthy = 2
    EngineTTL = 1
    ScalerTTL = 1
    TickInterval = 1
    MaxEdits = 3
    StrategyEdits = TRUE
    MidCycleEdits = FALSE
    CountEdits = FALSE
    Scaler = FALSE
    MayStall = TRUE
    MayFail = TRUE
CHECK_DEADLOCK FALSE
INVARIANTS
    CountAccounted
    AbortMeansForeignWriter
PROPERTY
    FloorRespected
    ImplementsRollingSet
