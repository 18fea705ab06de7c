SPECIFICATION Spec
CONSTANTS
    Reconciler = {r1}
    Gen = {a, b}
    Strategy = {"surge", "in-place"}
    Id <- Ids
    NoId = NoId
    InitialCount = 1
    MaxCount = 2
    MinHealthy = 1
    EngineTTL = 5
    ScalerTTL = 5
    TickInterval = 1
    MaxEdits = 3
    StrategyEdits = FALSE
    MidCycleEdits = TRUE
    CountEdits = TRUE
    Scaler = TRUE
    MayStall = FALSE
    MayFail = FALSE
CHECK_DEADLOCK FALSE
INVARIANTS
    TypeOK
    SurgeOvershootBounded
    LockCoversCycle
