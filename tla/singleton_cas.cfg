SPECIFICATION Spec
CONSTANTS
    Instance = {a, b}
    Prior = Prior
    NoOwner = NoOwner
    RefreshInterval = 1
    StaleAfter = 2
    CallLatency = 1
    MaxSkew = 0
    MayDelete = TRUE
SYMMETRY Symmetry
INVARIANT EpochMovesWithOwner
INVARIANT CASInv
PROPERTY TakeoverOnlyWhenStale
PROPERTY TakeoverBumpsEpoch
PROPERTY HolderNotCleared
PROPERTY HeartbeatNeverGoesBack
