SPECIFICATION Spec
CONSTANTS
    Instance = {a, b}
    Prior = Prior
    NoOwner = NoOwner
    RefreshInterval = 2
    StaleAfter = 6
    CallLatency = 1
    MaxSkew = 0
    MayDelete = FALSE
INVARIANT AtMostOneActive
