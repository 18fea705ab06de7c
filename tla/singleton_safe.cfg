SPECIFICATION Spec
CONSTANTS
    Instance = {a, b}
    Prior = Prior
    NoOwner = NoOwner
    RefreshInterval = 2
    StaleAfter = 10
    CallLatency = 1
    MaxSkew = 1
    MayDelete = FALSE
SYMMETRY Symmetry
INVARIANT TypeOK
INVARIANT AtMostOneActive
INVARIANT LeaseInv
PROPERTY ImplementsLease
