SPECIFICATION FairSpec
CONSTANTS
    Instance = {a, b}
    Prior = Prior
    NoOwner = NoOwner
    RefreshInterval = 1
    StaleAfter = 2
    CallLatency = 0
    MaxSkew = 0
    MayDelete = FALSE
PROPERTY SplitBrainEnds
PROPERTY Successor
