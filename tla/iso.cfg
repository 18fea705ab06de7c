SPECIFICATION Spec
CONSTANTS
    Machine = {a, b}
    Dataset = {p}
    Image = {x, y}
    Home <- OneHome
    Boots <- SameImage
    Pool = p
    Legacy <- OtherImages
    Mtime <- Times
    MaxFaults = 2
    Exposed <- Booted
    NoOne = NoOne
CHECK_DEADLOCK FALSE
SYMMETRY Symmetry
INVARIANTS
    TypeOK
    CacheInv
    DriftNotAttached
    OneUpload
    TrustOnFirstUse
PROPERTY
    WipesOnce
