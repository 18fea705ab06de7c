SPECIFICATION FairSpec
CONSTANTS
    Request = {q}
    Vm = {v1, v2}
    NoVm = NoVm
    NoRequest = NoRequest
    ExtraDisk = TRUE
    MaxErrorRecoveries = 0
    MayCrash = TRUE
    MayMeddle = FALSE
PROPERTY NothingLeaks
