SPECIFICATION Spec
CONSTANTS
    Request = {q}
    Vm = {v1, v2}
    NoVm = NoVm
    NoRequest = NoRequest
    ExtraDisk = FALSE
    MaxErrorRecoveries = 1
    MayCrash = TRUE
    MayMeddle = TRUE
SYMMETRY Symmetry
INVARIANT TypeOK
PROPERTY SweepSparesServing
PROPERTY ForeignVMUntouched
