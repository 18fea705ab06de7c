SPECIFICATION Spec
CONSTANTS
    Caller = {a, b}
    Uploader = {u}
    Closer = {k}
    WithDeadline = {}
    Cancellable = {}
    Replies = {"ok", "error"}
    MaxAttempts = 2
    MaxConcurrentCalls = 2
    MaxDials = 2
    NoOne = NoOne
CHECK_DEADLOCK FALSE
INVARIANT TypeOK
INVARIANT TransportInv
INVARIANT OwnAnswer
INVARIANT NothingOpenAfterClose
INVARIANT OneWriter
INVARIANT DrainIsFinal
INVARIANT OnceUnlessFaulty
PROPERTY ReplacesWhatFailed
SYMMETRY CallerSymmetry
