SPECIFICATION FairSpec
CONSTANTS
    Caller = {a, b}
    Uploader = {}
    Closer = {k}
    WithDeadline = {b}
    Cancellable = {b}
    Replies = {}
    MaxConcurrentCalls = 2
    MaxAttempts = 1
    MaxDials = 2
    NoOne = NoOne
CHECK_DEADLOCK FALSE
PROPERTY CallReturns
PROPERTY CloseReturns
