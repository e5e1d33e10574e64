SPECIFICATION Spec
CONSTANTS
    Batchers = {b1}
    Singles = {}
    N = 2
    MaxAttempts = 2
    MaxCalls = 2
    MaxResps = 3
INVARIANT
    ZeroOnSuccess
CHECK_DEADLOCK FALSE
