SPECIFICATION FairSpec
CONSTANTS
    Batchers = {b1}
    Singles = {s1}
    N = 2
    MaxAttempts = 2
    MaxCalls = 2
    MaxResps = 2
INVARIANTS
    UniqueIDs
    ElementsTold
PROPERTIES
    CancelReturns
CHECK_DEADLOCK FALSE
