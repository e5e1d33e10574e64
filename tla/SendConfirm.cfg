SPECIFICATION FairSpec
CONSTANTS
    MaxRetries = 2
    MaxAttempts = 2
    Validity = 1
    MaxHeight = 3
    Required = "confirmed"
INVARIANTS
    TypeOK
    AtMostOneInFlight
    SuccessIsReal
    SignatureKept
PROPERTY
    AlwaysReturns
CHECK_DEADLOCK FALSE
