SPECIFICATION FairSpec
CONSTANTS
    MaxRetries = 2
    MaxAttempts = 2
    Validity = 1
    MaxHeight = 3
    Required = "confirmed"
PROPERTY
    RecordedIsNotResent
CHECK_DEADLOCK FALSE
