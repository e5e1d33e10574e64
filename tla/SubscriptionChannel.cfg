SPECIFICATION Spec
CONSTANTS
    Cap = 3
    MaxMsgs = 8
INVARIANTS
    NewestKept
PROPERTY
    ImplementsLossyFifo
CHECK_DEADLOCK FALSE
