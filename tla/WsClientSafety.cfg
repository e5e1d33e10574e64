SPECIFICATION Spec
CONSTANTS
    Callers = {g1, g2}
    SubIDs = {a, b}
    NoId = noid
    MaxReq = 3
SYMMETRY Symmetry
INVARIANTS
    TypeOK
    NoPanic
    ShutdownOnce
    HandleAccounted
    WaiterAccounted
    RegisteredBeforeReturn
    OneShotDeliveredOnce
    LateDispatchBounded
    OneShotDropsOwnEntry
