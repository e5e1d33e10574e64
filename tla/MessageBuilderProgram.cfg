SPECIFICATION Spec
CONSTANTS
    P = P
    X = X
    A = A
    B = B
    C = C
    T1 = T1
    T2 = T2
    Payer = P
    Programs = {X}
    Others = {A, B, C}
    TableKeys = {T1, T2}
    TableSets <- MCTableSets
    MaxAccounts = 4
    MaxIxs = 2
    MaxMetas = 3
    MaxSigners = 3
INVARIANT
    ProgramIdsStatic
CHECK_DEADLOCK FALSE
