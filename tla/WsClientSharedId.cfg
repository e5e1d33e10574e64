SPECIFICATION FairSpec
CONSTANTS
    Callers = {g1, g2}
    SubIDs = {a}
    NoId = noid
    MaxReq = 2
PROPERTIES
    EveryHandleEnds
