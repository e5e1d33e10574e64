SPECIFICATION FairSpec
CONSTANTS
    Callers = {g1, g2}
    SubIDs = {a, b}
    NoId = noid
    MaxReq = 2
PROPERTIES
    CloseCompletes
    SubscribersReleased
    HandlesEnd
