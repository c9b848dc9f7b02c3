SPECIFICATION FairSpec
CONSTANTS
    p1 = p1
    p2 = p2
    p3 = p3
    None = None
    Phones = {p1, p2, p3}
    To = 2
INVARIANT TypeOK
INVARIANT CallbackNeverBlocks
 
INVARIANT ReturnsInTime
PROPERTY Returns
CHECK_DEADLOCK FALSE
