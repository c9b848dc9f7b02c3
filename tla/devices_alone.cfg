SPECIFICATION FairSpec
CONSTANTS
    c1 = c1
    c2 = c2
    o1 = o1
    o2 = o2
    o3 = o3
    p1 = p1
    p2 = p2
    q1 = q1
    q2 = q2
    Nil = Nil
    NoDevice = NoDevice
    Conns = {c1}
    Objs = {o1, o2, o3}
    Terminals <- OneTerminal
    Arriving <- AnyMessage

PROPERTY ClosedConnReleased
CHECK_DEADLOCK FALSE
