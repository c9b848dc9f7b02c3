SPECIFICATION Spec
CONSTANTS
    c1 = c1
    c2 = c2
    o1 = o1
    o2 = o2
    o3 = o3
    p1 = p1
    p2 = p2
    q1 = q1
    q2 = q2
    Nil = Nil
    NoDevice = NoDevice
    Conns = {c1, c2}
    Objs = {o1, o2, o3}
    Terminals <- OneTerminal
    Arriving <- CoreMessages
SYMMETRY Symmetry
VIEW LiveView
INVARIANT TypeOK
INVARIANT IndexesAgree
CHECK_DEADLOCK FALSE
