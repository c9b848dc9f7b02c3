SPECIFICATION FairSpec
CONSTANTS
    c1 = c1
    c2 = c2
    c3 = c3
    p1 = p1
    p2 = p2
    q1 = q1
    q2 = q2
    NoDevice = NoDevice
    Conns = {c1, c2, c3}
    Terminals <- MCTerminals
INVARIANT TypeOK
INVARIANT JobPerDevice
INVARIANT PlatesDistinct
PROPERTY SilentDeviceGone
