SPECIFICATION Spec
CONSTANTS
    p1 = p1
    p2 = p2
    r1 = r1
    r2 = r2
    r3 = r3
    d1 = d1
    s1 = s1
    s2 = s2
    s3 = s3
    None = None
    Phones = {p1, p2}
    Reqs = {r1, r3}
    Direct = {}
    Sessions = {s1, s2}
    MaxSerial = 1
    Cap = 1
    PhoneOf <- MCPhoneOf
    MsgIdOf <- MCMsgIdOf
PROPERTY FailureLosesOwnOnly
CHECK_DEADLOCK FALSE
