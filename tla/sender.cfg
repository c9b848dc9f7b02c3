SPECIFICATION FairSpec
CONSTANTS
    p1 = p1
    p2 = p2
    r1 = r1
    r2 = r2
    r3 = r3
    d1 = d1
    s1 = s1
    s2 = s2
    s3 = s3
    None = None
    Phones = {p1}
    Reqs = {r1, r2, d1}
    Direct = {d1}
    Sessions = {s1, s2}
    MaxSerial = 1
    Cap = 1
    PhoneOf <- MCPhoneOf
    MsgIdOf <- MCMsgIdOf
INVARIANT TypeOK
INVARIANT AnsweredOnce
INVARIANT AnswerFindsCallback
INVARIANT KeysDistinct
INVARIANT WrittenOnce
PROPERTY QueueDrains
PROPERTY CallersReturn
CHECK_DEADLOCK FALSE
