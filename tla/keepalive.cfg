SPECIFICATION AgeSpec
CONSTANTS
    K = 4
    Period = 4
INVARIANT AgeTypeOK
INVARIANT GoneInTime
PROPERTY ActiveGetsTwoChecks
PROPERTY DiligentStays
