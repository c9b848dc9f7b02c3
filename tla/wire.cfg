SPECIFICATION Spec
CONSTANTS
    Samples <- MCSamples
    OwnFields <- MCOwnFields
    DefaultParams <- MCDefaultParams
    SplitAt = {1, 14, 40}
    MaxFrames = 2
INVARIANT TypeOK
INVARIANT BordersDeliver
INVARIANT AnswersMatch
INVARIANT NoPartHandled
 
PROPERTY ParamsKept
CHECK_DEADLOCK FALSE
