CONSTANTS
    Period = 2
    SuccessLimit = 1
    FailedLimit = 1
    MaxTime = 5
    MaxEdits = 1
    MaxAborts = 1
    MaxLags = 1
SPECIFICATION Spec
INVARIANT TypeOK OnePerOccurrence
PROPERTY KeepsNewest CatchesUp
CHECK_DEADLOCK FALSE
