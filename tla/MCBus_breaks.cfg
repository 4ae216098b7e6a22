SPECIFICATION Spec
CONSTANTS
    Qos <- TwoOnce
    Retain = {2}
    Grants = {1, 2}
    Clean = {FALSE, TRUE}
    NumConns = 2
    MaxBreaks = 1
INVARIANT NothingLost
INVARIANT AckedIsFinished
PROPERTY Received
CHECK_DEADLOCK FALSE
