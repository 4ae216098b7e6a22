SPECIFICATION Spec
CONSTANTS
    MaxEvents = 2
    Silent = {1}
    Instances = {"old", "new"}
    First = "old"
    To = "new"
    NumConns = 2
    NumSessions = 2
    MaxFaults = 1
INVARIANT DoubledOnlyIfStale
INVARIANT SessionsAccounted
PROPERTY InOrder
PROPERTY EventsReflected
CHECK_DEADLOCK FALSE
