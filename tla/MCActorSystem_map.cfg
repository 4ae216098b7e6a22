SPECIFICATION FairSpec
CONSTANTS
    Askers = {"a", "b"}
    Alarms = {"x", "y"}
    MaxAsks = 2
    MaxInstances = 3
    MaxCrashes = 1
INVARIANT OneUnlessClobbered
INVARIANT NoLostUpdate
INVARIANT AskOutcome
PROPERTY AsksReturn
PROPERTY AlarmsFire
