SPECIFICATION Spec
CONSTANTS
    Procs = {"p", "q"}
    Runners = {"p", "q"}
    Keys = {1}
    Events = {1}
    Batch = 1
    MaxJobAttempts = 2
    MaxEventAttempts = 2
    MaxDeaths = 2
INVARIANT TypeOK
INVARIANT LettersAgree
PROPERTY SettledStays
PROPERTY WorkFollows
CHECK_DEADLOCK FALSE
