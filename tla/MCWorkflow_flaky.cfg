SPECIFICATION Spec
CONSTANTS
    Program <- Payment
    Runners = {r1}
    MayFail = {}
    Flaky = {"ship"}
    SleepLength = 1
    MaxClock = 0
    MaxSignals = 0
    MaxCrashes = 1
INVARIANT CompensatedOnce
