SPECIFICATION FairSpec
CONSTANTS
    Program <- Order
    Runners = {r1, r2}
    MayFail = {"ship"}
    Flaky = {}
    SleepLength = 1
    MaxClock = 0
    MaxSignals = 2
    MaxCrashes = 1
INVARIANTS TxExactlyOnce SignalsConserved SleepHonoured NeverDiverges CompensatedOnce OutcomeMatchesJournal
PROPERTY Finishes
