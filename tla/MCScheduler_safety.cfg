SPECIFICATION Spec
CONSTANTS
    MaxTasks = 2
    MaxItems = 1
    Mixes <- SafetyMixes
    Cancellers <- EitherThread
    WakerFirst = {"Cancel", "Defer"}
INVARIANT RegistryConsistent
INVARIANT SettledOnce
INVARIANT UnmountCancelsAll
INVARIANT SuspendCancels
INVARIANT ParkedOnlyWhileSuspended
INVARIANT ResultsInOrder
INVARIANT NoMissedLocalWake
