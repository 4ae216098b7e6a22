SPECIFICATION Spec
CONSTANTS
    MaxTasks = 1
    MaxItems = 1
    Mixes = {{"Complete"}}
    Cancellers <- Nobody
    WakerFirst = {}
INVARIANT NoMissedCompletion
