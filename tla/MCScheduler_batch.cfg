SPECIFICATION Spec
CONSTANTS
    MaxTasks = 2
    MaxItems = 1
    Mixes = {{"Complete"}}
    Cancellers <- TheUiThread
    WakerFirst = {}
PROPERTY CancelledNeverDelivered
