SPECIFICATION FairSpec
CONSTANTS
    MaxTasks = 2
    MaxItems = 1
    Mixes = {{"Complete", "Local"}}
    Cancellers <- TheUiThread
    WakerFirst = {"Complete", "Local"}
PROPERTY CancelReleases
PROPERTY ResultsCollected
