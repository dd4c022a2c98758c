CONSTANTS
    QueueDepth = 2
    MaxInputs = 5
    HostEvents <- MCNoEvents
    Outcomes = {TRUE, FALSE}
    Happens = {"front", "power", "battery", "sleep"}
SPECIFICATION FairSpec
PROPERTIES
    PowerNoticed
CHECK_DEADLOCK FALSE
