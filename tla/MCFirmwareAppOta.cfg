CONSTANTS
    QueueDepth = 2
    MaxInputs = 3
    HostEvents <- MCOtaEvents
    Outcomes = {TRUE}
    Happens = {"front", "link", "host", "ota", "done", "dim", "sleep"}
SPECIFICATION Spec
INVARIANTS
    LocksHeld
    OtaStopsRecording
    SleepScheduled
CHECK_DEADLOCK FALSE
