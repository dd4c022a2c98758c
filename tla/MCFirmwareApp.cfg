CONSTANTS
    QueueDepth = 2
    MaxInputs = 3
    HostEvents <- MCRecordingEvents
    Outcomes = {TRUE, FALSE}
    Happens = {"front", "side", "link", "host", "mode", "off"}
SPECIFICATION Spec
INVARIANTS
    RecordingOnLink
    HoldToTalk
    HostInStep
CHECK_DEADLOCK FALSE
