CONSTANTS
    Devices <- MCDevices
    MaxSessions = 2
    MaxInputs = 1
    MaxWire = 2
    Target = "subtitle"
    Mode = "hold_to_talk"
    Translates = TRUE
    Happens = {"side", "link", "settings", "codex"}
    CodexEvents = {"tool_call_started", "done"}
SPECIFICATION FairSpec
INVARIANTS
    RecordingShown
PROPERTIES
    RecordingsResolve
CHECK_DEADLOCK FALSE
