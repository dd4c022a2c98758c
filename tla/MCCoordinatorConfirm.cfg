CONSTANTS
    Devices <- MCDevices
    MaxSessions = 2
    MaxInputs = 2
    MaxWire = 2
    Target = "focused_app"
    Mode = "click_to_talk"
    Translates = FALSE
    Happens = {"confirm", "side", "link", "restore", "codex"}
    CodexEvents = {"approval_needed"}
SPECIFICATION Spec
INVARIANTS
    NeverStuck
    RecordingShown
    PastedOnce
    DeviceReleased
PROPERTIES
    LateResultsDropped
CHECK_DEADLOCK FALSE
