--------------------------- MODULE MCFirmwareApp ---------------------------
(* Small instances of FirmwareApp: what the host may write in each. *)
EXTENDS FirmwareApp

UiEvent(state, bg) == [type |-> "uiState", state |-> state, bg |-> bg]

\* The messages that bear on a recording.
MCRecordingEvents == {UiEvent("pending", "ready"), Ev("disconnectRequest")}

\* The messages that bear on the timers and the screen.
MCOtaEvents ==
    {UiEvent("ready", "working"), UiEvent("done", "ready"), Ev("powerTimers"), Ev("chime")}

MCNoEvents == {}
=============================================================================
