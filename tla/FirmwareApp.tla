---------------------------- MODULE FirmwareApp ----------------------------
(***************************************************************************)
(* The application task of the StickS3 firmware                            *)
(* (src/firmware/main/main.c): buttons, recording, the display and sleep   *)
(* timers, OTA, the screen, and the event queue that feeds them.           *)
(*                                                                         *)
(* app_event_task is the only task that runs the handlers, one event at a  *)
(* time; button callbacks, timer callbacks, the PMIC interrupt and the     *)
(* callbacks of voice_ble only post to its queue, without waiting, so an   *)
(* event is lost when the queue is full.  ble_control_cb is the exception: *)
(* it writes the interaction mode from the NimBLE task.                    *)
(*                                                                         *)
(* The static variables that only app_event_task writes are the record     *)
(* "app"; the functions its handlers call are operators from a record to   *)
(* the record they leave, so that a handler is their composition, in the   *)
(* order of the code.  Time is abstracted: app.recent holds the inactivity *)
(* timers whose timeout is longer than the time since the last activity.   *)
(***************************************************************************)
EXTENDS Naturals, Sequences

CONSTANTS
    QueueDepth,   \* length of s_app_event_queue
    HostEvents,   \* the control messages the host may write, as events
    Outcomes,     \* the results display and power lock calls may have
    Happens,      \* the inputs and timers that happen in the instance
    MaxInputs     \* bound on how many inputs happen

ASSUME QueueDepthAssumption == QueueDepth \in Nat \ {0}
ASSUME OutcomesAssumption == Outcomes \subseteq BOOLEAN /\ TRUE \in Outcomes
ASSUME MaxInputsAssumption == MaxInputs \in Nat

\* What may happen to the device: inputs by kind, and timers.
Kinds == {"front", "side", "link", "host", "mode", "ota", "power",
          "battery", "dim", "off", "sleep", "done"}

ASSUME HappensAssumption == Happens \subseteq Kinds

VARIABLES
    app,          \* the variables of app_event_task
    step,         \* "idle", "tell", "sleep": where a handler is; or "asleep"
    queue,        \* s_app_event_queue
    mode,         \* s_interaction_mode
    hint,         \* apply_interaction_mode has decided to draw the idle screen
    link,         \* voice_ble: "down", connected ("up"), or "ready"
    linkOta,      \* voice_ble_ota_is_active()
    terminating,  \* voice_ble_disconnect() ends this connection
    uncut,        \* the session whose host could neither be told of its end nor
                  \* disconnected, or 0
    rebooting,    \* ota_finish waits to call esp_restart
    frontHeld, sideHeld,  \* the buttons
    power,        \* charging or USB power is present
    irqEnabled,   \* the PMIC interrupt
    inputs,       \* how many inputs there were
    lost,         \* history: event types that had no room in the queue, or
                  \* timeouts whose display call failed, and none since
    host,         \* history: the session the host was told is recording
    modeSwitched  \* history: the mode was written since the recording began

vars == <<app, step, queue, mode, hint, link, linkOta, terminating, uncut, rebooting,
          frontHeld, sideHeld, power, irqEnabled, inputs, lost, host, modeSwitched>>

linkVars   == <<link, linkOta, terminating, uncut, rebooting>>
modeVars   == <<mode, hint, modeSwitched>>
buttonVars == <<frontHeld, sideHeld>>
powerVars  == <<power, irqEnabled>>

\* The one-shot timers that note_activity restarts, and s_codex_done_timer.
Inactivity == {"dim", "off", "sleep"}
Timers     == Inactivity \cup {"done"}

UiStates == {"ready", "recording", "thinking", "pending", "working", "approval",
             "done", "error"}
Backgrounds == {"ready", "working", "approval"}
Scenes   == {"pairing", "idle", "ota", "reboot"} \cup (UiStates \ {"ready"})

EventTypes == Timers \cup
    {"frontDown", "frontUp", "sideDown", "sideUp", "uiState", "connected",
     "disconnected", "disconnectRequest", "powerTimers", "powerIrq", "battery",
     "otaBegin", "otaProgress", "otaDone", "otaEnd", "chime"}

\* An app_event_t: its type, and for uiState the state, the background state
\* ready is sent with, and notify_completion left out (it only picks a sound).
Event == [type : EventTypes, state : UiStates, bg : Backgrounds]

Ev(t) == [type |-> t, state |-> "ready", bg |-> "ready"]

\* What ble_control_cb posts.
HostTypes == {"uiState", "disconnectRequest", "powerTimers", "chime"}

ASSUME HostEventsAssumption == HostEvents \subseteq {e \in Event : e.type \in HostTypes}

\* The static variables of app_event_task.
AppState ==
    [recording : BOOLEAN, otaUpdating : BOOLEAN, dimmed : BOOLEAN, off : BOOLEAN,
     recLock : BOOLEAN, otaLock : BOOLEAN, powered : BOOLEAN,
     ui : UiStates, bg : Backgrounds, scene : Scenes,
     primaryDown : BOOLEAN, primarySid : Nat, audioSid : Nat, nextSid : Nat \ {0},
     frontWake : BOOLEAN, sideWake : BOOLEAN,
     recent : SUBSET Inactivity, armed : SUBSET Timers]

\* The record at the end of app_main, with external power present or not.
Boot(powered) ==
    [recording |-> FALSE, otaUpdating |-> FALSE, dimmed |-> FALSE, off |-> FALSE,
     recLock |-> FALSE, otaLock |-> FALSE, powered |-> powered,
     ui |-> "ready", bg |-> "ready", scene |-> "pairing",
     primaryDown |-> FALSE, primarySid |-> 0, audioSid |-> 0, nextSid |-> 1,
     frontWake |-> FALSE, sideWake |-> FALSE,
     recent |-> Inactivity,
     armed |-> IF powered THEN Inactivity \ {"sleep"} ELSE Inactivity]

\* Where power neither comes nor goes, the device is on battery.
Init ==
    /\ power \in BOOLEAN /\ (power => "power" \in Happens)
    /\ app = Boot(power)
    /\ step = "idle" /\ queue = <<>>
    /\ mode = "hold" /\ hint = FALSE /\ modeSwitched = FALSE
    /\ link = "down" /\ linkOta = FALSE /\ terminating = FALSE /\ uncut = 0 /\ rebooting = FALSE
    /\ frontHeld = FALSE /\ sideHeld = FALSE
    /\ irqEnabled = TRUE
    /\ inputs = 0 /\ lost = {} /\ host = 0

-----------------------------------------------------------------------------
(* The functions the handlers call, from the record they find to the one   *)
(* they leave.                                                             *)

\* restart_display_dim_timer, restart_display_off_timer, restart_deep_sleep_timer
RestartTimers(s, kinds) ==
    LET idle == ~s.recording /\ ~s.otaUpdating
    IN  [s EXCEPT !.armed = (@ \ kinds) \cup
            {k \in kinds : idle /\ (k = "sleep" => ~s.powered)}]

\* note_activity; panel tells whether the display could be restored.
NoteActivity(s, panel) ==
    RestartTimers([s EXCEPT !.recent = Inactivity,
                            !.off = @ /\ ~panel, !.dimmed = @ /\ ~panel], Inactivity)

StopDoneTimer(s) == [s EXCEPT !.armed = @ \ {"done"}]

\* Mutant: start_recording does not ask voice_ble_is_ready.
CanRecordUnready(s) ==
    ~s.recording /\ ~s.otaUpdating /\ ~linkOta /\ s.ui # "pending"

\* The test at the head of start_recording.
CanRecord(s) ==
    ~s.recording /\ ~s.otaUpdating /\ ~linkOta /\ link = "ready" /\ s.ui # "pending"

\* start_recording past its test; works is FALSE when the power lock or
\* audio_pipeline_start fails.
StartRecording(s, works) ==
    LET t == [StopDoneTimer(s) EXCEPT !.nextSid = @ + 1]
    IN  IF works
          THEN RestartTimers([t EXCEPT !.recording = TRUE, !.recLock = TRUE,
                                       !.ui = "recording", !.scene = "recording",
                                       !.audioSid = s.nextSid], Inactivity)
          ELSE [t EXCEPT !.scene = "error"]

\* Mutant: the timers are not restarted when the recording ends.
StopRecordingNoRestart(s) ==
    IF s.recording THEN [s EXCEPT !.recording = FALSE, !.recLock = FALSE] ELSE s

\* Mutant: the power lock of the recording is kept.
StopRecordingKeepsLock(s) ==
    IF s.recording THEN RestartTimers([s EXCEPT !.recording = FALSE], Inactivity) ELSE s

\* stop_recording and cancel_recording
StopRecording(s) ==
    IF s.recording
      THEN RestartTimers([s EXCEPT !.recording = FALSE, !.recLock = FALSE], Inactivity)
      ELSE s

SceneOf(state) == IF state = "ready" THEN "idle" ELSE state

\* apply_app_ui_state
ApplyUi(s, state, panel) ==
    LET t == StopDoneTimer(s)
        shown == [t EXCEPT !.ui = state,
                           !.bg = CASE state \in {"working", "approval"} -> state
                                    [] state = "done" -> "ready"
                                    [] OTHER -> @,
                           !.scene = IF state = "recording" /\ s.recording
                                       THEN @ ELSE SceneOf(state)]
        active == NoteActivity(shown, panel)
    IN  CASE state = "ready" /\ s.recording -> t
          [] state = "done" -> [active EXCEPT !.armed = @ \cup {"done"}]
          [] OTHER -> active

\* Mutant: only the arrival of external power is noticed.
UpdatePowerOnlyOn(s) ==
    IF s.powered \/ ~power THEN s ELSE RestartTimers([s EXCEPT !.powered = TRUE], {"sleep"})

\* update_battery_status when the PMIC can be read
UpdatePower(s) ==
    IF s.powered = power THEN s ELSE RestartTimers([s EXCEPT !.powered = power], {"sleep"})

-----------------------------------------------------------------------------
(* The event queue *)

\* The longest prefix of the events es that fits after q.
Room(q, es) ==
    SubSeq(es, 1, IF Len(q) + Len(es) <= QueueDepth THEN Len(es)
                  ELSE IF Len(q) < QueueDepth THEN QueueDepth - Len(q) ELSE 0)

\* xQueueSend(s_app_event_queue, ..., 0) of each event in turn
Post(es) ==
    LET fits == Len(Room(queue, es))
    IN  /\ queue' = queue \o Room(queue, es)
        /\ lost' = (lost \ {es[i].type : i \in 1 .. fits})
                      \cup {es[i].type : i \in fits + 1 .. Len(es)}

InQueue(t) == \E i \in DOMAIN queue : queue[i].type = t

\* An event of the type is on its way, or was lost on it.
Pending(t) == InQueue(t) \/ t \in lost

\* app_event_task receives an event of type t and leaves s; missed are the
\* timeouts that had no effect because the display failed.
HandleMissing(t, s, missed) ==
    /\ step = "idle" /\ queue # <<>> /\ Head(queue).type = t
    /\ queue' = Tail(queue)
    /\ app' = s
    /\ lost' = (lost \ s.armed) \cup missed

Handle(t, s) == HandleMissing(t, s, {})

-----------------------------------------------------------------------------
(* The front button.  Every handler begins with note_activity. *)

\* The handlers that leave the variables of the other tasks alone.
AppOnly == UNCHANGED <<modeVars, linkVars, buttonVars, powerVars, inputs>>

\* A press while the display is off only wakes the display.
FrontDownWakes ==
    \E panel \in Outcomes :
        /\ app.off
        /\ Handle("frontDown", [NoteActivity(app, panel) EXCEPT !.frontWake = TRUE])
        /\ AppOnly /\ UNCHANGED <<step, host>>

\* click_to_talk: the second click ends the recording and tells the host, which
\* also gets the END marker of the audio stream.
FrontDownStops ==
    \E panel \in Outcomes, sent \in BOOLEAN :
        LET s == StopRecording([NoteActivity(app, panel) EXCEPT !.frontWake = FALSE])
            t == IF sent THEN s ELSE ApplyUi(s, "ready", panel)
        IN  /\ ~app.off /\ mode = "click" /\ app.recording
            /\ sent => link # "down"
            /\ Handle("frontDown", [t EXCEPT !.primaryDown = FALSE, !.primarySid = 0])
            /\ host' = 0
            /\ AppOnly /\ UNCHANGED step

FrontDownStarts == ~app.off /\ ~(mode = "click" /\ app.recording)

\* While a transcript waits for confirmation the press is a click for the host.
FrontDownConfirms ==
    \E panel \in Outcomes :
        /\ FrontDownStarts /\ app.ui = "pending"
        /\ Handle("frontDown", [NoteActivity(app, panel) EXCEPT
               !.frontWake = FALSE, !.primaryDown = TRUE, !.primarySid = 0])
        /\ AppOnly /\ UNCHANGED <<step, host>>

FrontDownDenied ==
    \E panel \in Outcomes :
        /\ FrontDownStarts /\ app.ui # "pending" /\ ~CanRecord(app)
        /\ Handle("frontDown", [NoteActivity(app, panel) EXCEPT
               !.frontWake = FALSE, !.primaryDown = FALSE, !.primarySid = 0])
        /\ AppOnly /\ UNCHANGED <<step, host>>

\* Mutant: the press that starts a recording leaves s_front_press_wake_only.
FrontDownRecordsWakeKept ==
    \E panel \in Outcomes :
        /\ FrontDownStarts /\ CanRecord(app)
        /\ Handle("frontDown", [StartRecording(NoteActivity(app, panel), TRUE) EXCEPT
               !.primaryDown = TRUE, !.primarySid = app.nextSid])
        /\ step' = "tell" /\ modeSwitched' = FALSE
        /\ UNCHANGED <<mode, hint, linkVars, buttonVars, powerVars, inputs, host>>

\* The recording runs; the host is told in the next step.
FrontDownRecords ==
    \E panel \in Outcomes :
        /\ FrontDownStarts /\ CanRecord(app)
        /\ Handle("frontDown", [StartRecording(NoteActivity(app, panel), TRUE) EXCEPT
               !.frontWake = FALSE, !.primaryDown = TRUE, !.primarySid = app.nextSid])
        /\ step' = "tell" /\ modeSwitched' = FALSE
        /\ UNCHANGED <<mode, hint, linkVars, buttonVars, powerVars, inputs, host>>

FrontDownFails ==
    \E panel \in Outcomes :
        /\ FrontDownStarts /\ CanRecord(app)
        /\ Handle("frontDown", [StartRecording(NoteActivity(app, panel), FALSE) EXCEPT
               !.frontWake = FALSE, !.primaryDown = FALSE, !.primarySid = 0])
        /\ AppOnly /\ UNCHANGED <<step, host>>

\* voice_ble_send_button_down or _click names the session; when it cannot be
\* sent the recording is stopped again.
FrontTell ==
    /\ step = "tell" /\ step' = "idle"
    /\ \/ /\ link # "down"
          /\ host' = app.primarySid
          /\ UNCHANGED <<app, lost>>
       \/ \E panel \in Outcomes :
            /\ app' = ApplyUi([StopRecording(app) EXCEPT !.primarySid = 0], "ready", panel)
            /\ lost' = lost \ app'.armed
            /\ UNCHANGED host
    /\ AppOnly /\ UNCHANGED queue

FrontUpWakes ==
    \E panel \in Outcomes :
        /\ app.frontWake
        /\ Handle("frontUp", [NoteActivity(app, panel) EXCEPT !.frontWake = FALSE])
        /\ AppOnly /\ UNCHANGED <<step, host>>

NothingPressed == ~app.recording /\ app.primarySid = 0 /\ ~app.primaryDown

FrontUpIgnored ==
    \E panel \in Outcomes :
        /\ ~app.frontWake /\ (mode = "click" \/ NothingPressed)
        /\ Handle("frontUp", NoteActivity(app, panel))
        /\ AppOnly /\ UNCHANGED <<step, host>>

\* hold_to_talk: the recording, if it still runs, ends; the host is told of
\* whatever session the press had.
FrontUpStops ==
    \E panel \in Outcomes, sent \in BOOLEAN :
        LET s == StopRecording(NoteActivity(app, panel))
            sid == IF app.recording THEN app.audioSid ELSE app.primarySid
            t == IF sid # 0 /\ ~sent THEN ApplyUi(s, "ready", panel) ELSE s
        IN  /\ ~app.frontWake /\ mode = "hold" /\ ~NothingPressed
            /\ sent => link # "down"
            /\ Handle("frontUp", [t EXCEPT !.primaryDown = FALSE, !.primarySid = 0])
            /\ host' = IF app.recording THEN 0 ELSE host
            /\ AppOnly /\ UNCHANGED step

-----------------------------------------------------------------------------
(* The side button *)

SideDown ==
    \E panel \in Outcomes :
        /\ Handle("sideDown", [NoteActivity(app, panel) EXCEPT !.sideWake = app.off])
        /\ AppOnly /\ UNCHANGED <<step, host>>

\* A wake-only release, or a click with nothing to cancel: only the host acts.
SideUp ==
    \E panel \in Outcomes :
        /\ app.sideWake \/ ~app.recording
        /\ Handle("sideUp", [NoteActivity(app, panel) EXCEPT !.sideWake = FALSE])
        /\ AppOnly /\ UNCHANGED <<step, host>>

\* The record a side click leaves when it cancels a recording.
Cancelled(panel) ==
    [StopRecording(NoteActivity(app, panel)) EXCEPT
        !.primaryDown = FALSE, !.primarySid = 0, !.ui = "ready", !.scene = "idle"]

\* Mutant: nothing is done when the host could not be told of the cancellation.
SideUpCancelsSilently ==
    \E panel \in Outcomes, sent \in BOOLEAN :
        /\ ~app.sideWake /\ app.recording
        /\ sent => link # "down"
        /\ Handle("sideUp", Cancelled(panel))
        /\ host' = IF sent THEN 0 ELSE host
        /\ AppOnly /\ UNCHANGED step

\* A click cancels the recording; if the host cannot be told, the link is
\* cut, and nothing more is done if ble_gap_terminate fails.
SideUpCancels ==
    \E panel \in Outcomes, sent, cut \in BOOLEAN :
        /\ ~app.sideWake /\ app.recording
        /\ sent => link # "down"
        /\ Handle("sideUp", Cancelled(panel))
        /\ host' = IF sent THEN 0 ELSE host
        /\ terminating' = (terminating \/ (~sent /\ cut /\ link # "down"))
        /\ uncut' = IF sent \/ cut THEN uncut ELSE host
        /\ UNCHANGED <<step, modeVars, link, linkOta, rebooting, buttonVars, powerVars,
                       inputs>>

-----------------------------------------------------------------------------
(* The host and the link *)

UiStateEvent ==
    \E panel \in Outcomes :
        LET e == Head(queue)
            s == IF e.state = "ready" THEN [app EXCEPT !.bg = e.bg] ELSE app
        IN  /\ Handle("uiState", ApplyUi(s, e.state, panel))
            /\ AppOnly /\ UNCHANGED <<step, host>>

BleConnected ==
    \E panel \in Outcomes :
        /\ Handle("connected", NoteActivity([StopDoneTimer(app) EXCEPT
               !.ui = "ready", !.bg = "ready", !.scene = "idle"], panel))
        /\ AppOnly /\ UNCHANGED <<step, host>>

\* The record BLE_DISCONNECTED leaves before note_activity.
Offline == [StopDoneTimer(app) EXCEPT
    !.recording = FALSE, !.otaUpdating = FALSE, !.ui = "ready", !.bg = "ready",
    !.recLock = FALSE, !.otaLock = FALSE, !.scene = "pairing"]

\* s_primary_session_id and s_primary_down_us are left as they are.
BleDisconnected ==
    \E panel \in Outcomes :
        /\ Handle("disconnected", NoteActivity(Offline, panel))
        /\ host' = IF app.recording THEN 0 ELSE host
        /\ AppOnly /\ UNCHANGED step

DisconnectRequest ==
    /\ Handle("disconnectRequest", app)
    /\ \E cut \in BOOLEAN : terminating' = (terminating \/ (cut /\ link # "down"))
    /\ UNCHANGED <<step, modeVars, link, linkOta, uncut, rebooting, buttonVars, powerVars,
                   inputs, host>>

PowerTimers ==
    \E panel \in Outcomes :
        /\ Handle("powerTimers", NoteActivity(app, panel))
        /\ AppOnly /\ UNCHANGED <<step, host>>

\* audio_pipeline_play_success_chime: no variable of this task.
NotificationChime ==
    /\ Handle("chime", app)
    /\ AppOnly /\ UNCHANGED <<step, host>>

\* CODEX_DONE_TIMEOUT
CodexDoneTimeout ==
    \E panel \in Outcomes :
        /\ Handle("done", IF ~app.recording /\ ~app.otaUpdating /\ app.ui = "done"
                            THEN ApplyUi(app, "ready", panel) ELSE app)
        /\ AppOnly /\ UNCHANGED <<step, host>>

-----------------------------------------------------------------------------
(* OTA *)

\* Mutant: a recording goes on under the update.
OtaBeginKeepsRecording ==
    \E panel \in Outcomes, locked \in Outcomes :
        LET s == [StopDoneTimer(app) EXCEPT !.otaUpdating = TRUE]
        IN  /\ Handle("otaBegin", [NoteActivity(s, panel) EXCEPT
                   !.otaLock = @ \/ locked, !.scene = "ota"])
            /\ AppOnly /\ UNCHANGED <<step, host>>

\* A recording is stopped; button_up and the END marker tell the host.
OtaBegin ==
    \E panel \in Outcomes, locked \in Outcomes :
        LET s == StopRecording([StopDoneTimer(app) EXCEPT !.otaUpdating = TRUE])
        IN  /\ Handle("otaBegin", [NoteActivity(s, panel) EXCEPT
                   !.otaLock = @ \/ locked, !.scene = "ota"])
            /\ host' = IF app.recording THEN 0 ELSE host
            /\ AppOnly /\ UNCHANGED step

OtaProgress ==
    /\ Handle("otaProgress", [app EXCEPT !.otaUpdating = TRUE, !.scene = "ota"])
    /\ AppOnly /\ UNCHANGED <<step, host>>

OtaDone ==
    /\ Handle("otaDone", [app EXCEPT !.scene = "reboot"])
    /\ AppOnly /\ UNCHANGED <<step, host>>

OtaEnd ==
    \E panel \in Outcomes :
        /\ Handle("otaEnd", NoteActivity([StopDoneTimer(app) EXCEPT
               !.otaUpdating = FALSE, !.otaLock = FALSE,
               !.ui = "ready", !.scene = "idle"], panel))
        /\ AppOnly /\ UNCHANGED <<step, host>>

-----------------------------------------------------------------------------
(* Display, power and sleep *)

\* A connected ready screen falls back to the Codex state behind it.
Dimmed ==
    LET s == [app EXCEPT !.dimmed = TRUE]
    IN  IF app.ui = "ready" /\ link = "ready" /\ app.bg # "ready"
          THEN RestartTimers([s EXCEPT !.ui = app.bg, !.scene = app.bg], {"sleep"})
          ELSE s

DisplayDim ==
    \E panel \in Outcomes :
        LET due == /\ "dim" \notin app.recent
                   /\ ~app.off /\ ~app.dimmed /\ ~app.recording /\ ~app.otaUpdating
        IN  /\ HandleMissing("dim", IF due /\ panel THEN Dimmed ELSE app,
                             IF due /\ ~panel THEN {"dim"} ELSE {})
            /\ AppOnly /\ UNCHANGED <<step, host>>

DisplayOff ==
    \E panel \in Outcomes :
        LET due == /\ "off" \notin app.recent
                   /\ ~app.off /\ ~app.recording /\ ~app.otaUpdating
            s == [app EXCEPT !.armed = @ \ {"dim"}]
        IN  /\ HandleMissing("off",
                   IF due THEN [s EXCEPT !.off = @ \/ panel, !.dimmed = @ \/ panel] ELSE app,
                   IF due /\ ~panel THEN {"dim", "off"} ELSE {})
            /\ AppOnly /\ UNCHANGED <<step, host>>

PowerRead ==
    /\ \/ Handle("battery", UpdatePower(app)) /\ UNCHANGED irqEnabled
       \/ Handle("powerIrq", UpdatePower(app)) /\ irqEnabled' = TRUE
    /\ UNCHANGED <<step, host, modeVars, linkVars, buttonVars, power, inputs>>

\* The PMIC cannot be read.
PowerReadFails ==
    /\ \/ Handle("battery", app) /\ UNCHANGED irqEnabled
       \/ Handle("powerIrq", app) /\ irqEnabled' = TRUE
    /\ UNCHANGED <<step, host, modeVars, linkVars, buttonVars, power, inputs>>

\* The tests of enter_deep_sleep before it looks at the PMIC.
MayNotSleep ==
    \/ app.recording \/ app.otaUpdating \/ linkOta
    \/ "sleep" \in app.recent \/ app.powered

\* enter_deep_sleep returns early, and tries again later.
DeepSleepPutOff ==
    /\ \/ /\ MayNotSleep \/ frontHeld
          /\ Handle("sleep", RestartTimers(app, {"sleep"}))
       \/ /\ ~MayNotSleep /\ power   \* the fresh reading
          /\ Handle("sleep", RestartTimers([app EXCEPT !.powered = TRUE], {"sleep"}))
    /\ AppOnly /\ UNCHANGED <<step, host>>

\* The tests pass (a reading that fails counts as no power): the device
\* prepares to sleep, and waits for the wake pin to settle.
DeepSleepPrepare ==
    /\ ~MayNotSleep /\ ~frontHeld
    /\ Handle("sleep", [app EXCEPT !.recLock = FALSE])
    /\ step' = "sleep"
    /\ AppOnly /\ UNCHANGED host

\* The front button is down after the wait.
DeepSleepAbort ==
    /\ step = "sleep" /\ frontHeld
    /\ app' = RestartTimers(app, {"sleep"})
    /\ lost' = lost \ app'.armed
    /\ step' = "idle"
    /\ AppOnly /\ UNCHANGED <<queue, host>>

\* esp_deep_sleep_start: nothing of the RAM survives.
DeepSleepStart ==
    /\ step = "sleep" /\ ~frontHeld
    /\ step' = "asleep"
    /\ app' = Boot(power) /\ queue' = <<>> /\ lost' = {} /\ host' = 0
    /\ mode' = "hold" /\ hint' = FALSE /\ modeSwitched' = FALSE
    /\ link' = "down" /\ linkOta' = FALSE /\ terminating' = FALSE /\ uncut' = 0 /\ rebooting' = FALSE
    /\ irqEnabled' = TRUE
    /\ UNCHANGED <<buttonVars, power, inputs>>

-----------------------------------------------------------------------------
(* What posts to the queue: timers, the PMIC interrupt, buttons, voice_ble *)

Awake == step # "asleep"

\* A one-shot timer fires; by then its timeout has passed.
TimerFires(k) ==
    /\ Awake /\ k \in app.armed \cap Happens
    /\ app' = [app EXCEPT !.armed = @ \ {k}, !.recent = @ \ {k}]
    /\ Post(<<Ev(k)>>)
    /\ UNCHANGED <<step, host, modeVars, linkVars, buttonVars, powerVars, inputs>>

\* Time passes while a timer is stopped: an older event of it is no longer stale.
TimePasses ==
    /\ Awake
    /\ \E k \in app.recent \ app.armed : app' = [app EXCEPT !.recent = @ \ {k}]
    /\ UNCHANGED <<step, queue, host, lost, modeVars, linkVars, buttonVars, powerVars,
                   inputs>>

\* battery_refresh_timer_cb, every BATTERY_REFRESH_FALLBACK_MS
BatteryTimer ==
    /\ Awake /\ "battery" \in Happens
    /\ Post(<<Ev("battery")>>)
    /\ UNCHANGED <<app, step, host, modeVars, linkVars, buttonVars, powerVars, inputs>>

\* Something of the outside world happens.
Input(kind) == kind \in Happens /\ inputs < MaxInputs /\ inputs' = inputs + 1

\* External power comes or goes; while the interrupt is enabled pmic_irq_isr
\* disables it and posts the event.
PowerChanges ==
    /\ Input("power")
    /\ power' = ~power
    /\ IF Awake /\ irqEnabled
         THEN irqEnabled' = FALSE /\ Post(<<Ev("powerIrq")>>)
         ELSE UNCHANGED <<irqEnabled, queue, lost>>
    /\ UNCHANGED <<app, step, host, modeVars, linkVars, buttonVars>>

\* The button callbacks
FrontPress ==
    /\ Awake /\ Input("front") /\ ~frontHeld
    /\ frontHeld' = TRUE /\ Post(<<Ev("frontDown")>>)
    /\ UNCHANGED <<app, step, host, modeVars, linkVars, sideHeld, powerVars>>

\* A held button is let go: no bound.
FrontRelease ==
    /\ Awake /\ frontHeld
    /\ frontHeld' = FALSE /\ Post(<<Ev("frontUp")>>)
    /\ UNCHANGED <<app, step, host, modeVars, linkVars, sideHeld, powerVars, inputs>>

SidePress ==
    /\ Awake /\ Input("side") /\ ~sideHeld
    /\ sideHeld' = TRUE /\ Post(<<Ev("sideDown")>>)
    /\ UNCHANGED <<app, step, host, modeVars, linkVars, frontHeld, powerVars>>

SideRelease ==
    /\ Awake /\ sideHeld
    /\ sideHeld' = FALSE /\ Post(<<Ev("sideUp")>>)
    /\ UNCHANGED <<app, step, host, modeVars, linkVars, frontHeld, powerVars, inputs>>

\* The front button wakes the device, which boots; the driver may report the
\* press that did.
Wake ==
    /\ step = "asleep" /\ Input("front") /\ ~frontHeld
    /\ frontHeld' = TRUE
    /\ step' = "idle" /\ app' = Boot(power)
    /\ queue' \in {<<>>, <<Ev("frontDown")>>}
    /\ UNCHANGED <<host, lost, modeVars, linkVars, sideHeld, powerVars>>

LinkRuns == Awake /\ ~rebooting

\* What brings the link up costs no input; what takes it down does.
LinkUp ==
    /\ LinkRuns /\ "link" \in Happens /\ link = "down"
    /\ link' = "up"
    /\ UNCHANGED <<app, step, queue, host, lost, modeVars, linkOta, terminating, uncut,
                   rebooting, buttonVars, powerVars, inputs>>

\* The last of the two subscriptions and the first control write.
LinkReady ==
    /\ LinkRuns /\ "link" \in Happens /\ link = "up"
    /\ link' = "ready" /\ Post(<<Ev("connected")>>)
    /\ UNCHANGED <<app, step, host, modeVars, linkOta, terminating, uncut, rebooting, buttonVars,
                   powerVars, inputs>>

\* The host unsubscribes.
LinkUnready ==
    /\ LinkRuns /\ Input("link") /\ link = "ready"
    /\ link' = "up" /\ host' = 0 /\ Post(<<Ev("disconnected")>>)
    /\ UNCHANGED <<app, step, modeVars, linkOta, terminating, uncut, rebooting, buttonVars,
                   powerVars>>

\* A connection ends, for any reason, or an attempt fails.
LinkLost ==
    /\ LinkRuns /\ (Input("link") \/ (terminating /\ UNCHANGED inputs))
    /\ link' = "down" /\ linkOta' = FALSE /\ terminating' = FALSE /\ uncut' = 0 /\ host' = 0
    /\ Post((IF linkOta THEN <<Ev("otaEnd")>> ELSE <<>>) \o <<Ev("disconnected")>>)
    /\ UNCHANGED <<app, step, modeVars, rebooting, buttonVars, powerVars>>

\* ble_control_cb posts what the host writes ...
HostWrites ==
    /\ LinkRuns /\ Input("host") /\ link # "down"
    /\ \E e \in HostEvents : Post(<<e>>)
    /\ UNCHANGED <<app, step, host, modeVars, linkVars, buttonVars, powerVars>>

\* ... and sets the interaction mode itself, on its own task: the test of
\* apply_interaction_mode and what it then draws are two steps.
ModeWrite ==
    /\ LinkRuns /\ Input("mode") /\ link # "down" /\ ~hint
    /\ mode' \in {"hold", "click"}
    /\ hint' = (app.ui = "ready" /\ ~app.recording)
    /\ modeSwitched' = TRUE
    /\ UNCHANGED <<app, step, queue, host, lost, linkVars, buttonVars, powerVars>>

ModeDraws ==
    /\ Awake /\ hint /\ hint' = FALSE
    /\ app' = [app EXCEPT !.scene = "idle"]
    /\ UNCHANGED <<step, queue, host, lost, mode, modeSwitched, linkVars, buttonVars,
                   powerVars, inputs>>

\* The OTA writes, as voice_ble answers them.  ota_begin ends an update that
\* was active, and may fail.
LinkOtaBegin ==
    /\ LinkRuns /\ Input("ota") /\ link # "down"
    /\ \E works \in BOOLEAN :
         /\ linkOta' = works
         /\ Post(<<Ev(IF works THEN "otaBegin" ELSE "otaEnd")>>)
    /\ UNCHANGED <<app, step, host, modeVars, link, terminating, uncut, rebooting, buttonVars,
                   powerVars>>

LinkOtaProgress ==
    /\ LinkRuns /\ Input("ota") /\ linkOta
    /\ Post(<<Ev("otaProgress")>>)
    /\ UNCHANGED <<app, step, host, modeVars, linkVars, buttonVars, powerVars>>

\* ota_send_error: an update that is active stays active, unless ota_finish or
\* ota_abort ended it.
LinkOtaEnds ==
    /\ LinkRuns /\ Input("ota") /\ link # "down"
    /\ linkOta' \in {linkOta, FALSE}
    /\ Post(<<Ev("otaEnd")>>)
    /\ UNCHANGED <<app, step, host, modeVars, link, terminating, uncut, rebooting, buttonVars,
                   powerVars>>

\* ota_finish succeeds: 500 ms later the device restarts.
LinkOtaDone ==
    /\ LinkRuns /\ Input("ota") /\ linkOta
    /\ linkOta' = FALSE /\ rebooting' = TRUE
    /\ Post(<<Ev("otaDone")>>)
    /\ UNCHANGED <<app, step, host, modeVars, link, terminating, uncut, buttonVars, powerVars>>

Reboot ==
    /\ rebooting /\ Awake
    /\ step' = "idle" /\ app' = Boot(power)
    /\ queue' = <<>> /\ lost' = {} /\ host' = 0
    /\ mode' = "hold" /\ hint' = FALSE /\ modeSwitched' = FALSE
    /\ link' = "down" /\ linkOta' = FALSE /\ terminating' = FALSE /\ uncut' = 0 /\ rebooting' = FALSE
    /\ irqEnabled' = TRUE
    /\ UNCHANGED <<buttonVars, power, inputs>>

-----------------------------------------------------------------------------
FrontDown == \/ FrontDownWakes \/ FrontDownStops \/ FrontDownConfirms
             \/ FrontDownDenied \/ FrontDownRecords \/ FrontDownFails

FrontUp == FrontUpWakes \/ FrontUpIgnored \/ FrontUpStops

DeepSleep == DeepSleepPutOff \/ DeepSleepPrepare \/ DeepSleepAbort \/ DeepSleepStart

AppTask ==
    \/ FrontDown \/ FrontTell \/ FrontUp \/ SideDown \/ SideUp \/ SideUpCancels
    \/ UiStateEvent \/ BleConnected \/ BleDisconnected \/ DisconnectRequest
    \/ PowerTimers \/ NotificationChime \/ CodexDoneTimeout
    \/ OtaBegin \/ OtaProgress \/ OtaDone \/ OtaEnd
    \/ DisplayDim \/ DisplayOff \/ PowerRead \/ PowerReadFails \/ DeepSleep

Buttons == FrontPress \/ FrontRelease \/ SidePress \/ SideRelease \/ Wake

Link ==
    \/ LinkUp \/ LinkReady \/ LinkUnready \/ LinkLost \/ HostWrites \/ ModeWrite
    \/ ModeDraws \/ LinkOtaBegin \/ LinkOtaProgress \/ LinkOtaEnds \/ LinkOtaDone
    \/ Reboot

Next ==
    \/ AppTask \/ Buttons \/ Link \/ PowerChanges \/ BatteryTimer \/ TimePasses
    \/ \E k \in Timers : TimerFires(k)

Spec == Init /\ [][Next]_vars

\* FreeRTOS runs the app task and the timers; a pressed button is let go some
\* day; the PMIC cannot be unreadable for ever.
FairSpec ==
    /\ Spec
    /\ WF_vars(AppTask) /\ SF_vars(PowerRead)
    /\ WF_vars(BatteryTimer) /\ \A k \in Timers : WF_vars(TimerFires(k))
    /\ WF_vars(FrontRelease) /\ WF_vars(Reboot)

-----------------------------------------------------------------------------
\* The type of every variable; the queue is never longer than it can be.
TypeOK ==
    /\ app \in AppState
    /\ step \in {"idle", "tell", "sleep", "asleep"}
    /\ queue \in Seq(Event) /\ Len(queue) <= QueueDepth
    /\ mode \in {"hold", "click"} /\ hint \in BOOLEAN /\ modeSwitched \in BOOLEAN
    /\ link \in {"down", "up", "ready"} /\ linkOta \in BOOLEAN
    /\ terminating \in BOOLEAN /\ uncut \in Nat /\ rebooting \in BOOLEAN
    /\ frontHeld \in BOOLEAN /\ sideHeld \in BOOLEAN
    /\ power \in BOOLEAN /\ irqEnabled \in BOOLEAN
    /\ inputs \in Nat /\ lost \subseteq EventTypes /\ host \in Nat

\* The CPU lock of a recording is held exactly while it runs, that of an update
\* only while it is shown, whatever ends them: leaked, it drains the battery.
LocksHeld ==
    /\ app.recLock <=> app.recording
    /\ app.otaLock => app.otaUpdating

\* A recording runs on a ready link, or the event that will end it is on its way
\* (or found the queue full).
RecordingOnLink == app.recording => link = "ready" \/ Pending("disconnected")

\* hold_to_talk: a recording runs while the button is held, or its release is on
\* its way (or lost), unless the host switched the mode meanwhile.
HoldToTalk ==
    app.recording /\ mode = "hold" /\ ~modeSwitched => frontHeld \/ Pending("frontUp")

\* An update and a recording do not go together: the event that stops the
\* recording, or ends the update, is on its way, or the device is about to
\* restart (a press that ota_finish overtook may find the update gone, and the
\* progress after it show it again).
OtaStopsRecording ==
    app.recording /\ ~rebooting =>
        /\ linkOta => Pending("otaBegin")
        /\ app.otaUpdating => Pending("otaBegin") \/ Pending("otaEnd")

\* On battery, with nothing going on, deep sleep is always still to come: its
\* timer runs, or its event is on the way or was lost after the last activity.
SleepScheduled ==
    Awake /\ step # "sleep" /\ ~app.recording /\ ~app.otaUpdating /\ ~app.powered =>
        "sleep" \in app.armed \/ Pending("sleep")

\* The host does not go on transcribing a recording that was cancelled on the
\* device: it was told, or the link is being cut (or that failed as well).
HostInStep ==
    host # 0 => (app.recording /\ host = app.audioSid) \/ terminating \/ host = uncut

\* The cached power state follows the real one, although the interrupt is off
\* for good once its event is lost: the periodic refresh makes up for it.
PowerNoticed ==
    \A p \in BOOLEAN : (Awake /\ power = p) ~> (app.powered = p \/ power # p \/ ~Awake)

=============================================================================
