----------------------------- MODULE WinSubtitle -----------------------------
(***************************************************************************)
(* The coordinator of the Windows host with subtitles as its target        *)
(* (src/desktop/windows/src/voice_stick_coordinator.cc).  Every recording  *)
(* is a SubtitleCycle with an ASR client of its own, and a device may      *)
(* start one while its earlier ones are still being recognized.            *)
(*                                                                         *)
(* All devices share the overlay window; what it runs when it is hidden    *)
(* tells a device that it is ready after an error.  Buttons, audio, the    *)
(* menu and the overlay's timer come on the UI thread; the ASR clients,    *)
(* the translation, the END timeout and a new connection are threads whose *)
(* calls of the overlay are posted to it.  The code takes no lock; a       *)
(* handler is one step here.                                               *)
(*                                                                         *)
(* External: the ASR clients, the translation service, the devices.  The   *)
(* subtitle window only draws, and is left out.  A recording is named by a *)
(* number, the pair of its device and session in the code.                 *)
(***************************************************************************)
EXTENDS Naturals, Sequences

CONSTANTS
    Devices,
    None,
    MaxSessions,  \* bound on how many recordings are made
    MaxPosted,    \* bound on the calls posted to the UI thread
    Modes,        \* interaction modes, one of these in a behaviour
    Transforms    \* whether subtitles are translated, one of these in a behaviour

ASSUME ModesAssumption == Modes \subseteq {"hold", "click"} /\ Transforms \subseteq BOOLEAN
ASSUME NoneAssumption == None \notin Devices
ASSUME BoundsAssumption == MaxSessions \in Nat \ {0} /\ MaxPosted \in Nat \ {0}

Sessions == 1..MaxSessions

VARIABLES
    live,         \* the keys of subtitle_cycles_
    cycle,        \* the SubtitleCycle of each
    active,       \* active_subtitle_sessions_: one for each device, or 0
    asr,          \* how far each ASR client is with its session
    translating,  \* what is being translated: a text and what it comes from
    overlay,      \* whom hiding the overlay tells, and its timer
    posted,       \* kUiDispatchMessage: calls of the overlay to come
    connected,    \* devices with a session
    changed,      \* PublishConnections is queued for the UI thread
    shown,        \* the ui_state each device was last sent
    last,         \* the number of the last recording
    mode, translate,
    \* history
    untold,       \* devices an error of which was replaced on the overlay
    superseded    \* recordings a press of the button ended without a release

config  == <<mode, translate>>
history == <<untold, superseded>>
vars == <<live, cycle, active, asr, translating, overlay, posted, connected, changed,
          shown, last, config, history>>

Fresh(d) == [device |-> d, frames |-> FALSE, long |-> FALSE, asr_started |-> FALSE,
             sent_final |-> FALSE, finished |-> FALSE, waiting |-> FALSE]

Shows == {"ready", "recording", "thinking"}

SubtitleCycles == [device : Devices \cup {None}, frames : BOOLEAN, long : BOOLEAN,
                   asr_started : BOOLEAN, sent_final : BOOLEAN, finished : BOOLEAN,
                   waiting : BOOLEAN]

Calls == [call : {"show", "hide", "error", "dialog"}, tells : Devices \cup {None}]

Texts == [of : Sessions, final : BOOLEAN]

OverlayState == [tells : Devices \cup {None}, timer : BOOLEAN]

\* The type of every variable.
TypeOK ==
    /\ live \subseteq Sessions /\ cycle \in [Sessions -> SubtitleCycles]
    /\ active \in [Devices -> Sessions \cup {0}]
    /\ asr \in [Sessions -> {"idle", "open", "last"}]
    /\ translating \subseteq Texts
    /\ overlay \in OverlayState /\ posted \in Seq(Calls)
    /\ connected \subseteq Devices /\ changed \in BOOLEAN
    /\ shown \in [Devices -> Shows]
    /\ last \in 0..MaxSessions /\ mode \in Modes /\ translate \in Transforms
    /\ untold \subseteq Devices /\ superseded \subseteq Sessions

Init ==
    /\ live = {} /\ cycle = [s \in Sessions |-> Fresh(None)]
    /\ active = [d \in Devices |-> 0]
    /\ asr = [s \in Sessions |-> "idle"]
    /\ translating = {}
    /\ overlay = [tells |-> None, timer |-> FALSE] /\ posted = <<>>
    /\ connected = Devices /\ changed = FALSE
    /\ shown = [d \in Devices |-> "ready"]
    /\ last = 0 /\ mode \in Modes /\ translate \in Transforms
    /\ untold = {} /\ superseded = {}

-----------------------------------------------------------------------------
(* What a handler works on, and how its result becomes the next state. *)

World == [live |-> live, cycle |-> cycle, active |-> active, asr |-> asr,
          translating |-> translating, overlay |-> overlay, posted |-> posted,
          connected |-> connected, shown |-> shown, last |-> last,
          untold |-> untold, superseded |-> superseded]

Becomes(w) ==
    /\ Len(w.posted) <= MaxPosted
    /\ live' = w.live /\ cycle' = w.cycle /\ active' = w.active /\ asr' = w.asr
    /\ translating' = w.translating /\ overlay' = w.overlay
    /\ posted' = w.posted /\ connected' = w.connected /\ shown' = w.shown /\ last' = w.last
    /\ untold' = w.untold /\ superseded' = w.superseded
    /\ UNCHANGED config

\* SendUiState, to a device that has a session.
SendUiState(w, d, show) ==
    IF d \in w.connected THEN [w EXCEPT !.shown[d] = show] ELSE w

-----------------------------------------------------------------------------
(* The overlay. *)

\* OverlayWindow::Hide runs what was waiting for it.
Hide(w) ==
    LET told == IF w.overlay.tells = None THEN w ELSE SendUiState(w, w.overlay.tells, "ready")
    IN  [told EXCEPT !.overlay = [tells |-> None, timer |-> FALSE]]

\* What an error or a dialog replaces is not run.
Replace(w, d, timed) ==
    [w EXCEPT !.overlay = [tells |-> d, timer |-> timed],
              !.untold = @ \cup ({w.overlay.tells} \ {None, d})]

Perform(w, call) ==
    CASE call.call = "show"   -> [w EXCEPT !.overlay.timer = FALSE]
      [] call.call = "hide"   -> Hide(w)
      [] call.call = "error"  -> Replace(w, call.tells, TRUE)
      [] call.call = "dialog" -> Replace(w, None, FALSE)

DispatchToUi(w, thread, name, d) ==
    LET call == [call |-> name, tells |-> d] IN
    IF thread = "ui" THEN Perform(w, call) ELSE [w EXCEPT !.posted = Append(@, call)]

HideOverlay(w, thread) == DispatchToUi(w, thread, "hide", None)

-----------------------------------------------------------------------------
(* The table of recordings. *)

DeviceOf(w, s) == w.cycle[s].device

IsActiveSubtitleCycle(w, s) == w.active[DeviceOf(w, s)] = s

HasActiveSubtitleSession(w, d) == w.active[d] # 0

\* Mutant: whatever recording is active.
ClearActiveSubtitleSessionAny(w, s) == [w EXCEPT !.active[DeviceOf(w, s)] = 0]

ClearActiveSubtitleSession(w, s) ==
    IF IsActiveSubtitleCycle(w, s) THEN [w EXCEPT !.active[DeviceOf(w, s)] = 0] ELSE w

\* The ASR client goes with its recording.
EraseAll(w, ss) ==
    [w EXCEPT
        !.live  = @ \ ss,
        !.cycle = [s \in Sessions |-> IF s \in ss THEN Fresh(DeviceOf(w, s)) ELSE w.cycle[s]],
        !.asr   = [s \in Sessions |-> IF s \in ss THEN "idle" ELSE w.asr[s]]]

Erase(w, s) == EraseAll(w, {s})

LiveOf(w, d) == {s \in w.live : DeviceOf(w, s) = d}

FinishSubtitleCycleWithError(w, thread, s) ==
    IF s \notin w.live THEN w
    ELSE Erase(DispatchToUi(ClearActiveSubtitleSession(w, s), thread, "error", DeviceOf(w, s)), s)

\* Mutant: the device is not told.
FinishSubtitleCycleSilent(w, thread, s, hide) ==
    IF s \notin w.live THEN w
    ELSE Erase(ClearActiveSubtitleSession(IF hide THEN HideOverlay(w, thread) ELSE w, s), s)

FinishSubtitleCycle(w, thread, s, hide) ==
    IF s \notin w.live THEN w
    ELSE LET d       == DeviceOf(w, s)
             cleared == ClearActiveSubtitleSession(IF hide THEN HideOverlay(w, thread) ELSE w, s)
         IN  Erase(IF HasActiveSubtitleSession(cleared, d) THEN cleared
                   ELSE SendUiState(cleared, d, "ready"), s)

ShouldHideOverlay(w, s) ==
    IsActiveSubtitleCycle(w, s) \/ ~HasActiveSubtitleSession(w, DeviceOf(w, s))

CancelSubtitleCycle(w, thread, d) ==
    LET s == w.active[d] IN
    IF s \notin w.live THEN w
    ELSE Erase(ClearActiveSubtitleSession(SendUiState(HideOverlay(w, thread), d, "ready"), s), s)

CancelSubtitleCyclesForDevice(w, thread, d) ==
    SendUiState(HideOverlay(EraseAll([w EXCEPT !.active[d] = 0], LiveOf(w, d)), thread),
                d, "ready")

-----------------------------------------------------------------------------
(* Texts. *)

\* The completion of TransformText: a segment has none of its own.
ShowSubtitleText(w, thread, s, final, ok) ==
    LET d == DeviceOf(w, s)
        told == IF ok THEN IF HasActiveSubtitleSession(w, d) THEN w ELSE HideOverlay(w, thread)
                ELSE DispatchToUi(w, thread, "error", None)
    IN  IF final THEN FinishSubtitleCycle(told, thread, s, ok /\ ShouldHideOverlay(told, s))
        ELSE told

TransformText(w, s, final) ==
    IF translate THEN [w EXCEPT !.translating = @ \cup {[of |-> s, final |-> final]}]
    ELSE ShowSubtitleText(w, "asr", s, final, TRUE)

\* Definite segments are asked for in click_to_talk.
HandleSubtitleDefiniteSegment(w, s) ==
    IF IsActiveSubtitleCycle(w, s) /\ mode = "click"
    THEN TransformText(HideOverlay(w, "asr"), s, FALSE) ELSE w

FinishSubtitleCycleWithFinalText(w, s, empty) ==
    IF s \notin w.live \/ w.cycle[s].finished THEN w
    ELSE LET got == [w EXCEPT !.cycle[s].finished = TRUE] IN
         IF empty THEN FinishSubtitleCycle(got, "asr", s, ShouldHideOverlay(got, s))
         ELSE TransformText(got, s, TRUE)

OnPartial(w, s) ==
    IF s \notin w.live \/ w.active[DeviceOf(w, s)] \notin {0, s} THEN w
    ELSE LET partial == DispatchToUi(w, "asr", "show", None) IN
         IF IsActiveSubtitleCycle(w, s) /\ w.cycle[s].sent_final
         THEN SendUiState(partial, DeviceOf(w, s), "thinking") ELSE partial

\* on_error destroys the client that calls it; on_upgrade_url is called all the
\* same, and does not look for the recording.
OnUpgrade(w, s) ==
    DispatchToUi(SendUiState(FinishSubtitleCycleWithError(w, "asr", s), DeviceOf(w, s), "ready"),
                 "asr", "dialog", None)

-----------------------------------------------------------------------------
(* Audio. *)

\* The client takes the audio, or has reported an error when it returns; it
\* drops what comes after the end of its session.
SendOrBufferSubtitleOggChunk(w, thread, s, isLast, start, ok) ==
    CASE ~w.cycle[s].asr_started /\ ~start           -> w
      [] w.cycle[s].asr_started /\ w.asr[s] = "idle" -> w
      [] OTHER ->
            IF ~ok THEN FinishSubtitleCycleWithError(w, thread, s)
            ELSE [w EXCEPT !.cycle[s].asr_started = TRUE,
                           !.asr[s] = IF isLast \/ @ = "last" THEN "last" ELSE "open"]

SendSubtitleFinalOggChunkIfNeeded(w, thread, s, ok) ==
    LET sent == [w EXCEPT !.cycle[s].sent_final = TRUE, !.cycle[s].waiting = FALSE]
        gone == Erase(ClearActiveSubtitleSession(sent, s), s)
    IN  CASE s \notin w.live \/ w.cycle[s].sent_final -> w
          [] s \in w.live /\ ~w.cycle[s].sent_final
                /\ ~w.cycle[s].asr_started /\ ~w.cycle[s].long ->
                IF IsActiveSubtitleCycle(w, s)
                THEN SendUiState(HideOverlay(gone, thread), DeviceOf(w, s), "ready") ELSE gone
          [] s \in w.live /\ ~w.cycle[s].sent_final
                /\ (w.cycle[s].asr_started \/ w.cycle[s].long) /\ ~w.cycle[s].frames ->
                FinishSubtitleCycleWithError(sent, thread, s)
          [] OTHER -> SendOrBufferSubtitleOggChunk(sent, thread, s, TRUE, TRUE, ok)

\* The END frame has no payload.
HandleSubtitleAudioFrame(w, s, end, ok) ==
    IF end THEN SendSubtitleFinalOggChunkIfNeeded([w EXCEPT !.cycle[s].waiting = FALSE],
                                                  "ui", s, ok)
    ELSE SendOrBufferSubtitleOggChunk([w EXCEPT !.cycle[s].frames = TRUE], "ui", s, FALSE,
                                      w.cycle[s].long /\ ~w.cycle[s].waiting, ok)

\* hold_to_talk: the device may record again at once.
FinishSubtitleAudioInput(w, s) ==
    IF mode = "hold"
    THEN SendUiState(ClearActiveSubtitleSession(w, s), DeviceOf(w, s), "ready")
    ELSE SendUiState(w, DeviceOf(w, s), "thinking")

-----------------------------------------------------------------------------
(* Buttons and connections. *)

\* A new recording; an active one is left to its END.
HandleSubtitlePrimaryButtonDown(w, s, d) ==
    IF s = 0 THEN SendUiState(w, d, "ready")
    ELSE SendUiState(
             DispatchToUi(
                 [w EXCEPT !.live = @ \cup {s}, !.cycle[s] = Fresh(d), !.active[d] = s,
                           !.last = s, !.untold = @ \ {d},
                           !.superseded = @ \cup ({w.active[d]} \ {0})],
                 "ui", "show", None),
             d, "recording")

HandleSubtitlePrimaryButtonUp(w, d) ==
    LET s == w.active[d] IN
    CASE s \notin w.live                      -> w
      [] s \in w.live /\ ~w.cycle[s].long     -> CancelSubtitleCycle(w, "ui", d)
      [] OTHER -> FinishSubtitleAudioInput([w EXCEPT !.cycle[s].waiting = TRUE], s)

HandleButtonClick(w, s, d) ==
    CASE mode # "click"                                      -> SendUiState(w, d, "ready")
      [] mode = "click" /\ HasActiveSubtitleSession(w, d)    -> HandleSubtitlePrimaryButtonUp(w, d)
      [] OTHER -> HandleSubtitlePrimaryButtonDown(w, s, d)

HandleSecondaryButtonClick(w, d) ==
    CASE HasActiveSubtitleSession(w, d)                         -> CancelSubtitleCycle(w, "ui", d)
      [] ~HasActiveSubtitleSession(w, d) /\ LiveOf(w, d) # {}   ->
            CancelSubtitleCyclesForDevice(w, "ui", d)
      [] OTHER                                                  -> w

CancelActiveCycleIfDeviceDisconnected(w, thread) ==
    LET gone == {s \in w.live : DeviceOf(w, s) \notin w.connected} IN
    IF gone = {} THEN w
    ELSE EraseAll([HideOverlay(w, thread) EXCEPT
                      !.active = [d \in Devices |-> IF \E s \in gone : DeviceOf(w, s) = d
                                                    THEN 0 ELSE w.active[d]]], gone)

-----------------------------------------------------------------------------
(* The UI thread. *)

NewSession == {0, last + 1} \cap (Sessions \cup {0})

PrimaryButtonDown(d) ==
    /\ mode = "hold" /\ d \in connected
    /\ \E s \in NewSession : Becomes(HandleSubtitlePrimaryButtonDown(World, s, d))
    /\ UNCHANGED changed

PrimaryButtonUp(d) ==
    /\ mode = "hold" /\ d \in connected
    /\ Becomes(HandleSubtitlePrimaryButtonUp(World, d))
    /\ UNCHANGED changed

PrimaryButtonClick(d) ==
    /\ d \in connected
    /\ \E s \in NewSession : Becomes(HandleButtonClick(World, s, d))
    /\ UNCHANGED changed

SecondaryButtonUp(d) ==
    /\ d \in connected
    /\ Becomes(HandleSecondaryButtonClick(World, d))
    /\ UNCHANGED changed

AudioFrame(s) ==
    /\ s \in live /\ DeviceOf(World, s) \in connected
    /\ \E end, ok \in BOOLEAN : Becomes(HandleSubtitleAudioFrame(World, s, end, ok))
    /\ UNCHANGED changed

\* A changed configuration cancels every recording; EnterReady tells every device.
UpdateConfig ==
    /\ live # {}
    /\ LET none == EraseAll([World EXCEPT !.active = [d \in Devices |-> 0]], live) IN
       Becomes(HideOverlay([none EXCEPT !.shown = [d \in Devices |->
                               IF d \in connected THEN "ready" ELSE none.shown[d]]], "ui"))
    /\ UNCHANGED changed

\* Forgetting a device closes every session.
RemovePairedDevice ==
    /\ connected # {}
    /\ Becomes(CancelActiveCycleIfDeviceDisconnected([World EXCEPT !.connected = {}], "ui"))
    /\ UNCHANGED changed

ProcessPosted ==
    /\ posted # <<>>
    /\ Becomes(Perform([World EXCEPT !.posted = Tail(posted)], Head(posted)))
    /\ UNCHANGED changed

OnTimer ==
    /\ overlay.timer
    /\ Becomes(Hide(World))
    /\ UNCHANGED changed

ConnectionChange ==
    /\ changed /\ changed' = FALSE
    /\ Becomes(CancelActiveCycleIfDeviceDisconnected(World, "ui"))

-----------------------------------------------------------------------------
(* Other threads. *)

AudioEndTimeout(s) ==
    /\ s \in live /\ cycle[s].waiting
    /\ \E ok \in BOOLEAN : Becomes(SendSubtitleFinalOggChunkIfNeeded(World, "timeout", s, ok))
    /\ UNCHANGED changed

Disconnected(d) ==
    /\ d \in connected /\ changed' = TRUE
    /\ Becomes([World EXCEPT !.connected = @ \ {d}])

\* The coroutine that made the connection announces it, and the device shows
\* that it is ready.
Connected(d) ==
    /\ d \notin connected
    /\ Becomes(CancelActiveCycleIfDeviceDisconnected(
                   [World EXCEPT !.connected = @ \cup {d}, !.shown[d] = "ready"], "pool"))
    /\ UNCHANGED changed

TimePasses(s) ==
    /\ s \in live /\ ~cycle[s].long
    /\ Becomes([World EXCEPT !.cycle[s].long = TRUE])
    /\ UNCHANGED changed

\* The worker of an ASR client.  A callback that comes when the recording is gone
\* finds none, and is left out.
AsrPartial(s) ==
    /\ asr[s] # "idle"
    /\ Becomes(OnPartial(World, s))
    /\ UNCHANGED changed

AsrSegment(s) ==
    /\ asr[s] # "idle"
    /\ Becomes(HandleSubtitleDefiniteSegment(World, s))
    /\ UNCHANGED changed

AsrFinal(s) ==
    /\ asr[s] = "last"
    /\ \E empty \in BOOLEAN :
          Becomes(FinishSubtitleCycleWithFinalText([World EXCEPT !.asr[s] = "idle"], s, empty))
    /\ UNCHANGED changed

AsrFails(s) ==
    /\ asr[s] # "idle"
    /\ \/ Becomes(FinishSubtitleCycleWithError(World, "asr", s))
       \/ Becomes(OnUpgrade(World, s))
    /\ UNCHANGED changed

\* A translation is not told of a cancellation.
Translated(text) ==
    /\ text \in translating
    /\ \E ok \in BOOLEAN :
          Becomes(ShowSubtitleText([World EXCEPT !.translating = @ \ {text}],
                                   "translator", text.of, text.final, ok))
    /\ UNCHANGED changed

-----------------------------------------------------------------------------

Next ==
    \/ UpdateConfig \/ RemovePairedDevice \/ ProcessPosted \/ OnTimer \/ ConnectionChange
    \/ \E d \in Devices :
          \/ PrimaryButtonDown(d) \/ PrimaryButtonUp(d) \/ PrimaryButtonClick(d)
          \/ SecondaryButtonUp(d) \/ Disconnected(d) \/ Connected(d)
    \/ \E s \in Sessions :
          \/ AudioFrame(s) \/ AudioEndTimeout(s) \/ TimePasses(s)
          \/ AsrPartial(s) \/ AsrSegment(s) \/ AsrFinal(s) \/ AsrFails(s)
    \/ \E text \in Texts : Translated(text)

Spec == Init /\ [][Next]_vars

-----------------------------------------------------------------------------
(* Properties. *)

IsPosted(d) == \E i \in DOMAIN posted : posted[i].call = "error" /\ posted[i].tells = d

\* A connected device that shows a recording has one that is active, or the
\* overlay has still to tell it that it is ready, unless an error of something
\* else replaced its own there: whatever ends a recording tells its device.
DeviceShows ==
    \A d \in connected : shown[d] # "ready" =>
        active[d] # 0 \/ overlay.tells = d \/ IsPosted(d) \/ d \in untold

\* The user is done with a recording, and did not start another in its midst.
IsOver(s) ==
    /\ s \in live
    /\ cycle[s].waiting \/ cycle[s].sent_final
          \/ (active[cycle[s].device] # s /\ s \notin superseded)

\* A recording that is over has somebody who ends it, and with it its ASR
\* connection: the END timeout, the ASR service that was given the last of the
\* audio, or the translation of its text; whatever newer recordings of the device
\* do meanwhile (ClearActiveSubtitleSession compares the session).
RecordingsHeld ==
    \A s \in Sessions : IsOver(s) =>
        cycle[s].waiting \/ asr[s] = "last" \/ [of |-> s, final |-> TRUE] \in translating
=============================================================================
