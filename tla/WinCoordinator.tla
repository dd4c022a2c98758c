--------------------------- MODULE WinCoordinator ---------------------------
(***************************************************************************)
(* The coordinator of the Windows host                                     *)
(* (src/desktop/windows/src/voice_stick_coordinator.cc), one recording and *)
(* its text at a time, with the overlay window it shows them in            *)
(* (overlay_window.cc) and the dispatcher between the two (win32_app.cc).  *)
(*                                                                         *)
(* Device events, the menu and the overlay's timer run on the UI thread,   *)
(* where a call of the overlay is made at once, callbacks included.  The   *)
(* callbacks of the ASR client run on its worker, a translation on a       *)
(* thread of its own, the END timeout on another, and a connection that is *)
(* made on a pool thread: their calls of the overlay are posted to the UI  *)
(* thread.  No lock is common to all of them; a handler is one step here.  *)
(*                                                                         *)
(* External: the ASR client (AsrClient.tla), the translation service, the  *)
(* devices and their links.  A text is named after the recording it comes  *)
(* from.  Devices with subtitles as their target are left to WinSubtitle.  *)
(***************************************************************************)
EXTENDS Naturals, Sequences, FiniteSets

CONSTANTS
    Devices,
    None,
    MaxCycles,    \* bound on how many recordings are made
    MaxPosted,    \* bound on the calls posted to the UI thread
    Modes,        \* interaction modes, one of these in a behaviour
    Transforms    \* whether texts are translated, one of these in a behaviour

ASSUME ModesAssumption == Modes \subseteq {"hold", "click"} /\ Transforms \subseteq BOOLEAN
ASSUME NoneAssumption == None \notin Devices
ASSUME BoundsAssumption == MaxCycles \in Nat \ {0} /\ MaxPosted \in Nat \ {0}

Cycles == 1..MaxCycles

VARIABLES
    co,           \* the members of the coordinator
    overlay,      \* the overlay window
    posted,       \* kUiDispatchMessage: calls of the overlay to come
    asr,          \* the recording the ASR client has a session for, or 0, and
                  \* whether it was given the last of the audio
    answer,       \* a callback the ASR worker is about to make
    translating,  \* texts that are being translated
    connected,    \* devices with a session
    changed,      \* PublishConnections is queued for the UI thread
    shown,        \* the ui_state each device was last sent
    long,         \* the recording has lasted half a second
    cycle,        \* the number of the last recording
    mode, translate,
    \* history
    cancelled,    \* recordings that were cancelled or given up with an error
    pastes,       \* how often each text was pasted, up to 2, since it was
                  \* last brought back for confirmation
    late          \* a callback or a posted call came after what it was about

config  == <<mode, translate>>
history == <<cancelled, pastes, late>>
vars == <<co, overlay, posted, asr, answer, translating, connected, changed, shown, long, cycle,
          config, history>>

States == {"ready", "recording", "finalizing", "pending", "paused", "error"}
Shows  == {"ready", "recording", "thinking", "pending", "error"}
Texts  == Cycles \cup {0}

\* What the overlay calls when it is hidden.
NoCallback     == [run |-> "nothing", text |-> 0]
CommitOf(text) == [run |-> "commit", text |-> text]
RecoverIt      == [run |-> "recover", text |-> 0]
ShowDialog     == [run |-> "dialog", text |-> 0]
Callbacks == {NoCallback, RecoverIt, ShowDialog} \cup {CommitOf(t) : t \in Cycles}

OverlayModes == {"hidden", "listening", "countdown", "paused", "error"}

NoSession == [of |-> 0, last |-> FALSE]
NoAnswer  == [kind |-> "none", of |-> 0]

\* The members, the overlay with what is posted to it, and the ASR client.
Members ==
    [state : States, session : Texts, device : Devices \cup {None},
     frames : BOOLEAN, asr_started : BOOLEAN, sent_final : BOOLEAN,
     pasted_final : BOOLEAN, waiting : BOOLEAN,
     pending : {"idle", "waiting", "paused"}, text : Texts,
     last : Texts, last_device : Devices \cup {None}, error : BOOLEAN]
OverlayState == [mode : OverlayModes, callback : Callbacks, timer : BOOLEAN]
Calls == [mode : OverlayModes, callback : Callbacks]
AsrSessions == [of : Texts, last : BOOLEAN]
Answers == [kind : {"none", "partial", "final", "empty", "error", "upgrade"}, of : Texts]

\* The type of every variable: the records the handlers build keep their shape.
TypeOK ==
    /\ co \in Members /\ overlay \in OverlayState /\ posted \in Seq(Calls)
    /\ asr \in AsrSessions /\ answer \in Answers
    /\ translating \subseteq Cycles
    /\ connected \subseteq Devices /\ changed \in BOOLEAN
    /\ shown \in [Devices -> Shows]
    /\ long \in BOOLEAN /\ cycle \in 0..MaxCycles
    /\ mode \in Modes /\ translate \in Transforms
    /\ cancelled \subseteq Cycles
    /\ pastes \in [Cycles -> 0..2]
    /\ late \in BOOLEAN

Init ==
    /\ co = [state |-> "ready", session |-> 0, device |-> None, frames |-> FALSE,
             asr_started |-> FALSE, sent_final |-> FALSE, pasted_final |-> FALSE,
             waiting |-> FALSE, pending |-> "idle", text |-> 0,
             last |-> 0, last_device |-> None, error |-> FALSE]
    /\ overlay = [mode |-> "hidden", callback |-> NoCallback, timer |-> FALSE]
    /\ posted = <<>>
    /\ asr = NoSession /\ answer = NoAnswer /\ translating = {}
    /\ connected = Devices /\ changed = FALSE
    /\ shown = [d \in Devices |-> "ready"]
    /\ long = FALSE /\ cycle = 0
    /\ mode \in Modes /\ translate \in Transforms
    /\ cancelled = {} /\ pastes = [c \in Cycles |-> 0]
    /\ late = FALSE

-----------------------------------------------------------------------------
(* What a handler works on, and how its result becomes the next state.  The *)
(* operators that follow take this record and the thread they run on.       *)

World == [co |-> co, overlay |-> overlay, posted |-> posted, asr |-> asr,
          translating |-> translating, connected |-> connected, shown |-> shown,
          long |-> long, cycle |-> cycle,
          cancelled |-> cancelled, pastes |-> pastes,
          late |-> late]

Becomes(w) ==
    /\ co' = w.co /\ overlay' = w.overlay /\ posted' = w.posted /\ asr' = w.asr
    /\ translating' = w.translating /\ connected' = w.connected /\ shown' = w.shown
    /\ long' = w.long /\ cycle' = w.cycle
    /\ cancelled' = w.cancelled /\ pastes' = w.pastes
    /\ late' = w.late
    /\ UNCHANGED config

\* What the ASR client is given.  Starting it after its connection failed joins
\* the worker, whose callback comes first.
Gives(w) ==
    /\ Becomes(w)
    /\ asr.of = 0 /\ w.asr.of # 0 => answer.kind \notin {"error", "upgrade"}

\* SendUiState to one device, if it has a session.
SendUiState(w, d, show) ==
    IF d \in w.connected THEN [w EXCEPT !.shown[d] = show] ELSE w

\* Without an active device, to every one.
SendUiStateForActiveDevice(w, show) ==
    [w EXCEPT !.shown = [d \in Devices |->
        IF d \in w.connected /\ w.co.device \in {d, None} THEN show ELSE w.shown[d]]]

FinishRecognitionCycle(w) ==
    [w EXCEPT !.co.waiting = FALSE, !.co.asr_started = FALSE,
              !.co.sent_final = FALSE, !.co.pasted_final = FALSE]

\* Mutant: the device is not told.
EnterReadyShownSilent(w) == [w EXCEPT !.co.state = "ready", !.co.device = None]

\* EnterReady when the overlay is left as it is.
EnterReadyShown(w) ==
    [SendUiStateForActiveDevice([w EXCEPT !.co.state = "ready"], "ready")
        EXCEPT !.co.device = None]

-----------------------------------------------------------------------------
(* The overlay. *)

CompletePendingPaste(w, text) ==
    LET done == EnterReadyShown(FinishRecognitionCycle(
                    [w EXCEPT !.co.pending = "idle", !.co.text = 0]))
    IN  [done EXCEPT !.pastes[text] = IF @ < 2 THEN @ + 1 ELSE @]

\* Mutant: whatever is pending is pasted.
CommitPendingPasteAny(w, text) == CompletePendingPaste(w, text)

\* The callback of a countdown or of the front button: the text has to be the
\* one that is pending.
CommitPendingPaste(w, text) ==
    IF w.co.text = text THEN CompletePendingPaste(w, text) ELSE w

RecoverFromAsrError(w) ==
    IF w.co.error THEN EnterReadyShown([w EXCEPT !.co.error = FALSE]) ELSE w

Run(w, callback) ==
    CASE callback.run = "commit"  -> CommitPendingPaste(w, callback.text)
      [] callback.run = "recover" -> RecoverFromAsrError(w)
      [] OTHER                    -> w

\* OverlayWindow::Hide: the callback that was waiting runs, unless it is
\* replaced.
Hide(w, callback) ==
    Run([w EXCEPT !.overlay = [mode |-> "hidden", callback |-> NoCallback, timer |-> FALSE]],
        IF callback = NoCallback THEN w.overlay.callback ELSE callback)

\* OverlayWindow::Show stops the timer and keeps the callback; a countdown and
\* an error set both.
Show(w, display, callback) ==
    IF display \in {"countdown", "error"}
    THEN [w EXCEPT !.overlay = [mode |-> display, callback |-> callback, timer |-> TRUE]]
    ELSE [w EXCEPT !.overlay.mode = display, !.overlay.timer = FALSE]

Perform(w, call) ==
    IF call.mode = "hidden" THEN Hide(w, call.callback) ELSE Show(w, call.mode, call.callback)

DispatchToUi(w, thread, display, callback) ==
    LET call == [mode |-> display, callback |-> callback] IN
    IF thread = "ui" THEN Perform(w, call) ELSE [w EXCEPT !.posted = Append(@, call)]

-----------------------------------------------------------------------------
(* The states of a recording. *)

EnterReady(w, thread) ==
    LET told   == SendUiStateForActiveDevice([w EXCEPT !.co.state = "ready"], "ready")
        hidden == DispatchToUi(told, thread, "hidden", NoCallback)
    IN  [hidden EXCEPT !.co.device = None]

EnterFinalizing(w) ==
    SendUiStateForActiveDevice([w EXCEPT !.co.state = "finalizing"], "thinking")

EnterPendingConfirmation(w, thread, text) ==
    SendUiStateForActiveDevice(
        DispatchToUi([w EXCEPT !.co.pending = "waiting", !.co.text = text, !.co.state = "pending"],
                     thread, "countdown", CommitOf(text)),
        "pending")

EnterPausedConfirmation(w, thread, text) ==
    SendUiStateForActiveDevice(
        DispatchToUi([w EXCEPT !.co.pending = "paused", !.co.text = text, !.co.state = "paused"],
                     thread, "paused", NoCallback),
        "pending")

EnterError(w, thread) ==
    DispatchToUi(SendUiStateForActiveDevice([w EXCEPT !.co.error = TRUE, !.co.state = "error"],
                                            "error"),
                 thread, "error", RecoverIt)

RefreshDeviceUiState(w, d) ==
    SendUiState(w, d,
        IF w.co.device # d THEN "ready"
        ELSE CASE w.co.state = "finalizing"            -> "thinking"
               [] w.co.state \in {"pending", "paused"} -> "pending"
               [] OTHER                                -> w.co.state)

\* asr_->Cancel() with what is pending and the recording given up.
Abandon(w) ==
    FinishRecognitionCycle(
        [w EXCEPT !.asr = NoSession, !.co.session = 0, !.co.pending = "idle", !.co.text = 0,
                  !.cancelled = @ \cup (IF w.co.state = "ready" THEN {}
                                        ELSE {IF w.co.pending = "idle" THEN w.cycle
                                              ELSE w.co.text})])

CancelRecognitionInProgress(w, thread) == EnterReady(Abandon(w), thread)

\* What is pending is kept: nothing is, while a recording is in progress.
CancelShortRecording(w, thread) == EnterReady(Abandon(w), thread)

FinishWithAsrError(w, thread) == EnterError(Abandon(w), thread)

\* Mutant: a recording without words does not end.
FinishWithFinalTextOnly(w, thread, text) ==
    IF w.co.pasted_final \/ text = 0 THEN [w EXCEPT !.co.pasted_final = TRUE]
    ELSE EnterPendingConfirmation([w EXCEPT !.co.pasted_final = TRUE], thread, text)

FinishWithFinalText(w, thread, text) ==
    LET got == [w EXCEPT !.co.pasted_final = TRUE] IN
    CASE w.co.pasted_final -> w
      [] ~w.co.pasted_final /\ text = 0 ->
            LET idle == [got EXCEPT !.co.pending = "idle", !.co.text = 0]
            IN  EnterReadyShown(DispatchToUi(FinishRecognitionCycle(idle), thread,
                                             "hidden", NoCallback))
      [] ~w.co.pasted_final /\ text # 0 /\ translate ->
            [got EXCEPT !.translating = @ \cup {text}]
      [] OTHER ->
            EnterPendingConfirmation(
                [got EXCEPT !.co.last = text, !.co.last_device = w.co.device], thread, text)

-----------------------------------------------------------------------------
(* Callbacks of the ASR client. *)

OnPartial(w) ==
    LET partial == DispatchToUi(w, "asr", "listening", NoCallback) IN
    IF w.co.sent_final THEN SendUiStateForActiveDevice(partial, "thinking") ELSE partial

\* on_error, and then on_upgrade_url, which recovers and opens a dialog.
OnUpgrade(w) ==
    DispatchToUi(RecoverFromAsrError(FinishWithAsrError(w, "asr")), "asr", "hidden", ShowDialog)

\* The callback that the ASR worker is about to make.
Deliver(w) ==
    LET told == [w EXCEPT !.late = @ \/ answer.of \in w.cancelled] IN
    CASE answer.kind = "partial" -> OnPartial(told)
      [] answer.kind = "final"   -> FinishWithFinalText(told, "asr", answer.of)
      [] answer.kind = "empty"   -> FinishWithFinalText(told, "asr", 0)
      [] answer.kind = "error"   -> FinishWithAsrError(told, "asr")
      [] answer.kind = "upgrade" -> OnUpgrade(told)
      [] OTHER                   -> told

-----------------------------------------------------------------------------
(* Audio for the ASR client. *)

\* The client takes the audio, or reports an error before it returns; a start
\* that fails is an error, too, unless one was shown for it.  Whatever is
\* buffered goes with it once a start is possible.
SendOrBufferOggChunk(w, thread, last, start, ok) ==
    IF ~w.co.asr_started /\ ~start THEN w
    ELSE IF ok THEN [w EXCEPT !.co.asr_started = TRUE,
                              !.asr = [of |-> w.cycle, last |-> last]]
    ELSE FinishWithAsrError(w, thread)

SendFinalOggChunkIfNeeded(w, thread, ok) ==
    LET sent == [w EXCEPT !.co.sent_final = TRUE, !.co.waiting = FALSE] IN
    CASE w.co.sent_final -> w
      [] ~w.co.sent_final /\ ~w.co.asr_started /\ ~w.long ->
            CancelShortRecording(sent, thread)
      [] ~w.co.sent_final /\ (w.co.asr_started \/ w.long) /\ ~w.co.frames ->
            FinishWithAsrError(sent, thread)
      [] OTHER ->
            EnterFinalizing(SendOrBufferOggChunk([sent EXCEPT !.co.session = 0],
                                                 thread, TRUE, TRUE, ok))

\* The END frame has no payload.
HandleAudioFrame(w, d, end, ok) ==
    CASE w.co.session = 0 \/ w.co.device # d -> w
      [] w.co.session # 0 /\ w.co.device = d /\ end ->
            SendFinalOggChunkIfNeeded([w EXCEPT !.co.waiting = FALSE], "ui", ok)
      [] OTHER ->
            SendOrBufferOggChunk([w EXCEPT !.co.frames = TRUE], "ui", FALSE,
                                 w.long /\ ~w.co.waiting, ok)

BeginWaitingForAudioEnd(w) ==
    IF w.co.waiting THEN w ELSE EnterFinalizing([w EXCEPT !.co.waiting = TRUE])

-----------------------------------------------------------------------------
(* Buttons. *)

HandleFrontButtonDuringPendingPaste(w, d) ==
    CASE w.co.device # d              -> w
      [] w.co.device = d /\ w.co.pending = "waiting" ->
            EnterPausedConfirmation(w, "ui", w.co.text)
      [] OTHER -> Hide(w, CommitOf(w.co.text))

HandlePrimaryButtonDown(w, session, d) ==
    IF w.co.pending # "idle" THEN HandleFrontButtonDuringPendingPaste(w, d)
    ELSE IF w.co.state # "ready" \/ w.co.device # None THEN RefreshDeviceUiState(w, d)
    ELSE IF session = 0 THEN SendUiState(w, d, "ready")
    ELSE LET started == [w EXCEPT
                !.co = [state |-> "recording", session |-> session, device |-> d,
                        frames |-> FALSE, asr_started |-> FALSE, sent_final |-> FALSE,
                        pasted_final |-> FALSE, waiting |-> w.co.waiting, pending |-> "idle",
                        text |-> 0, last |-> w.co.last, last_device |-> w.co.last_device,
                        error |-> FALSE],
                !.long = FALSE, !.cycle = session]
         IN  SendUiStateForActiveDevice(DispatchToUi(started, "ui", "listening", NoCallback),
                                        "recording")

HandlePrimaryButtonUp(w, d) ==
    CASE w.co.session = 0 \/ w.co.device # d             -> w
      [] w.co.session # 0 /\ w.co.device = d /\ ~w.long  -> CancelShortRecording(w, "ui")
      [] OTHER                                           -> BeginWaitingForAudioEnd(w)

HandleButtonClick(w, session, d) ==
    CASE w.co.pending # "idle" -> HandleFrontButtonDuringPendingPaste(w, d)
      [] w.co.pending = "idle" /\ mode # "click" -> SendUiState(w, d, "ready")
      [] w.co.pending = "idle" /\ mode = "click" ->
            IF w.co.state = "recording" /\ w.co.device = d THEN HandlePrimaryButtonUp(w, d)
            ELSE IF w.co.state = "finalizing" /\ w.co.device = d
                 THEN SendUiState(w, d, "thinking")
            ELSE HandlePrimaryButtonDown(w, session, d)

RestoreLastInputConfirmation(w, d) ==
    IF w.co.pending = "idle" /\ w.co.state = "ready" /\ w.co.session = 0 /\ w.co.last # 0
    THEN EnterPausedConfirmation([w EXCEPT !.co.device = d,
                                           !.pastes[w.co.last] = 0,
                                           !.cancelled = @ \ {w.co.last}],
                                 "ui", w.co.last)
    ELSE w

CancelPendingPaste(w, d) ==
    IF w.co.session # 0
    THEN IF w.co.device = d THEN CancelRecognitionInProgress(w, "ui") ELSE w
    ELSE IF w.co.state = "finalizing"
    THEN IF w.co.device = d THEN CancelRecognitionInProgress(w, "ui")
         ELSE RefreshDeviceUiState(w, d)
    ELSE IF w.co.pending = "idle" THEN RestoreLastInputConfirmation(w, d)
    ELSE IF w.co.device # d THEN w
    ELSE EnterReady(FinishRecognitionCycle(
                        [w EXCEPT !.co.pending = "idle", !.co.text = 0,
                                  !.cancelled = @ \cup {w.co.text}]), "ui")

CancelActiveCycleIfDeviceDisconnected(w, thread, ok) ==
    IF w.co.device = None \/ w.co.device \in w.connected THEN w
    ELSE IF w.co.waiting THEN SendFinalOggChunkIfNeeded(w, thread, ok)
    ELSE EnterReady(Abandon(w), thread)

-----------------------------------------------------------------------------
(* The UI thread: device events, the menu, posted calls and the timer. *)

apart == <<answer, changed>>

Room(n) == Len(posted) + n <= MaxPosted

PrimaryButtonDown(d) ==
    /\ mode = "hold" /\ d \in connected
    /\ \E session \in {0, cycle + 1} \cap Texts :
          Becomes(HandlePrimaryButtonDown(World, session, d))
    /\ UNCHANGED apart

PrimaryButtonUp(d) ==
    /\ mode = "hold" /\ d \in connected
    /\ Becomes(HandlePrimaryButtonUp(World, d))
    /\ UNCHANGED apart

PrimaryButtonClick(d) ==
    /\ d \in connected
    /\ \E session \in {0, cycle + 1} \cap Texts :
          Becomes(HandleButtonClick(World, session, d))
    /\ UNCHANGED apart

SecondaryButtonUp(d) ==
    /\ d \in connected
    /\ Becomes(CancelPendingPaste(World, d))
    /\ UNCHANGED apart

\* A frame of the recording; any other is ignored.
AudioFrame(d) ==
    /\ d \in connected
    /\ \E end, ok \in BOOLEAN : Gives(HandleAudioFrame(World, d, end, ok))
    /\ UNCHANGED apart

RestoreFromMenu ==
    /\ Becomes(RestoreLastInputConfirmation(World, co.last_device))
    /\ UNCHANGED apart

\* A changed configuration ends what is going on, and the ASR client is made
\* anew: the old one joins its worker, which may have a callback to make.
UpdateConfig ==
    /\ Room(2)
    /\ answer' = NoAnswer
    /\ LET busy == co.asr_started \/ co.session # 0 \/ co.pending # "idle" IN
       Becomes(Deliver(IF busy THEN EnterReady(Abandon(World), "ui")
                       ELSE [World EXCEPT !.asr = NoSession]))
    /\ UNCHANGED changed

\* Forgetting a device closes every session and connects the others again.
RemovePairedDevice(d) ==
    /\ d \in connected
    /\ LET forgotten == IF co.device = d THEN EnterReady(Abandon(World), "ui") ELSE World
       IN  Becomes(CancelActiveCycleIfDeviceDisconnected(
                       [forgotten EXCEPT !.connected = {}], "ui", FALSE))
    /\ UNCHANGED apart

\* What a posted call shows is over.
Outdated(call) ==
    CASE call.mode = "countdown" -> co.state # "pending" \/ call.callback # CommitOf(co.text)
      [] call.mode = "error"     -> ~co.error \/ co.state \notin {"error", "finalizing"}
      [] call.mode = "listening" -> co.state \notin {"recording", "finalizing"} \/ co.error
      [] OTHER                   -> co.state # "ready"

\* kUiDispatchMessage.
ProcessPosted ==
    /\ posted # <<>>
    /\ Becomes(Perform([World EXCEPT !.posted = Tail(posted),
                                     !.late = @ \/ Outdated(Head(posted))],
                       Head(posted)))
    /\ UNCHANGED apart

\* OverlayWindow::OnTimer, kAutoHideTimerId.
OnTimer ==
    /\ overlay.timer
    /\ Becomes(Hide(World, NoCallback))
    /\ UNCHANGED apart

\* PublishConnections after a disconnection.
ConnectionChange ==
    /\ changed
    /\ changed' = FALSE
    /\ \E ok \in BOOLEAN :
          Gives(CancelActiveCycleIfDeviceDisconnected(World, "ui", ok))
    /\ UNCHANGED answer

-----------------------------------------------------------------------------
(* Other threads. *)

\* The thread of ScheduleAudioEndTimeout; an earlier one finds its generation
\* outdated.
AudioEndTimeout ==
    /\ co.waiting /\ co.session # 0 /\ Room(1)
    /\ \E ok \in BOOLEAN : Gives(SendFinalOggChunkIfNeeded(World, "timeout", ok))
    /\ UNCHANGED apart

\* The session is removed on a thread of the Bluetooth stack.
Disconnected(d) ==
    /\ d \in connected
    /\ Becomes([World EXCEPT !.connected = @ \ {d}])
    /\ changed' = TRUE
    /\ UNCHANGED answer

\* A connection is announced by the coroutine that made it.
Connected(d) ==
    /\ d \notin connected /\ Room(1)
    /\ \E ok \in BOOLEAN :
          Gives(CancelActiveCycleIfDeviceDisconnected(
              [World EXCEPT !.connected = @ \cup {d}, !.shown[d] = "ready"], "pool", ok))
    /\ UNCHANGED apart

TimePasses ==
    /\ co.session # 0 /\ ~long
    /\ Becomes([World EXCEPT !.long = TRUE])
    /\ UNCHANGED apart

\* The worker of the ASR client settles on a callback; what ends a session also
\* ends it for Cancel, which comes too late for the callback.
AsrDecides ==
    /\ asr.of # 0 /\ answer = NoAnswer
    /\ \E kind \in {"partial", "final", "empty", "error", "upgrade"} :
          /\ kind \in {"final", "empty"} => asr.last
          /\ answer' = [kind |-> kind, of |-> asr.of]
          /\ asr' = IF kind = "partial" THEN asr ELSE NoSession
    /\ UNCHANGED <<co, overlay, posted, translating, connected, changed, shown, long, cycle,
                   config, history>>

AsrDelivers ==
    /\ answer # NoAnswer /\ Room(2)
    /\ answer' = NoAnswer
    /\ Becomes(Deliver(World))
    /\ UNCHANGED changed

\* A translation is not told of a cancellation.
Translated(text) ==
    /\ text \in translating /\ Room(1)
    /\ LET w == [World EXCEPT !.translating = @ \ {text},
                                !.late = @ \/ text \in cancelled] IN
       \/ Becomes(EnterPendingConfirmation(
                      [w EXCEPT !.co.last = text, !.co.last_device = w.co.device],
                      "translator", text))
       \/ Becomes(FinishWithAsrError(w, "translator"))
    /\ UNCHANGED apart

-----------------------------------------------------------------------------

Next ==
    \/ RestoreFromMenu \/ UpdateConfig \/ ProcessPosted \/ OnTimer \/ ConnectionChange
    \/ AudioEndTimeout \/ TimePasses \/ AsrDecides \/ AsrDelivers
    \/ \E d \in Devices :
          \/ PrimaryButtonDown(d) \/ PrimaryButtonUp(d) \/ PrimaryButtonClick(d)
          \/ SecondaryButtonUp(d) \/ AudioFrame(d) \/ RemovePairedDevice(d)
          \/ Disconnected(d) \/ Connected(d)
    \/ \E text \in Cycles : Translated(text)

Spec == Init /\ [][Next]_vars

-----------------------------------------------------------------------------
(* Properties. *)

\* A text is pasted once, however its countdown, the buttons and callbacks that
\* come late interleave; only bringing it back allows another time
\* (CommitPendingPaste compares the text that is pending).
PastedOnce == \A c \in Cycles : pastes[c] <= 1

IsPosted(display) == \E i \in DOMAIN posted : posted[i].mode = display

\* An error that is shown, or about to be, recovers.
Recovers ==
    co.error /\ (IsPosted("error") \/ (overlay.timer /\ overlay.callback = RecoverIt))

\* Unless a call came late, every state but ready has somebody who ends it: a
\* recording that is being recognized waits for END, the ASR service, a
\* callback or a translation; a confirmation has its countdown, and an error
\* its timer, on the screen or on the way to it.
NeverStuck ==
    ~late =>
        /\ co.state = "finalizing" => \/ (co.waiting /\ co.session # 0)
                                      \/ asr.of # 0 \/ answer # NoAnswer
                                      \/ translating # {} \/ Recovers
        /\ co.state = "pending" => IsPosted("countdown") \/ overlay.timer
        /\ co.state = "error" => Recovers

\* Unless a call came late, a connected device that shows anything but ready is
\* the one whose recording is going on: no end of a recording forgets to tell
\* its device (SendUiStateForActiveDevice before active_device_id_ is reset).
OthersReady == ~late => \A d \in connected : shown[d] # "ready" => co.device = d
=============================================================================
