---------------------------- MODULE Coordinator ----------------------------
(***************************************************************************)
(* The coordinator of the Linux desktop app                                *)
(* (src/desktop/linux/app/coordinator.py): recordings, transcripts waiting *)
(* for confirmation, subtitles, the Codex state, and what the device is    *)
(* told to show.                                                           *)
(*                                                                         *)
(* Everything runs on one asyncio loop: a callback runs to its end, a      *)
(* coroutine to its next await.  An action is one such stretch of code.    *)
(* asyncio.create_task appends a job to c.jobs, which start in order;      *)
(* c.stage holds the recordings' tasks that are suspended.  A BLE write    *)
(* has its effect when it is awaited.                                      *)
(*                                                                         *)
(* What the callbacks read and write is the record "c"; their functions    *)
(* are operators from the record they find to the one they leave.  Modes   *)
(* "disabled" and "receiver" of the relay are modelled: with "sender" the  *)
(* Bluetooth manager is stopped.                                           *)
(***************************************************************************)
EXTENDS Naturals, Sequences, FiniteSetsExt

CONSTANTS
    Devices,      \* addresses of paired devices
    MaxSessions,  \* bound on the recordings
    MaxInputs,    \* bound on the other inputs
    MaxWire,      \* bound on the device events in flight
    Target,       \* config.output.target
    Mode,         \* config.interaction_mode
    Translates,   \* the profile's transform is "translate"
    Happens,      \* the kinds of inputs that happen in the instance
    CodexEvents   \* the Codex events that happen in the instance

ASSUME TargetAssumption == Target \in {"focused_app", "subtitle"}
ASSUME ModeAssumption == Mode \in {"hold_to_talk", "click_to_talk"}
ASSUME TranslatesAssumption == Translates \in BOOLEAN
ASSUME BoundsAssumption == MaxSessions \in Nat /\ MaxInputs \in Nat /\ MaxWire \in Nat
ASSUME HappensAssumption ==
    /\ Happens \subseteq {"confirm", "side", "link", "codex", "restore", "settings"}
    /\ CodexEvents \subseteq {"working", "tool_call_started", "approval_needed", "done",
                              "error", "idle"}

Sessions == 1 .. MaxSessions

VARIABLES
    c,        \* the coordinator, what its manager remembers and the device shows
    air,      \* the audio stream of each session: "none", "live", "tail", "over"
    held,     \* the devices whose front button is down, in hold_to_talk
    wire,     \* device events on their way to the coordinator
    used,     \* how many sessions began
    inputs,   \* how many other inputs there were
    history   \* what became of each session, for the properties

vars == <<c, air, held, wire, used, inputs, history>>

UiStates == {"ready", "recording", "thinking", "pending", "working", "approval",
             "done", "error"}

NoOne == "no one"

ASSUME DevicesAssumption == NoOne \notin Devices

\* A Cycle: its device and flags; task is "final_task is not None", long that
\* MINIMUM_RECORDING_DURATION has passed since it started.
NewCycle(a) == [dev |-> a, frames |-> FALSE, finalizing |-> FALSE, waiting |-> FALSE,
                eos |-> FALSE, task |-> FALSE, long |-> FALSE]

NoOverlay == [mode |-> "none", hidden |-> "none"]

Init ==
    /\ \E a \in Devices :
        c = [cyc |-> [n \in Sessions |-> NewCycle(a)],
             main |-> 0, subs |-> {}, active |-> [d \in Devices |-> 0],
             pending |-> 0, paused |-> FALSE, lastText |-> 0, lastAddress |-> a,
             codex |-> "ready", jobs |-> <<>>, stage |-> [n \in Sessions |-> "none"],
             commits |-> [n \in Sessions |-> 0], overlay |-> [d \in Devices |-> NoOverlay], saving |-> {},
             client |-> a, remembered |-> [d \in Devices |-> "ready"],
             shown |-> [d \in Devices |-> "ready"], rec |-> [d \in Devices |-> 0]]
    /\ air = [n \in Sessions |-> "none"]
    /\ held = {} /\ wire = <<>> /\ used = 0 /\ inputs = 0
    /\ history = [n \in Sessions |-> [pasted |-> 0, recalled |-> 0, outlived |-> FALSE]]

-----------------------------------------------------------------------------
(* The Bluetooth manager, and the device at the other end *)

\* The device shows what it is told, except ready during a recording.
Deliver(s, a, state) ==
    IF a = NoOne \/ s.client # a THEN s
    ELSE IF state = "ready" /\ s.rec[a] # 0 THEN s
    ELSE [s EXCEPT !.shown[a] = state]

\* BluetoothManager.send to one address
Send(s, a, state, remember) ==
    Deliver(IF remember THEN [s EXCEPT !.remembered[a] = state] ELSE s, a, state)

\* BluetoothManager.control_state = state
RememberAll(s, state) == [s EXCEPT !.remembered = [d \in Devices |-> state]]

-----------------------------------------------------------------------------
(* The functions of the coordinator *)

Job(do, a, state, n) == [do |-> do, dev |-> a, state |-> state, session |-> n]

\* asyncio.create_task
Later(s, job) == [s EXCEPT !.jobs = Append(@, job)]

LaterSend(s, a, state) == Later(s, Job("send", a, state, 0))

\* create_task of a cycle's final_task
LaterFinal(s, do, n) ==
    Later([s EXCEPT !.cyc[n].task = TRUE], Job(do, s.cyc[n].dev, "ready", n))

\* final_task.cancel(): the task never starts, or never resumes.
CancelTask(s, n) ==
    [s EXCEPT !.stage[n] = "none",
              !.jobs = SelectSeq(@, LAMBDA j : j.session # n)]

Show(s, d, mode, hidden) == [s EXCEPT !.overlay[d] = [mode |-> mode, hidden |-> hidden]]

Hide(s, d) == Show(s, d, "none", "none")

HideAll(s) == [s EXCEPT !.overlay = [d \in Devices |-> NoOverlay]]

CycleExists(s, n) == s.main = n \/ n \in s.subs

\* _active_for, 0 for None
ActiveFor(s, a) ==
    IF s.active[a] # 0 THEN IF s.active[a] \in s.subs THEN s.active[a] ELSE 0
    ELSE IF s.main # 0 /\ s.cyc[s.main].dev = a THEN s.main ELSE 0

\* _remove_cycle
RemoveCycle(s, n, keepMain) ==
    [s EXCEPT !.main = IF @ = n /\ ~keepMain THEN 0 ELSE @,
              !.subs = @ \ {n},
              !.active[s.cyc[n].dev] = IF @ = n THEN 0 ELSE @]

\* Mutant: final_task goes on.
CancelCycleOnly(s, n, restoreActivity) ==
    LET a == s.cyc[n].dev
        t == RemoveCycle(s, n, FALSE)
        u == IF s.main = n THEN HideAll([t EXCEPT !.pending = 0, !.paused = FALSE])
             ELSE Hide(t, a)
    IN  IF restoreActivity THEN Later(u, Job("restore", a, "ready", 0))
        ELSE LaterSend(u, a, "ready")

\* _cancel_cycle
CancelCycle(s, n, restoreActivity) ==
    LET a == s.cyc[n].dev
        t == RemoveCycle(CancelTask(s, n), n, FALSE)
        u == IF s.main = n THEN HideAll([t EXCEPT !.pending = 0, !.paused = FALSE])
             ELSE Hide(t, a)
    IN  IF restoreActivity THEN Later(u, Job("restore", a, "ready", 0))
        ELSE LaterSend(u, a, "ready")

CancelAll(s, ns, restoreActivity) ==
    FoldSet(LAMBDA n, t : CancelCycle(t, n, restoreActivity), s, ns)

\* Mutant: nothing is sent when the error has been shown.
CycleErrorStays(s, n) ==
    LET a == s.cyc[n].dev
        t == RemoveCycle(s, n, FALSE)
        shown == Show(t, a, "error", "none")
    IN  IF n \notin s.subs THEN Send(shown, a, "error", TRUE)
        ELSE IF t.active[a] # 0 THEN t ELSE shown

\* _error
CycleError(s, n) ==
    LET a == s.cyc[n].dev
        t == RemoveCycle(s, n, FALSE)
        shown == Show(t, a, "error", "ready")
    IN  IF n \notin s.subs THEN Send(shown, a, "error", TRUE)
        ELSE IF t.active[a] # 0 THEN t ELSE shown

\* _finish_subtitle_cycle
FinishSubtitle(s, n) ==
    LET a == s.cyc[n].dev
        t == IF s.active[a] \in {n, 0} THEN Hide(s, a) ELSE s
        u == RemoveCycle(t, n, FALSE)
    IN  IF u.active[a] = 0 THEN Send(u, a, "ready", TRUE) ELSE u

\* _transcribe from its head to its first await
Transcribe(s, n, short) ==
    LET t == [s EXCEPT !.cyc[n].waiting = FALSE, !.cyc[n].long = TRUE]
    IN  IF ~CycleExists(s, n) THEN s
        ELSE IF short THEN CancelCycle(s, n, FALSE)
        ELSE IF ~s.cyc[n].frames THEN CycleError(t, n)
        ELSE Show([t EXCEPT !.cyc[n].eos = TRUE, !.stage[n] = "asr"],
                  s.cyc[n].dev, "listening", "none")

\* _transcribe from its text, which may be empty, to its end
Transcribed(s, n, empty) ==
    LET a == s.cyc[n].dev
        t == RemoveCycle([s EXCEPT !.pending = n, !.paused = FALSE, !.lastAddress = a,
                                   !.lastText = IF empty THEN 0 ELSE n], n, TRUE)
    IN  IF Target = "subtitle" THEN FinishSubtitle(s, n)
        ELSE Send(Show(t, a, "countdown", "commit"), a, "pending", TRUE)

\* _pending_primary, when a transcript is pending
PendingPrimary(s, a) ==
    IF a # s.lastAddress THEN s
    ELSE IF s.paused THEN Later(Hide(s, a), Job("commit", a, "ready", 0))
    ELSE Show([s EXCEPT !.paused = TRUE], a, "paused", "none")

\* Mutant: the device is not told what it shows already.
BeginCycleSilently(s, a, n) ==
    LET t == [s EXCEPT !.cyc[n] = NewCycle(a)]
        u == IF Target = "subtitle" THEN [t EXCEPT !.subs = @ \cup {n}, !.active[a] = n]
             ELSE [t EXCEPT !.main = n]
    IN  Show(u, a, "listening", "none")

\* _primary_down past its tests: a cycle begins.
BeginCycle(s, a, n) ==
    LET t == [s EXCEPT !.cyc[n] = NewCycle(a)]
        u == IF Target = "subtitle" THEN [t EXCEPT !.subs = @ \cup {n}, !.active[a] = n]
             ELSE [t EXCEPT !.main = n]
    IN  LaterSend(Show(u, a, "listening", "none"), a, "recording")

\* _primary_down
PrimaryDown(s, a, n) ==
    IF s.pending # 0 THEN PendingPrimary(s, a)
    ELSE IF n = 0 THEN LaterSend(s, a, "ready")
    ELSE IF Target = "subtitle" THEN
        IF s.active[a] = n \/ n \in s.subs THEN s ELSE BeginCycle(s, a, n)
    ELSE IF s.main = 0 THEN BeginCycle(s, a, n)
    ELSE IF s.cyc[s.main].dev # a THEN LaterSend(s, a, "ready")
    ELSE IF s.cyc[s.main].finalizing THEN LaterSend(s, a, "thinking") ELSE s

\* Mutant: nobody waits for the end of the audio.
FinishCycleNoGrace(s, n) ==
    LET a == s.cyc[n].dev
        t == LaterSend([s EXCEPT !.cyc[n].finalizing = TRUE, !.cyc[n].waiting = TRUE,
                                 !.cyc[n].long = TRUE], a, "thinking")
    IN  IF s.active[a] = n /\ Mode = "hold_to_talk"
          THEN LaterSend([t EXCEPT !.active[a] = 0], a, "ready")
          ELSE t

\* _primary_up past its tests: the cycle waits for the end of its audio.
FinishCycle(s, n) ==
    LET a == s.cyc[n].dev
        t == LaterSend([s EXCEPT !.cyc[n].finalizing = TRUE, !.cyc[n].waiting = TRUE,
                                 !.cyc[n].long = TRUE], a, "thinking")
        u == IF s.cyc[n].task THEN t ELSE LaterFinal(t, "grace", n)
    IN  IF s.active[a] = n /\ Mode = "hold_to_talk"
          THEN LaterSend([u EXCEPT !.active[a] = 0], a, "ready")
          ELSE u

\* _primary_up
PrimaryUp(s, a, short) ==
    LET n == ActiveFor(s, a)
    IN  IF n = 0 THEN s
        ELSE IF short THEN CancelCycle(s, n, FALSE)
        ELSE IF n \in s.subs /\ ~s.cyc[n].frames
          THEN LaterFinal([s EXCEPT !.cyc[n].finalizing = TRUE, !.cyc[n].long = TRUE],
                          "noFrames", n)
        ELSE FinishCycle(s, n)

\* _primary_click
PrimaryClick(s, a, n, short) ==
    LET m == ActiveFor(s, a)
    IN  IF s.pending # 0 THEN PendingPrimary(s, a)
        ELSE IF Mode # "click_to_talk" THEN LaterSend(s, a, "ready")
        ELSE IF m = 0 THEN PrimaryDown(s, a, n)
        ELSE IF s.cyc[m].finalizing THEN LaterSend(s, a, "thinking")
        ELSE PrimaryUp(s, a, short)

\* The last input is offered for confirmation again.
Recall(s, a) ==
    LaterSend(Show([s EXCEPT !.pending = s.lastText, !.paused = TRUE, !.lastAddress = a],
                   a, "paused", "none"), a, "pending")

\* _secondary
Secondary(s, a) ==
    LET mine == {n \in s.subs : s.cyc[n].dev = a}
        restored(t) == Later(t, Job("restore", a, "ready", 0))
    IN  IF s.active[a] # 0 THEN CancelAll(s, {s.active[a]} \cap s.subs, FALSE)
        ELSE IF mine # {} THEN CancelAll(s, mine, FALSE)
        ELSE IF s.main # 0 /\ s.cyc[s.main].dev = a /\ s.pending = 0
          THEN CancelCycle(s, s.main, FALSE)
        ELSE IF s.pending # 0 /\ a = s.lastAddress
          THEN restored(Hide([s EXCEPT !.pending = 0, !.paused = FALSE, !.main = 0], a))
        ELSE IF s.lastText # 0 /\ s.main = 0 THEN Recall(s, a)
        ELSE restored(s)

\* Mutant: a task that was cancelled is not replaced.
OnAudioNoTask(s, a, n, payload, end) ==
    LET known == (n \in s.subs \/ s.main = n) /\ s.cyc[n].dev = a
        t == IF payload THEN [s EXCEPT !.cyc[n].frames = TRUE, !.cyc[n].eos = end] ELSE s
        u == [t EXCEPT !.cyc[n].finalizing = TRUE, !.cyc[n].waiting = FALSE]
    IN  IF ~known \/ s.cyc[n].eos THEN s
        ELSE IF ~end THEN t
        ELSE IF s.cyc[n].task THEN CancelTask(u, n) ELSE LaterFinal(u, "transcribe", n)

\* on_audio: a frame with or without a payload, and with or without its END flag
OnAudio(s, a, n, payload, end) ==
    LET known == (n \in s.subs \/ s.main = n) /\ s.cyc[n].dev = a
        t == IF payload THEN [s EXCEPT !.cyc[n].frames = TRUE, !.cyc[n].eos = end] ELSE s
    IN  IF ~known \/ s.cyc[n].eos THEN s
        ELSE IF ~end THEN t
        ELSE LaterFinal(CancelTask([t EXCEPT !.cyc[n].finalizing = TRUE,
                                             !.cyc[n].waiting = FALSE], n), "transcribe", n)

\* on_connections
OnConnections(s, connected) ==
    LET gone == {n \in s.subs : s.cyc[n].dev \notin connected}
        t == CancelAll(s, gone, TRUE)
        m == t.main
    IN  IF m = 0 \/ t.cyc[m].dev \in connected THEN t
        ELSE IF t.cyc[m].waiting /\ t.cyc[m].frames
          THEN LaterFinal(CancelTask(t, m), "transcribe", m)
        ELSE CancelCycle(t, m, TRUE)

\* Mutant: the event itself is sent to the devices.
OnCodexEventRaw(s, e) == Later([s EXCEPT !.codex = e], Job("broadcast", NoOne, e, 0))

\* on_codex_event, of the bridge, the relay or a commit
OnCodexEvent(s, e) ==
    LET state == CASE e \in {"working", "tool_call_started"} -> "working"
                   [] e = "approval_needed" -> "approval"
                   [] OTHER -> "ready"
        t == [s EXCEPT !.codex = state]
    IN  IF e = "tool_call_started" /\ s.codex = "working" THEN s
        ELSE IF e \in {"done", "error"}
          THEN Later(RememberAll(t, "ready"), Job("notice", NoOne, e, 0))
        ELSE Later(t, Job("broadcast", NoOne, state, 0))

\* Mutant: the transcript is forgotten when it has been pasted, not before.
CommitPendingKeeps(s) ==
    IF s.pending = 0 THEN s ELSE [s EXCEPT !.main = 0, !.commits[s.pending] = @ + 1]

\* commit_pending to its first await
CommitPending(s) ==
    IF s.pending = 0 THEN s
    ELSE [s EXCEPT !.pending = 0, !.paused = FALSE, !.main = 0,
                   !.commits[s.pending] = @ + 1]

\* _cancel_recognition_for_config_change, once the cancelled tasks are gone
SettingsClear(s) ==
    LET t == HideAll([s EXCEPT !.main = 0, !.subs = {}, !.active = [d \in Devices |-> 0],
                               !.pending = 0, !.paused = FALSE, !.saving = {}])
    IN  FoldSet(LAMBDA a, u : Send(u, a, "ready", TRUE), t, s.saving)

\* update_config, with the devices, the bridge and the relay as they were; it goes
\* on when the loop has run the tasks it cancelled, if there are any.
UpdateConfig(s) ==
    LET cycles == s.subs \cup ({s.main} \ {0})
        t == FoldSet(LAMBDA n, u : CancelTask(u, n),
                     [s EXCEPT !.saving = {s.cyc[n].dev : n \in cycles}], cycles)
    IN  IF cycles = {} /\ s.pending = 0 THEN s
        ELSE IF \E n \in cycles : s.cyc[n].task THEN Later(t, Job("gathered", NoOne, "ready", 0))
        ELSE SettingsClear(t)

-----------------------------------------------------------------------------
(* The loop: jobs start, suspended tasks resume, timers expire *)

\* final_task of a session waits in the queue or is suspended.
TaskLeft(s, n) == s.stage[n] # "none" \/ \E i \in DOMAIN s.jobs : s.jobs[i].session = n

\* What the next step leaves, and what the history makes of it: a transcript is
\* pasted, or offered for confirmation again; a recording is removed and its task
\* goes on, or the next begins while its text is being pasted.
Becomes(s) ==
    /\ c' = s
    /\ history' = [n \in Sessions |->
         [pasted |-> history[n].pasted + (IF s.commits[n] > c.commits[n] THEN 1 ELSE 0),
          recalled |-> history[n].recalled
                         + (IF c.pending = 0 /\ s.pending = n /\ s.paused THEN 1 ELSE 0),
          outlived |-> \/ history[n].outlived
                       \/ CycleExists(c, n) /\ ~CycleExists(s, n) /\ TaskLeft(s, n)
                       \/ s.commits[n] > 0 /\ \E m \in Sessions \ {n} : CycleExists(s, m)]]

\* Only the coordinator moves.
Loop(s) == Becomes(s) /\ UNCHANGED <<air, held, wire, used, inputs>>

\* Whether the tests of MINIMUM_RECORDING_DURATION may find a recording short.
MaybeShort(n) == {FALSE} \cup (IF n = 0 \/ c.cyc[n].long THEN {} ELSE {TRUE})

\* The next job starts and runs to its first await.
RunJob ==
    /\ c.jobs # <<>>
    /\ LET j == Head(c.jobs)
           s == [c EXCEPT !.jobs = Tail(@)]
       IN  \/ j.do = "send" /\ Loop(Send(s, j.dev, j.state, TRUE))
           \/ j.do = "restore" /\ Loop(Send(s, j.dev, s.codex, TRUE))
           \/ /\ j.do = "broadcast"
              /\ Loop(Deliver(RememberAll(s, j.state), s.client, j.state))
           \/ j.do = "notice" /\ Loop(Deliver(s, s.client, j.state))
           \/ j.do = "commit" /\ Loop(CommitPending(s))
           \/ j.do = "settings" /\ Loop(UpdateConfig(s))
           \/ j.do = "gathered" /\ Loop(SettingsClear(s))
           \/ j.do = "gathered" /\ s.jobs # <<>> /\ Loop(Later(s, j))
           \/ j.do = "grace" /\ Loop([s EXCEPT !.stage[j.session] = "grace"])
           \/ j.do = "noFrames" /\ Loop(CycleError(s, j.session))
           \/ /\ j.do = "transcribe"
              /\ \E short \in MaybeShort(j.session) : Loop(Transcribe(s, j.session, short))

Resumes(n) == [c EXCEPT !.stage[n] = "none"]

\* AUDIO_END_TIMEOUT passes without an END frame.
GraceOver(n) ==
    /\ c.stage[n] = "grace"
    /\ \E short \in MaybeShort(n) : Loop(Transcribe(Resumes(n), n, short))

\* The transcription client answers; the translation, if any, is asked for.
AsrDone(n) ==
    /\ c.stage[n] = "asr"
    /\ \E empty \in BOOLEAN :
         IF Translates /\ ~empty
           THEN Loop(Show([c EXCEPT !.stage[n] = "translate"], c.cyc[n].dev, "listening", "none"))
           ELSE Loop(Transcribed(Resumes(n), n, empty))

AsrFails(n) == c.stage[n] = "asr" /\ Loop(CycleError(Resumes(n), n))

TranslationDone(n) == c.stage[n] = "translate" /\ Loop(Transcribed(Resumes(n), n, FALSE))

TranslationFails(n) ==
    /\ c.stage[n] = "translate"
    /\ Loop(IF Target = "subtitle"
              THEN FinishSubtitle(Show(Resumes(n), c.cyc[n].dev, "error", "none"), n)
              ELSE CycleError(Resumes(n), n))

\* The text is pasted; it went to Codex or to another application.
PasteDone(n) ==
    /\ c.commits[n] > 0
    /\ \E e \in {"working", "idle"} : Loop(OnCodexEvent([c EXCEPT !.commits[n] = @ - 1], e))

PasteFails(n) ==
    /\ c.commits[n] > 0
    /\ Loop(Send(Show([c EXCEPT !.commits[n] = @ - 1], c.lastAddress, "error", "restore"),
                 c.lastAddress, "error", FALSE))

\* The timer of an overlay hides it, and calls what it was shown with.
OverlayTimer(d) ==
    /\ c.overlay[d].mode \in {"countdown", "error"}
    /\ LET s == Hide(c, d)
       IN  \/ c.overlay[d].hidden = "commit" /\ Loop(Later(s, Job("commit", d, "ready", 0)))
           \/ c.overlay[d].hidden = "ready" /\ Loop(LaterSend(s, d, "ready"))
           \/ /\ c.overlay[d].hidden = "restore"
              /\ Loop(Later(s, Job("restore", c.lastAddress, "ready", 0)))
           \/ c.overlay[d].hidden = "none" /\ Loop(s)

-----------------------------------------------------------------------------
(* What reaches the coordinator from outside *)

Input(kind) == kind \in Happens /\ inputs < MaxInputs /\ inputs' = inputs + 1

\* The next device event arrives: on_event.
Receive ==
    /\ wire # <<>> /\ wire' = Tail(wire)
    /\ LET e == Head(wire)
       IN  \/ e.type = "down" /\ Becomes(PrimaryDown(c, c.client, e.session))
           \/ /\ e.type = "up"
              /\ \E short \in MaybeShort(ActiveFor(c, c.client)) :
                   Becomes(PrimaryUp(c, c.client, short))
           \/ /\ e.type = "click"
              /\ \E short \in MaybeShort(ActiveFor(c, c.client)) :
                   Becomes(PrimaryClick(c, c.client, e.session, short))
           \/ e.type = "side" /\ Becomes(Secondary(c, c.client))
    /\ UNCHANGED <<air, held, used, inputs>>

\* An audio frame arrives; the END frame of the firmware has no payload.
AudioFrame(n) ==
    /\ air[n] \in {"live", "tail"}
    /\ Becomes(OnAudio(c, c.client, n, TRUE, FALSE))
    /\ UNCHANGED <<air, held, wire, used, inputs>>

AudioEnd(n) ==
    /\ air[n] = "tail" /\ air' = [air EXCEPT ![n] = "over"]
    /\ Becomes(OnAudio(c, c.client, n, FALSE, TRUE))
    /\ UNCHANGED <<held, wire, used, inputs>>

\* BluetoothManager._disconnected
Disconnect ==
    /\ Input("link") /\ c.client # NoOne
    /\ Becomes(OnConnections([c EXCEPT !.client = NoOne, !.rec[c.client] = 0,
                                       !.shown[c.client] = "ready"], {}))
    /\ air' = [n \in Sessions |-> IF air[n] = "none" THEN "none" ELSE "over"]
    /\ wire' = <<>> /\ held' \in {held, {}}
    /\ UNCHANGED used

\* BluetoothManager._connect: the device is told what was remembered for it.
Connect(a) ==
    /\ c.client = NoOne
    /\ Becomes(OnConnections(Deliver([c EXCEPT !.client = a], a, c.remembered[a]), {a}))
    /\ UNCHANGED <<air, held, wire, used, inputs>>

CodexEvent ==
    /\ Input("codex")
    /\ \E e \in CodexEvents : Becomes(OnCodexEvent(c, e))
    /\ UNCHANGED <<air, held, wire, used>>

\* restore_last, from the menu
RestoreLast ==
    /\ Input("restore")
    /\ c.lastText # 0 /\ c.pending = 0 /\ c.main = 0
    /\ Becomes(Recall(c, c.lastAddress))
    /\ UNCHANGED <<air, held, wire, used>>

\* Settings are saved, in the menu; a lock keeps the updates apart.
SettingsSaved ==
    /\ Input("settings")
    /\ ~\E i \in DOMAIN c.jobs : c.jobs[i].do \in {"settings", "gathered"}
    /\ Becomes(Later(c, Job("settings", NoOne, "ready", 0)))
    /\ UNCHANGED <<air, held, wire, used>>

-----------------------------------------------------------------------------
(* The device: buttons, as the firmware reports them *)

Says(type, n) == wire' = Append(wire, [type |-> type, session |-> n])

Reports == c.client # NoOne /\ Len(wire) < MaxWire

\* A press starts a recording, unless a transcript waits for confirmation.
Press ==
    /\ Reports /\ used < MaxSessions
    /\ c.client \notin held /\ c.rec[c.client] = 0 /\ c.shown[c.client] # "pending"
    /\ used' = used + 1 /\ air' = [air EXCEPT ![used + 1] = "live"]
    /\ Becomes([c EXCEPT !.rec[c.client] = used + 1, !.shown[c.client] = "recording"])
    /\ IF Mode = "hold_to_talk" THEN held' = held \cup {c.client} /\ Says("down", used + 1)
       ELSE UNCHANGED held /\ Says("click", used + 1)
    /\ UNCHANGED inputs

PressConfirms ==
    /\ Reports /\ Input("confirm")
    /\ c.client \notin held /\ c.rec[c.client] = 0 /\ c.shown[c.client] = "pending"
    /\ held' = IF Mode = "hold_to_talk" THEN held \cup {c.client} ELSE held
    /\ Says("click", 0)
    /\ UNCHANGED <<c, history, air, used>>

\* The release in hold_to_talk, the second click in click_to_talk
Release ==
    /\ Reports
    /\ IF Mode = "hold_to_talk" THEN c.client \in held ELSE c.rec[c.client] # 0
    /\ held' = held \ {c.client}
    /\ air' = [n \in Sessions |-> IF n = c.rec[c.client] THEN "tail" ELSE air[n]]
    /\ Becomes([c EXCEPT !.rec[c.client] = 0])
    /\ Says(IF Mode = "hold_to_talk" THEN "up" ELSE "click", c.rec[c.client])
    /\ UNCHANGED <<used, inputs>>

\* The side button cancels a recording on the device, which sends no END then.
SideClick ==
    /\ Reports /\ Input("side")
    /\ air' = [n \in Sessions |-> IF n = c.rec[c.client] THEN "over" ELSE air[n]]
    /\ Becomes(IF c.rec[c.client] = 0 THEN c
               ELSE [c EXCEPT !.rec[c.client] = 0, !.shown[c.client] = "ready"])
    /\ held' = IF c.rec[c.client] = 0 THEN held ELSE held \ {c.client}
    /\ Says("side", 0)
    /\ UNCHANGED used

-----------------------------------------------------------------------------
Resume ==
    \E n \in Sessions :
        \/ GraceOver(n) \/ AsrDone(n) \/ AsrFails(n) \/ TranslationDone(n)
        \/ TranslationFails(n) \/ PasteDone(n) \/ PasteFails(n)

Timers == \E d \in Devices : OverlayTimer(d)

Device ==
    \/ Press \/ PressConfirms \/ Release \/ SideClick
    \/ \E n \in Sessions : AudioFrame(n) \/ AudioEnd(n)

Outside ==
    \/ Disconnect \/ CodexEvent \/ RestoreLast \/ SettingsSaved
    \/ \E a \in Devices : Connect(a)

Next == RunJob \/ Resume \/ Timers \/ Receive \/ Device \/ Outside

Spec == Init /\ [][Next]_vars

\* The loop runs whatever is ready, and timers and requests come to an end.
FairSpec == Spec /\ WF_vars(RunJob) /\ WF_vars(Resume) /\ WF_vars(Timers)

-----------------------------------------------------------------------------
(* Properties *)

\* What is sent, shown, remembered and waited for has the values the code gives it.
TypeOK ==
    /\ c.main \in Sessions \cup {0} /\ c.subs \subseteq Sessions
    /\ c.pending \in Sessions \cup {0} /\ c.lastText \in Sessions \cup {0}
    /\ c.client \in Devices \cup {NoOne}
    /\ c.shown \in [Devices -> UiStates] /\ c.remembered \in [Devices -> UiStates]
    /\ c.stage \in [Sessions -> {"none", "grace", "asr", "translate"}]
    /\ air \in [Sessions -> {"none", "live", "tail", "over"}] /\ held \subseteq Devices

\* Tasks are cancelled and replaced by button events, END frames and disconnections
\* in any order; a recording that is being finished never ends up without one, since
\* nothing else would remove it and it blocks the next recording (_primary_down).
NeverStuck ==
    c.saving = {} /\ c.pending = 0 =>
        \A n \in Sessions : CycleExists(c, n) /\ c.cyc[n].finalizing => TaskLeft(c, n)

\* A transcript is pasted once, and once more whenever it was offered again: the
\* countdown, the buttons and a commit already queued do not paste it twice.
PastedOnce == \A n \in Sessions : history[n].pasted <= 1 + history[n].recalled

\* A recording that was cancelled never asks for confirmation, however late its
\* transcript arrives: only a live recording, or the last text when it is recalled,
\* becomes the pending transcript.
LateResultsDropped ==
    [][\A n \in Sessions :
         c'.pending = n /\ c.pending # n => CycleExists(c, n) \/ c.lastText = n]_vars

\* Nothing is left to do for the coordinator before the next input.
Settled ==
    /\ c.jobs = <<>> /\ wire = <<>> /\ c.pending = 0 /\ c.main = 0 /\ c.subs = {}
    /\ \A d \in Devices : c.overlay[d].mode = "none"
    /\ \A n \in Sessions : c.commits[n] = 0 /\ c.stage[n] = "none"

\* "The firmware keeps showing the thinking cat until the app sends ui_state:ready"
\* (docs/protocol.md:285): when recognition is over, no device goes on showing, or is
\* remembered to show, a recording, its recognition, a confirmation or its error.
DeviceReleased ==
    Settled =>
        /\ \A a \in Devices :
             c.remembered[a] \notin {"recording", "thinking", "pending", "error"}
        /\ c.client # NoOne /\ c.rec[c.client] = 0 =>
             c.shown[c.client] \notin {"recording", "thinking", "pending"}

\* While a device records, what is left of its earlier recordings (their
\* thinking, confirmation or error) does not end up on its screen.  The code
\* breaks this for the errors of two recordings, which are excepted: saved
\* settings remove a recording but not the task that its END has just started
\* (on_audio); and the paste of its text goes on when the next begins
\* (commit_pending).
RecordingShown ==
    \A a \in Devices :
        c.rec[a] # 0 /\ CycleExists(c, c.rec[a]) /\ wire = <<>> /\ c.jobs = <<>>
            => \/ c.shown[a] \notin {"thinking", "pending", "error"}
               \/ c.shown[a] = "error" /\ \E n \in Sessions : history[n].outlived

\* Again and again no recording is being finished: each gets its END, its timeout,
\* its text, an error or a cancellation, whatever is lost or fails.
RecordingsResolve ==
    []<>(\A n \in Sessions : CycleExists(c, n) /\ c.cyc[n].finalizing => c.pending = n)

=============================================================================
