# XC Buddy in TLA+

XC Buddy turns a StickS3 (ESP32-S3 with a display, a microphone and two buttons)
into a wireless push-to-talk device. The firmware records, encodes and sends
audio over Bluetooth Low Energy; a desktop app (Linux, macOS, Windows) sends it
to a speech service, shows the transcript for confirmation, pastes it, shows the
state of a Codex session on the device, and updates the firmware.

This directory holds TLA+ modules translated from that code, the TLC
configurations that check them on small instances, and proofs for TLAPS.
`PROJECT.json` maps every definition to the lines it models.

    tlc -workers 2 -config MCAudioPipeline.cfg MCAudioPipeline
    tlc -workers 2 -config MCFirmwareUpdate.cfg MCFirmwareUpdate
    tlapm AudioPipelineProofs.tla
    tlapm FirmwareUpdateProofs.tla
    tlapm FirmwareAppProofs.tla
    tlapm VoiceBleProofs.tla
    tlapm WinBleProofs.tla
    tlapm AsrClientProofs.tla
    tlapm WinCoordinatorProofs.tla
    tlapm WinSubtitleProofs.tla

## The system

| Part | State | Operations | Hard behaviour |
|---|---|---|---|
| `firmware/components/audio_pipeline` | session id, sequence number, packet queue, codec and encoder handles, resource gate, task handles, cancel flags | start, stop, cancel, play_success_chime; audio_task, tx_task, success_chime_task | four tasks on two cores; a full queue; retries and a drain with a deadline; a gate taken by one task and given by another |
| `firmware/main/main.c` | recording, update, display, power and UI state, the session of the press, interaction mode, five timers, the event queue | one handler per event type; button, timer, interrupt and BLE callbacks that post events | events lost when the queue is full; events that arrive late; one-shot timers; failing calls half-way through a handler |
| `firmware/components/voice_ble` | connection, subscriptions, handshake seen, notification gate, connection interval, OTA session | GAP events, control and OTA writes, notifications | handshake and heartbeat timeouts; disconnection in the middle of anything |
| `firmware/components/ui_status`, `stick_s3_board` | LVGL objects, register values | drawing, PMIC and IO access | none of its own |
| `desktop/linux/app/coordinator.py` | the recording in progress, pending transcript, subtitle sessions, Codex state | device events, audio frames, recognition, confirmation, Codex events | results of awaited calls that come after a cancel or a disconnection |
| `desktop/linux/app/bluetooth.py` | scan task, clients, sleep state, transfer state | scan, connect, send, update_firmware | tasks that cancel each other; suspend and resume |
| `desktop/linux/app/bridge.py` | Codex notification server; relay socket, queue, retained state | HTTP hook, relay start, stop, send | reconnection with back-off, messages dropped and replaced by state |
| `desktop/linux/app/protocol.py`, `ogg.py`, `config.py`, `services.py` | none | encoding, parsing, clamping, version comparison | boundaries of widths |
| `desktop/windows/src/ble_central_win.cc` | paired devices, sessions, addresses being connected, the watcher, the update under way | pair, scan, ConnectDeviceAsync, disconnection, UpdateFirmware | coroutines with dozens of awaits, status events on threads of the stack, a mutex held for one lookup at a time |
| `desktop/windows/src/voice_stick_coordinator.cc` with `overlay_window.cc`, `win32_app.cc` | the recording, its text and pending paste; subtitle recordings by device and session | button and audio events, ASR callbacks, commit, cancel, restore | callbacks on the ASR worker, translation and timer threads, overlay calls posted to the UI thread, no common lock |
| `desktop/windows/src/asr_client_win.cc` | connection and session state, current id, queued audio, the worker | Start, SendOggOpusChunk, Cancel; the receive loop | two threads, one socket reused for many sessions, sends outside the lock |
| `desktop/macos` | the roles of the Linux app | the same | main-actor tasks |

They interact as follows. The button, timer and BLE callbacks of the firmware
post events to one queue; `app_event_task` takes them, and calls the audio
pipeline and voice_ble. tx_task sends audio through voice_ble without going
through the queue. The desktop's BLE manager hands device events and audio frames
to its coordinator, which writes control messages (JSON) back; voice_ble hands
them to `ble_control_cb`, which posts them to the queue, except the interaction
mode, which it writes itself on the NimBLE task. On Windows the BLE central calls the
coordinator on the UI thread; the coordinator drives an ASR client whose worker
calls back, and an overlay window whose timer and callbacks commit or recover; a
firmware transfer runs between the central and the OTA service of voice_ble.

What makes each part correct:

* audio pipeline: one owner of the codec at a time; nothing freed under a
  running task; no packet of one recording in another; frames in order and END
  last; no END after a cancel; a stopped session always ends;
* application task: a recording runs only on a ready link, never during an
  update, and in hold-to-talk not longer than the button is held; the host is told
  of everything the device cancels; locks are given back; sleep is always scheduled;
* BLE peripheral: an unready link, and only it, is cut; without a link the device
  can be found; the application knows whether the link is ready; audio never
  blocks for good; the interval asked for last is the one used; an image boots only
  when all of it was received in order, and every update ends;
* connections of the host: a mark or a session in its tables is a real attempt or
  connection; a dead session goes; every attempt ends;
* ASR client: a session has at most one outcome, and one if the service answers;
  its audio is sent whole and in order;
* coordinator: at most one pending transcript, confirmed or cancelled once; no
  late result acts on a session that is gone; the device is always told when it
  may go back to ready.

## Modules

### AudioPipeline

The four tasks of `audio_pipeline.c`. Each has a program counter (`app`, `audio`,
`tx`, `chime`); one action is one access to shared state, so every interleaving
of the two cores is explored. The other variables are the module's statics. A
packet is its session, sequence number and END mark: PCM, Opus and tone tables
are left out. Semaphore and queue waits with a time limit may expire at any
time the wait is blocked; the drain deadline may pass at any time. History
variables (`air`, `cancelled`, `intruded`, `sentinelLost`) record what was sent,
which sessions were cancelled, that a chime closed the codec without the gate,
and that the overflow path threw a sentinel away; no action reads them.

### FirmwareApp

`main.c`. The statics only `app_event_task` writes are the record `app`; the
functions its handlers call are operators from a record to a record
(`NoteActivity`, `StartRecording`, `StopRecording`, `ApplyUi`, `UpdatePower`), so
that a handler is their composition in the order of the code. A handler that
makes a call another task can interleave with is two actions (`FrontDownRecords`
and `FrontTell`; `DeepSleepPrepare` and `DeepSleepAbort` or `DeepSleepStart`).
`Post` is `xQueueSend` with no wait. The environment: button presses and
releases, timers, the PMIC interrupt and the periodic refresh, host messages,
mode changes on the NimBLE task, connection events and OTA outcomes.

Time is abstract. `app.armed` holds the timers that run; one fires any time.
`app.recent` holds the inactivity timers whose timeout is longer than the time
since the last activity, which is what `display_timeout_is_stale` computes;
`TimePasses` removes one while its timer is stopped. `lost` records event types
that found the queue full since their timer was last armed or an event of theirs last got
through: the invariants that name it say exactly what a full queue costs. Telling the host of
a cancellation may fail, and so may cutting the link then; `uncut` is the session whose host
got neither.

Left out: press durations, the sound settings, the texts, and the
HOST_RESPONSE_TIMEOUT handler, whose timer nothing starts.

### Coordinator

`desktop/linux/app/coordinator.py`, with the part of `bluetooth.py` that sends to
the device, the overlay windows and their timers (`gtk_runtime.py`). All of it
runs on one asyncio loop: a callback runs to its end, a coroutine to its next
await, and an action is one such stretch. `create_task` appends to `c.jobs`, which
start in order; other callbacks may run in between. `c.stage` says where a
recording's task is suspended: waiting for the END frame, for the
transcript or for its translation. Cancelling a task drops its job or its stage.
The fields of the coordinator are the record `c`, and its functions operators from
a record to a record with the names of the code (`PrimaryUp` is `_primary_up`), composed
as the code calls them. `SettingsSaved` and the jobs "settings" and
"gathered" are `update_config` before and after it awaits the tasks it cancelled;
the gather ends in some later round of the loop.

The device is the far end, reduced to what it reports and shows (`c.rec`,
`c.shown`, `held`, `wire`, `air`): FirmwareApp has the rest. Button events arrive
in order; audio frames overtake them and the END frame may never come.
A recording is "too short" by choice, until something has found it long enough.
`history[n].outlived` is set when the task of a recording goes on after the recording was
removed or confirmed; it is history, like the counts of pastes.

Assumptions: Linux accepts one connection at a time; session ids do not repeat; a
BLE write to a connected device succeeds; output and interaction mode do not change
with the settings that are saved; the loop is not in relay mode "sender". Left out:
start and stop, relay modes, the approval chime, firmware updates, the heartbeat.

### VoiceBle

The link half of `voice_ble.c`. GAP events, GATT writes and callouts are one queue
(`events`), taken by the NimBLE host task; `voice_ble_send_audio` runs on another task, split
where it reads or changes what the host task changes. A callout that expired has queued its
event, which stopping it does not take back. The NimBLE stack is external: it starts
advertising or fails, ends links, completes parameter updates or has them refused by the
central, and transmits notifications, later and with an event. The central does not change
the parameters by itself.

An interval request runs on the application's task or, when an update has ended
(`OnConnUpdate`, `RetryDeferral`), on the host task, with no lock between them: each task
writes the target (`SetTarget`), calls the stack (`CallTaken`, `CallBusy` for EALREADY,
`CallFails`), and then clears the deferral (`ClearDeferral`) or marks it (`DeferRequest`);
`request[k]` says where task `k` is and `asked[k]` what it asks for.

`failed` remembers what failed and nothing tries again ("adv", "cut", "itvl"), and that
requests of the two tasks crossed ("crossed"); the properties that name it say exactly what
that costs.

### FirmwareUpdate and AtomicUpdate

Both ends of a firmware transfer and the link between them: the OTA service of
`voice_ble.c` and `UpdateFirmwareAsync` of the Windows host. On the host, a coroutine
per transfer, events and cancellation on the UI thread and disconnections share
`firmware_update_session_`; the coroutine of a transfer that ended may still write when
the next one runs. The link loses what is in flight when it drops; the device may
lose power. An image is `Chunks` chunks.

The link and the host's session are apart. A session closes when the host notices that the link
went down (`HandleDeviceDisconnected`, which fails the update) or when it is forgotten,
reconnected or reconfigured (`UpdatePairedDeviceIds` and `CloseSession`, which do not tell
the update); the status handler reads the status when it runs, so a link that is back by then
(`Relink`) keeps its session. A new session may use a link that outlived the old one.
Assumed: once the link is back under the same session, notifications reach its handlers again.
`UpdateFirmware` of a later transfer has its image only after the earlier one has left
`UpdateFirmware`; a cancellation may come as soon as the transfer exists.

`AtomicUpdate` is the promise: the device boots what it has or an image received
whole, in order and from one transfer. `BootsWholeImage` says that FirmwareUpdate
implements it, under the mapping of `staged` to the partition's contents while
`s_ota.active`, and to nothing otherwise.

### WinBle

The tables of `ble_central_win.cc` and each `ConnectDeviceAsync`, suspended between
stages (`open`, `discover`, `subscribe`, `insert`); a session is the attempt that made
it. Handlers are attached to the object of an attempt and may be about to see a
disconnection (`notices`) when they are detached; they read the connection status when they
run and do nothing if the link is up again. The last discovery round reads the cache and may
succeed without a link. `UpdatePairedDeviceIds` takes the mutex for the marks and, in
`CloseSessions`, once more for the sessions; `closing` holds in between, which other threads
can see. Left out: Shutdown, the pairing dialog's own watcher, what is sent.

### WinCoordinator

`voice_stick_coordinator.cc` for the focused application. The members are the record
`co`, the handlers operators from a world (a record of all variables) to a world with
the names of the code. `posted` is the queue of overlay calls made off the UI
thread, `answer` a callback the ASR worker is about to make. A handler is one step:
the code takes no lock that is common to its threads, and what could be torn inside a handler
is not modelled. `UpdateConfig` and other destructions of a client deliver the callback that is
being made, as the join in its destructor does. The END frame never carries audio (tx_task
sends none), which is why frames and the end are separate inputs.

### WinSubtitle

The same coordinator when the target is subtitles: recordings by device and session,
several of one device alive at once, each with an ASR client of its own. Callbacks that
reach an erased recording do nothing and are left out. Segments come in click mode only, as
`ShouldUseDefiniteSegments` has it.

### AsrClient

`asr_client_win.cc`. Each action is what one thread does between two locks. `ui` and
`worker` say where the threads are; the service is external and is told of sessions
by frames. `heard` and `outcomes` are history. `cancelled_` is atomic and not under the lock:
a failure reads it and sets it (`FailureCancels`) before it settles the session under the lock
(`FailureSettles`), and the worker that ends closes its connection under the lock before it sets
it (`ConnectionFinished`, `FinishCancels`). Left out: transcripts and segments, a Start
from the worker (no caller does), and the branch for an empty id in SendReusableAudio,
which no state reaches.

### MC modules and proofs

The `MC` modules give constants their values and symmetry. Each
module whose name ends in `Proofs` holds the theorems about the one it extends.

## Runs

| Configuration | Shows | Instance |
|---|---|---|
| MCAudioPipeline | `GateExclusive`, `ResourcesHeld`, `OneSessionInFlight`, `NoEndAfterCancel`, `FramesInOrder`, and that a stopped session ends (`SessionEnds`) | queue 2, 2 tries, 2 sessions, 2 frames: a sentinel behind a frame fills the queue, a second start meets the drain of the first, a chime waits through both |
| MCFirmwareApp | `RecordingOnLink`, `HoldToTalk`, `HostInStep` | queue 2, 3 inputs, both modes, a display and locks that may fail, a cancel, a reconnection |
| MCFirmwareAppOta | `LocksHeld`, `OtaStopsRecording`, `SleepScheduled` | queue 2, 3 inputs, updates around recordings |
| MCFirmwareAppPower | `PowerNoticed` (liveness) | queue 2, 5 inputs: power, front button, readings that fail |
| MCVoiceBle | `CanBeFound`, `ReadyTold`, `IntervalSettles`, `GateReturns` (liveness), `TimeoutHitsItsLink` | 2 links; audio and control messages with 2 queued events of the central, or interval requests of both tasks with 1 |
| MCFirmwareUpdate | `BootsWholeImage` (refinement), `SuccessBoots`, `UpdateEnds` (liveness) | 2 transfers of 2 chunks, progress each chunk, a window of 1, 1 session whose link may drop and come back |
| MCCoordinatorConfirm | `NeverStuck`, `RecordingShown`, `PastedOnce`, `DeviceReleased`, `LateResultsDropped` | click_to_talk into the focused application, 2 recordings, 2 further inputs |
| MCCoordinatorSubtitle | `RecordingShown`, `RecordingsResolve` (liveness) | hold_to_talk, translated subtitles, 2 recordings that overlap, 1 further input |
| MCWinBle | `ConnectionsTracked`, `DeadSessionRemoved`, `AttemptEnds` (liveness) | 1 device, 2 attempts of 2 rounds, 1 pairing update |
| MCWinCoordinator | `PastedOnce`, `NeverStuck`, `OthersReady` | 2 devices, 2 recordings, 2 posted calls, both modes, with and without translation |
| MCWinSubtitle | `DeviceShows`, `RecordingsHeld` | 2 devices, 2 recordings, 2 posted calls, both modes, with and without translation |
| MCAsrClient | `OutcomeOnce`, `AudioInOrder`, `SessionAnswered` (liveness) | sessions of 3 pieces, 4 ids |

Every module has a `TypeOK`; a run checks that of AudioPipeline, the
others were checked on the same instances and, but for Coordinator's, proved.

Bounds. The pipeline's queue holds 50 packets and main.c's 12 events; two
entries are enough for "full", "empty", "one behind another" and overtaking,
and make loss frequent. Two sessions are enough for one to leak into the next.
In FirmwareApp, `MaxInputs` counts the things the outside world does (a press, a loss of link, a
message, an OTA write, a change of power); releases, readiness of the link,
timers and the passing of time are free, so three inputs make runs of dozens of
steps. `Happens` selects the kinds of input, so that each run explores the ones
its properties turn on.

In Coordinator, two recordings are enough for one to end while the other runs and
for a press during recognition; `MaxInputs` counts confirming presses, side clicks,
disconnections, recalls, saved settings and Codex events; two events
may be on their way at once (`MaxWire`). Requests, pastes, timers, audio frames and
reconnections are free.

Two links are enough for a timeout, an event or an interval of one to meet the next. Audio
and interval requests share nothing but the link and have behaviours of their own (`Loads`).
`MaxEvents` bounds what the central has put into the queue of the host task before it puts
more; with one, a write waits behind connections, completions and timeouts that come after
it, but not behind another event.
Two transfers are enough for a late coroutine or error to meet the next update, and two chunks
for a wrong order; a window of one chunk makes the data loop wait. One session is enough for
both transfers, as its link may drop, the device restart and the link come back; liveness over
two takes too long. The two safety properties also held with two sessions, and are proved for
any number. In WinBle two
attempts of one device are enough to overlap, for a radio reset under one of them and
for an event of one to meet the session of the other; two devices add nothing the
tables relate. In WinCoordinator and WinSubtitle two devices and two recordings let
a callback, a translation or a posted call of the first arrive in the second or while the
other device records; devices are interchangeable and the runs check invariants only, so
symmetry is sound. `MaxPosted` bounds the queue of the UI thread: a third call waits for the
thread that would post it. In AsrClient three pieces are enough to queue some, send some
and be overtaken, and four ids for a session on each of two connections and its
successor.

Deadlock is checked in the pipeline, whose app task can always call a chime or whose other
tasks can always move. It is off elsewhere: a device in deep sleep really stops, and the
others wait for input or have used up a bound.

Fairness. FreeRTOS schedules every ready task: weak fairness of each of the
pipeline's tasks, and of the app task only inside a call (nobody owes it a next
one). In FirmwareApp: weak fairness of `AppTask`, of the periodic battery timer and
of armed timers; the person lets go of the button some day (`FrontRelease`); and
the PMIC cannot fail to answer every time for ever (strong fairness of
`PowerRead`). No fairness is assumed of the host, the link or any input.
In Coordinator: weak fairness of the loop (`RunJob`), of the overlay timers, and of
the suspended tasks: AUDIO_END_TIMEOUT passes and every request is answered or
fails, having a time limit. None of the device, whose END frame may be lost.
In VoiceBle: the host task and the audio task run, timers expire, and the stack transmits
and cuts what it accepted. In FirmwareUpdate: the device's task, the coroutines, events and
disconnections; none of the link, the user or power. In WinBle: coroutines resume, and status
events and dispatched callbacks are delivered. In AsrClient: both threads run and the service
answers what it was asked; it need not fail, and nobody need cancel. WinCoordinator and
WinSubtitle check safety only.

### Where the code does something else

Some properties name an exception, and some statements that one would like to make do not
hold. TLC found these traces while the properties were stated. In the audio pipeline:

* a chime whose wait for the resource gate expires goes to `done` and closes the
  codec and the I2S channel without the gate, under a recording that runs
  (audio_pipeline.c:352). `ResourcesHeld` states what is left: only that closes it;
* the drop-oldest path of audio_task may discard the END sentinel of
  `audio_pipeline_stop` (audio_pipeline.c:447): `sentinelLost` in `SessionEnds`.

In the application task:

* a press that cannot start a recording stops the codex_done timer and leaves the
  screen without it (main.c:466), against docs/protocol.md:160;
* a button released after a disconnection draws the idle screen on a device that
  is offline (main.c:979), against docs/protocol.md:267-269.

In the Linux coordinator, in hold_to_talk:

* the device lets a press start a recording while the last one is being recognized.
  The coordinator answers "thinking" and forgets the press, the device ignores the
  "ready" that ends the recognition because it records, and its release finds no
  recording: it stays on Thinking, against docs/protocol.md:285. The firmware has a timeout
  for this (HOST_RESPONSE_TIMEOUT), which nothing starts. In click_to_talk the release is
  taken for the start of a recording instead, and `DeviceReleased` holds;
* the press that pauses a transcript is followed by a release, which `_primary_up` takes
  for the end of a recording. It sends "thinking", so the device leaves the confirmation
  and its next press records, against docs/protocol.md:286.

In the firmware update:

* an OTA error names no transfer, so an error of an old transfer fails the update that
  follows; it never makes one succeed (`SuccessBoots`);
* the data loop has no time limit: a progress event the device had no buffer for leaves it
  waiting until the link ends (`starved` in `UpdateEnds`);
* a session that is closed by `CloseSessions` (the device is forgotten or its settings changed
  during the update, ble_central_win.cc:233-243, 1368-1377) detaches the handlers
  and does not finish the update, and a disconnection that is handled when the link is up again
  does nothing (664-668) although the device has dropped its transfer: the data loop then waits
  without end (`untold` in `UpdateEnds`);
* `UpdateFirmware` reads `firmware_update_session_` again after it has let go of the lock; a
  disconnection or cancellation in between has reset it, and the host crashes. It also crashes
  when the coroutine writes through a closed session, whose characteristic is null (`crashed`).

In the link of the device, `IntervalSettles` excepts two things. A request that the stack or the
central refuses is not made again: the event of a failed update is only logged
(voice_ble.c:592-602). And the requests of the two tasks may cross:

* the call is told EALREADY and marks itself deferred after the event that would have served it
  (voice_ble.c:905, 935);
* the call of one task is taken, the update ends, and its late clear of the deferral (913, 942)
  erases the one the other task has set in the meantime;
* each task writes its target before the other's call, so the interval negotiated is not the
  target that is remembered.

In the application task, a host that cannot be told of a cancellation and whose link cannot be
cut either (voice_ble.c:819-822) goes on transcribing (`uncut` in `HostInStep`).

In the connections of the Windows host:

* a disconnection that is handled before the session is entered removes nothing, and the session
  stays (`missed` in `DeadSessionRemoved`);
* a disconnection that is handled after the link has come back removes nothing
  (ble_central_win.cc:664-668): the session stays entered, on a device that has forgotten its
  subscriptions (`DeadSessionRemoved` speaks of a device that stays away);
* an event whose attempt has failed or was closed removes whatever session the device has;
* `UpdatePairedDeviceIds` clears the marks of addresses that are being connected: a second
  attempt may start beside the first, or a device connect that is no longer paired (`split`);
* the cancelled flag of a cancellation that came when nothing was being connected stays, and
  cancels a later attempt;
* after a radio reset the watcher has stopped, and only a later disconnection or a change of
  the paired devices starts it again.

In the Windows coordinator:

* `ConfigureAsrCallbacks` posts the countdown with its commit callback; when the press that
  pauses is handled before the posted call, the countdown appears over the paused text
  and commits it when its timer runs out, against README.md:436-437 ("The front button pauses the
  confirmation countdown and confirms it when pressed again");
* a callback or translation that comes after its recording was cancelled acts on whatever is
  there then (`late` in `NeverStuck` and `OthersReady`); it still never pastes twice;
* with subtitles, an error of another device, a failed translation or a dialog replaces the
  overlay's callback, and the device whose error was there keeps showing its recording
  until its next press (`untold`); an error's callback that runs after a newer press shows "ready"
  while the device records;
* a press without a release in between makes another recording the active one, and nobody ends
  the first (`superseded` in `RecordingsHeld`).

In the ASR client, a piece of audio that the UI thread sends while the worker still flushes
the queue overtakes the queued ones (`crossed` in `AudioInOrder`), and a connection that the
service ends leaves its session waiting (`dropped` in `SessionAnswered`). A failure sets
`cancelled_` before it takes the lock (asr_client_win.cc:526-530). When the worker has set it and a
send of the UI thread fails before the worker settles, the UI thread sees that the failure is
being dealt with and idles the session (545-560), the worker finds it idle, and neither calls
`on_error` (`silenced` in `SessionAnswered`).

More of the Linux coordinator. `RecordingShown` excepts errors (`outlived`), in two traces. Settings
saved within the grace period of recording 1 remove it, but not the `_transcribe` that its END
has just started (coordinator.py:214-217, 480-484); recording 2 begins, the recognition of 1
fails, and `_error` sends "error" to the device that records (770-777). And a paste that fails
shows its error while the next recording runs. In hold_to_talk `PastedOnce` fails with a disconnection: a release heard while the
transcript waits sets `waiting_for_end` again, so that losing the link transcribes
and counts down the same recording a second time. With saved settings, `LateResultsDropped` fails
when an END frame comes between the cancellation of the tasks and the end of
`gather` (into the focused application the text then asks for confirmation while the next
recording runs, which breaks `RecordingShown` too), and `DeviceReleased` when settings are saved during a recording (the
device ignores the "ready" and is told nothing at its release) or with a "thinking"
queued. With two devices, `DeviceReleased` fails when one takes the connection over
within the two seconds of the other's error overlay: cancelling its recording hides
all overlays, with the callback that would have sent "ready". A paste that
fails late replaces the countdown of the next transcript by its error, and that
transcript then waits for a press. The runs leave these inputs out where
they check those properties.

## Proofs

### AudioPipelineProofs

`AudioPipelineProofs` proves, for every queue depth, retry limit and number of
sessions and frames (from `QueueDepthAssumption`, `MaxRetriesAssumption`, `BoundsAssumption`):

* `TypeCorrect`: `[]TypeOK`;
* `GateIsExclusive`, `ResourcesAreHeld`, `SessionsDoNotMix`,
  `CancelledNeverCompleted`: `GateExclusive`, `ResourcesHeld`, `OneSessionInFlight`,
  `NoEndAfterCancel`;
* `AirInOrder`: `FramesInOrder`, an action property.

None is inductive by itself. `GateExclusive` needs to know which task may exist
while `audio_pipeline_start` is inside which step (`ControlInv`): audio_task lives
only while tx_task has not cleaned up, and start passes its wait only when both
are gone. `ResourceInv` adds what is open at each stage: tx_task owns the codec
and the encoder until `TxCleanup`, which waits for audio_task. `SessionInv` adds
that only app calls queue a sentinel and that ids grow. `CancelInv` adds where
the cancel flag must still be set, and that a running session has neither
sentinel nor END. `OrderInv` follows a packet on its way from audio_task's hand through the
queue and tx_task's hand to the air: the frames of a session are numbered upwards along this
way, what is not sent yet lies above what was, and nothing follows the END because tx_task is
then past its loops. It is why frames that overflow, retries and a drain leave gaps
but never disorder, although `s_seq` is raised only after its packet can be seen.
Their conjunction `IInv` is inductive; `Inductive` proves it
with one lemma per part and one step per action. TLC was used to find the
strengthening before it was proved.

### FirmwareUpdateProofs

It proves, for every image size, progress interval, window and number of transfers and
sessions (from `ChunksAssumption`, `TransfersAssumption`, `MaxSessionsAssumption`; the window
matters for liveness only):

* `ImplementsAtomicUpdate`: `Spec => BootsWholeImage`, the refinement of `AtomicUpdate`;
* `SuccessIsBooted`: `[]SuccessBoots`;
* `TypeCorrect`: `[]TypeOK`.

The refinement maps `staged` to the flash contents while a transfer is active.
`ImageGrows` is what makes it go through: an active transfer has written exactly the
first `written` chunks of its own image, because `ota_begin` starts from nothing,
`ota_write_data` refuses another id or another offset, and everything else that touches
`s_ota` clears it. A handler that clears it is `Discard`, an accepted write `Receive`,
the end `Commit`, and every other step stutters (`ImageSteps`). `SuccessBoots` is not
inductive: it needs `DoneIsApplied`, that every "done" still under way, on the air or in
the queue of the UI thread, names a transfer that was applied, and that an event which
names a transfer is compared with the update (`TrueSteps`). `ChunksLeft` bounds what a
coroutine writes and is needed for types only. `IInv` is the conjunction of these.

### FirmwareAppProofs

It proves, for every depth of the queue, set of host messages, outcome of the calls that may
fail and number of inputs (from `QueueDepthAssumption`, `OutcomesAssumption`,
`MaxInputsAssumption` and `HostEventsAssumption`, that the host posts what `ble_control_cb`
can), the six invariants of the runs and the types:

* `TypeCorrect`: `[]TypeOK`; `LocksFollowWork`: `[]LocksHeld`;
* `RecordingNeedsLink`: `[]RecordingOnLink`; `HeldWhileRecording`: `[]HoldToTalk`;
* `HostFollows`: `[]HostInStep`; `UpdateParted`: `[]OtaStopsRecording`;
  `SleepComes`: `[]SleepScheduled`.

They hold because of the order of the queue, and their strengthening says so.
`PressesFollowed`: behind a queued press of a button that was let go is its release, unless
that was lost; otherwise a press handled late would start a recording nobody ends.
`ProgressFollowed`: behind queued progress of an update that is over is its end.
`RecordingLit`, `Telling` and `HostUntold` say what holds between the two halves of a press
(`FrontDownRecords`, `FrontTell`), when the link may go down before the host is told or cut. With the
seven they make `IInv`. The proof has lemmas about the functions from a record to a record (what
`NoteActivity`, `StartRecording`, `StopRecording`, `ApplyUi` and the timers preserve), about a
queue that gains or loses an event, and one lemma per handler.

`OtaStopsRecording` was wrong before the proof: a press that `ota_finish` overtook records
while the device is about to restart, and an `otaProgress` event behind it shows the update
again. No run reached that, with three inputs; the strengthened invariant did. The device
restarts within moments, hence the exception.

### VoiceBleProofs

It proves, for every number of links, bound on the events of the central and set of loads (from
`LoadsAssumption`, `BoundsAssumption`):

* `FoundAgain`: `[]CanBeFound`; `ApplicationKnows`: `[]ReadyTold`;
  `IntervalReached`: `[]IntervalSettles`;
* `TimeoutCutsItsLink`: `TimeoutHitsItsLink`, an action property;
* `TypeCorrect`: `[]TypeOK`.

`Ordered` states what may wait before what in the host task's queue: a link begins with its
connection and ends with its disconnection, and at most one event starts advertising.
`EventsOfLink`, `QuietLink` and `BusyLink` relate the queue to the link, to advertising and
to `s_conn_handle`: this is why no event of an old link is handled in a new one, and why
advertising starts after every end of a link. `TimeoutOfLink` says whose timeout is
armed or queued, so that a late one can only name the link it measured.
`Negotiation` is what `IntervalSettles` needs: a target written without a link belongs to a call
that will fail (`TargetOfLink`), an update is one of the link and told after it has ended
(`UpdateOfLink`), and when neither task has a request on its way to the stack or to its
deferral, the target is in use, is being negotiated, or a deferral is set that the end of the
update will find (`TargetReached`).

### WinBleProofs

It proves, for every number of devices, attempts, discovery rounds and pairing updates (from
`BoundsAssumption`, `DevicesAssumption`):

* `MapsTrackConnections`: `[]ConnectionsTracked`; `TypeCorrect`: `[]TypeOK`.

`ConnectionsTracked` needs `LiveMarked`, that the address of an attempt under way is marked
until `UpdatePairedDeviceIds` clears it, which is what keeps a second attempt from beginning, and
`SessionsOwned`, that a session belongs to the connected attempt that entered it; between the
lock sections of `UpdatePairedDeviceIds` sessions may be of devices that are no longer paired
(`closing`). Most steps move
attempts between stages and keep all of it (`StagesMoved`); `AttemptBegun` and `AttemptEnded` are
the two that change the maps.

### AsrClientProofs

It proves, for every number of pieces and session ids (from `BoundsAssumption`):

* `OneOutcome`: `[]OutcomeOnce`; `AudioHeardInOrder`: `[]AudioInOrder`; `TypeCorrect`: `[]TypeOK`.

`OutcomeOnce` needs `OutcomesLeft`: the outcome of a session is told by whoever takes the
session out of the members, which the lock lets only one thread do, and between that and
the callback of the worker the members hold no such id. That no id comes back is `IdsGrow`.
`AudioInOrder` needs to know where the pieces given so far are: in the queue
(`SessionFollows`), in what the worker took and flushes (`FlushFollows`), or one in the hands
of the UI thread (`UiFollows`), each part numbered on from what was heard. That they cannot be
in two threads' hands at once rests on `Starting`, a session begins with nothing queued and a
connection with no other worker, and `StartedOnce`, the service starts a session once, so that
a queue is flushed once. `crossed` excuses just the sessions in which the code lets both send.
A step of the worker that hears no audio goes through `WorkerMoves`, or `WorkerSettles` when
the session is over.

### WinCoordinatorProofs

It proves, for any devices, number of recordings, bound on the posted calls, modes and
transformations (from `NoneAssumption`, that no device is `None`, `ModesAssumption`,
`BoundsAssumption`), all three invariants of the run:

* `TextsPastedOnce`: `[]PastedOnce`; `SomebodyEnds`: `[]NeverStuck`;
  `OthersShowReady`: `[]OthersReady`; `TypeCorrect`: `[]TypeOK`.

The handlers are operators from a world to a world, so the invariant is one of a world:
`IInv` is `TypeOK` and `Good` of the world and of the callback the ASR worker is about to
make. `TextsApart` is why a text is pasted once: it is in one place on its way from the
recording over the ASR client, its callback, the translation and the pending paste to
the paste, and each of these takes it from the one before. The code has no lock that would give
this; it has the order in which handlers clear members before they call, and that commit and
restore take the text out before they paste. `TextsApart`, `Numbered` (texts of recordings
to come are nowhere), `MembersAgree` and `ErrorsRecover` hold whatever comes late. The
other two invariants hold until a callback acts on a recording it is not of (`late`): until then the
coordinator has a recording whose text is still to come (`Busy`), or all that may still call
was cancelled (`Quiet`); everything else belongs to the last recording (`OnlyLast`), the
members say how far it is (`Stages`), and only its device shows it (`Others`).

Handlers call each other, so what a call inside a handler may break is separate from what a
whole handler keeps: `Held` holds at every call, and `Good` adds what is true between
handlers, that the end of what is going on is awaited (`EndsBy`). The parameter of
`EndsBy` is the callback still to run: a timer takes it from the overlay before it calls it.
There are lemmas about each function of the code, in the order of the calls, and then one per action.

### WinSubtitleProofs

It proves, from the same assumptions, both invariants of the run:

* `DevicesShowRecordings`: `[]DeviceShows`; `RecordingsEnd`: `[]RecordingsHeld`;
  `TypeCorrect`: `[]TypeOK`.

`RecordingsHeld` needs `Recognized`, that a recording has its ASR client from the first audio to
the final text and from then on its translation, `Ended`, that a recording which is not
active any more was superseded, waits for its END or has sent it, and `ClientsLive` and
`ActiveLive`, that nothing points to an erased one. `DeviceShows` is inductive once the
tables are right (`Told`, `Shown`). A handler that ends a recording first clears it from
`active_subtitle_sessions_`, then erases it, then tells the device: `Held(w, ss)` and
`Shown(w, e)` except the recordings `ss` or the device `e` that such a handler is in the midst
of, and its last call mends them.

### Only model-checked

* Liveness (`SessionEnds`, `PowerNoticed`, `GateReturns`, `UpdateEnds`, `RecordingsResolve`,
  `DeadSessionRemoved`, `AttemptEnds`, `SessionAnswered`): out of the prover's reach, like
  ENABLED.
* The Linux `Coordinator`. `PastedOnce`, `DeviceReleased`, `RecordingShown` and
  `LateResultsDropped` hold for the modes and inputs of the runs and not for all values of the
  constants: hold_to_talk, saved settings or a second device break them, as described above. A theorem about them would have to assume these away. `NeverStuck` has no
  such exception: TLC found it to hold in both modes, for both targets and for two devices with
  every kind of input. It is the next to be proved.

## Not modelled

* `ui_status` and `stick_s3_board`: drawing and register access. FirmwareApp keeps
  which screen was drawn last and lets the calls fail.
* The macOS app: a port of the same coordinator on main-actor tasks.
* The relay client and the Codex bridge of Linux, its Bluetooth manager beyond what the
  coordinator sees, and start, stop and relay modes of its coordinator.
* On Windows: the firmware manifest check (a forced check joins the last check's thread while
  it holds `firmware_mutex_`, which that thread takes once more: a deadlock nobody has a
  test for), Shutdown, dialogs, configuration files, audio muxing.
* Wire formats and configuration, user interfaces, packaging scripts and the website.

## Plan

1. `AudioPipeline` and its proofs, `FirmwareApp`, `Coordinator`; `VoiceBle`,
   `FirmwareUpdate` implementing `AtomicUpdate`; `WinBle`, `WinCoordinator`, `WinSubtitle`,
   `AsrClient`: done.
2. Proofs: every safety property of the runs (invariants and action properties) of
   the pipeline, FirmwareApp, VoiceBle, FirmwareUpdate, WinBle, WinCoordinator, WinSubtitle and
   AsrClient: done. Next: `NeverStuck` of Coordinator.
3. `Relay` and the Codex bridge; the manifest check; wire formats as operators.
