--------------------------- MODULE AudioPipeline ---------------------------
(***************************************************************************)
(* The recording and chime pipeline of the StickS3 firmware                *)
(* (src/firmware/components/audio_pipeline/audio_pipeline.c).              *)
(*                                                                         *)
(* Four FreeRTOS tasks on two cores share the module's static variables:   *)
(*   app    the app event task, which calls start, stop, cancel and        *)
(*          play_success_chime, one call at a time;                        *)
(*   audio  audio_task, reads the codec, encodes and queues packets;       *)
(*   tx     tx_task, sends queued packets over BLE, drains and cleans up;  *)
(*   chime  success_chime_task, plays the notification tone.               *)
(* Each task has a program counter; one action is one access to shared     *)
(* state.  Samples and Opus payloads are abstracted away: a packet is its  *)
(* session, its sequence number and whether it is the END sentinel.        *)
(***************************************************************************)
EXTENDS Naturals, Sequences

CONSTANTS
    QueueDepth,   \* TX_QUEUE_DEPTH
    MaxRetries,   \* TX_MAX_RETRIES
    MaxSessions,  \* bound on the calls of audio_pipeline_start
    MaxFrames     \* bound on the frames captured in one session

ASSUME QueueDepthAssumption == QueueDepth \in Nat \ {0}
ASSUME MaxRetriesAssumption == MaxRetries \in Nat \ {0}
ASSUME BoundsAssumption == MaxSessions \in Nat /\ MaxFrames \in Nat

VARIABLES
    running,             \* s_running
    recordingRequested,  \* s_recording_requested
    cancelRequested,     \* s_cancel_requested
    chimeRunning,        \* s_chime_running
    chimeCancel,         \* s_chime_cancel
    sessionId,           \* s_session_id
    seq,                 \* s_seq
    audioTask,           \* s_audio_task # NULL
    txTask,              \* s_tx_task # NULL
    txQueue,             \* s_tx_queue
    gate,                \* s_audio_resource_gate is available
    codec,               \* what the I2S channel and the codec are open for
    opus,                \* s_opus_encoder # NULL
    app, audio, tx, chime,  \* program counters
    nextId,              \* the id the next start is called with
    audioPkt,            \* pkt of audio_task
    txPkt, retries,      \* pkt and retries of tx_task
    chimeHasGate,        \* gate_acquired of success_chime_task
    air,                 \* history: the last packet voice_ble_send_audio took
    cancelled,           \* history: the sessions audio_pipeline_cancel ended
    intruded,            \* history: the codec was last closed without the gate
    sentinelLost         \* history: the overflow path discarded the sentinel

flags     == <<running, recordingRequested, cancelRequested>>
chimeVars == <<chimeRunning, chimeCancel>>
session   == <<sessionId, seq, nextId>>
handles   == <<audioTask, txTask>>
resources == <<codec, opus, intruded>>
audioVars == <<audio, audioPkt>>
txVars    == <<tx, txPkt, retries, air>>
chimeTask == <<chime, chimeHasGate>>
history   == <<cancelled, sentinelLost>>

vars == <<flags, chimeVars, session, handles, txQueue, gate, resources, app,
          audioVars, txVars, chimeTask, history>>

Packet == [sid : Nat, seq : Nat, end : BOOLEAN]

NoPacket == [sid |-> 0, seq |-> 0, end |-> FALSE]

\* The packet audio_pipeline_stop and audio_pipeline_cancel queue.
Sentinel == [sid |-> sessionId, seq |-> seq, end |-> TRUE]

Full == Len(txQueue) >= QueueDepth

ChimeCancelled == chimeCancel \/ recordingRequested

Init ==
    /\ running = FALSE /\ recordingRequested = FALSE /\ cancelRequested = FALSE
    /\ chimeRunning = FALSE /\ chimeCancel = FALSE
    /\ sessionId = 0 /\ seq = 0 /\ nextId = 1
    /\ audioTask = FALSE /\ txTask = FALSE
    /\ txQueue = <<>>
    /\ gate = TRUE
    /\ codec = "none" /\ opus = FALSE /\ intruded = FALSE
    /\ app = "idle"
    /\ audio = "none" /\ audioPkt = NoPacket
    /\ tx = "none" /\ txPkt = NoPacket /\ retries = 0 /\ air = NoPacket
    /\ chime = "none" /\ chimeHasGate = FALSE
    /\ cancelled = {} /\ sentinelLost = FALSE

-----------------------------------------------------------------------------
(* The app task: audio_pipeline_start *)

\* Entry of start: announce the recording and ask a playing chime to end.
Start ==
    /\ app = "idle" /\ ~running /\ nextId <= MaxSessions
    /\ recordingRequested' = TRUE
    /\ chimeCancel' = TRUE
    /\ app' = "wait"
    /\ nextId' = nextId + 1
    /\ UNCHANGED <<running, cancelRequested, chimeRunning, sessionId, seq, handles,
                   txQueue, gate, resources, audioVars, txVars, chimeTask, history>>

\* wait_for_tasks_to_exit sees both handles NULL.
StartTasksExited ==
    /\ app = "wait" /\ ~audioTask /\ ~txTask
    /\ app' = "gate"
    /\ UNCHANGED <<flags, chimeVars, session, handles, txQueue, gate, resources,
                   audioVars, txVars, chimeTask, history>>

\* One of the two waits of TASK_EXIT_WAIT_MS expires.
StartTimeout ==
    /\ \/ app = "wait" /\ (audioTask \/ txTask)
       \/ app = "gate" /\ ~gate
    /\ recordingRequested' = FALSE
    /\ app' = "idle"
    /\ UNCHANGED <<running, cancelRequested, chimeVars, session, handles, txQueue,
                   gate, resources, audioVars, txVars, chimeTask, history>>

StartTakeGate ==
    /\ app = "gate" /\ gate
    /\ gate' = FALSE
    /\ app' = "openCodec"
    /\ UNCHANGED <<flags, chimeVars, session, handles, txQueue, resources,
                   audioVars, txVars, chimeTask, history>>

\* init_i2s and init_codec succeed.
StartOpenCodec ==
    /\ app = "openCodec"
    /\ codec' = "capture" /\ intruded' = FALSE
    /\ app' = "openOpus"
    /\ UNCHANGED <<flags, chimeVars, session, handles, txQueue, gate, opus,
                   audioVars, txVars, chimeTask, history>>

\* init_opus succeeds.
StartOpenOpus ==
    /\ app = "openOpus"
    /\ opus' = TRUE
    /\ app' = "launch"
    /\ UNCHANGED <<flags, chimeVars, session, handles, txQueue, gate, codec, intruded,
                   audioVars, txVars, chimeTask, history>>

\* Mutant: the error path closes what was opened but keeps the gate.
StartAbandonKeepsGate ==
    /\ app \in {"openCodec", "openOpus"}
    /\ codec' = "none" /\ opus' = FALSE
    /\ recordingRequested' = FALSE
    /\ app' = "idle"
    /\ UNCHANGED <<running, cancelRequested, chimeVars, session, handles, txQueue, gate,
                   intruded, audioVars, txVars, chimeTask, history>>

\* init_i2s, init_codec or init_opus fails, or tx_task cannot be created: what
\* was opened is closed and the gate given back.
StartAbandon ==
    /\ app \in {"openCodec", "openOpus", "launch"}
    /\ codec' = "none" /\ opus' = FALSE
    /\ gate' = TRUE
    /\ recordingRequested' = FALSE
    /\ IF app = "launch"
         THEN /\ txQueue' = <<>> /\ cancelRequested' = FALSE
              /\ sessionId' = nextId - 1 /\ seq' = 0
         ELSE UNCHANGED <<txQueue, cancelRequested, sessionId, seq>>
    /\ app' = "idle"
    /\ UNCHANGED <<running, chimeVars, nextId, handles, intruded,
                   audioVars, txVars, chimeTask, history>>

\* Mutant: the session starts without xQueueReset.
StartLaunchNoReset ==
    /\ app = "launch"
    /\ sessionId' = nextId - 1 /\ seq' = 0
    /\ cancelRequested' = FALSE
    /\ running' = TRUE
    /\ txTask' = TRUE /\ tx' = "recv"
    /\ app' = "spawnAudio"
    /\ UNCHANGED <<recordingRequested, chimeVars, nextId, audioTask, gate, resources,
                   txQueue, audioVars, txPkt, retries, air, chimeTask, history>>

\* Reset the session's state and create tx_task.
StartLaunch ==
    /\ app = "launch"
    /\ txQueue' = <<>>
    /\ sessionId' = nextId - 1 /\ seq' = 0
    /\ cancelRequested' = FALSE
    /\ running' = TRUE
    /\ txTask' = TRUE /\ tx' = "recv"
    /\ app' = "spawnAudio"
    /\ UNCHANGED <<recordingRequested, chimeVars, nextId, audioTask, gate, resources,
                   audioVars, txPkt, retries, air, chimeTask, history>>

\* Create audio_task: the session runs.
StartAudio ==
    /\ app = "spawnAudio"
    /\ audioTask' = TRUE /\ audio' = "loop"
    /\ recordingRequested' = FALSE
    /\ app' = "idle"
    /\ UNCHANGED <<running, cancelRequested, chimeVars, session, txTask, txQueue, gate,
                   resources, audioPkt, txVars, chimeTask, history>>

\* audio_task cannot be created: stop tx_task by a sentinel and wait for it.
StartAudioFails ==
    /\ app = "spawnAudio"
    /\ running' = FALSE
    /\ app' = "failSend"
    /\ UNCHANGED <<recordingRequested, cancelRequested, chimeVars, session, handles,
                   txQueue, gate, resources, audioVars, txVars, chimeTask, history>>

StartFailWaited ==
    /\ app = "failWait"
    /\ app' = "idle"
    /\ UNCHANGED <<flags, chimeVars, session, handles, txQueue, gate, resources,
                   audioVars, txVars, chimeTask, history>>

-----------------------------------------------------------------------------
(* The app task: audio_pipeline_stop, _cancel and _play_success_chime *)

Stop ==
    /\ app = "idle" /\ running
    /\ running' = FALSE
    /\ app' = "stopSend"
    /\ UNCHANGED <<recordingRequested, cancelRequested, chimeVars, session, handles,
                   txQueue, gate, resources, audioVars, txVars, chimeTask, history>>

\* Mutant: the sentinel is queued with no wait, and lost when the queue is full.
SendSentinelNoWait ==
    /\ app \in {"stopSend", "failSend"}
    /\ txQueue' = IF Full THEN txQueue ELSE Append(txQueue, Sentinel)
    /\ IF app = "failSend"
         THEN recordingRequested' = FALSE /\ app' = "failWait"
         ELSE UNCHANGED recordingRequested /\ app' = "idle"
    /\ UNCHANGED <<running, cancelRequested, chimeVars, session, handles, gate,
                   resources, audioVars, txVars, chimeTask, history>>

\* xQueueSend(s_tx_queue, &sentinel, portMAX_DELAY), of stop and of a failed start.
SendSentinel ==
    /\ app \in {"stopSend", "failSend"} /\ ~Full
    /\ txQueue' = Append(txQueue, Sentinel)
    /\ IF app = "failSend"
         THEN recordingRequested' = FALSE /\ app' = "failWait"
         ELSE UNCHANGED recordingRequested /\ app' = "idle"
    /\ UNCHANGED <<running, cancelRequested, chimeVars, session, handles, gate,
                   resources, audioVars, txVars, chimeTask, history>>

\* audio_pipeline_cancel sets s_cancel_requested before it clears s_running.
Cancel ==
    /\ app = "idle" /\ running
    /\ cancelRequested' = TRUE
    /\ cancelled' = cancelled \cup {sessionId}
    /\ app' = "cancelStop"
    /\ UNCHANGED <<running, recordingRequested, chimeVars, session, handles, txQueue,
                   gate, resources, audioVars, txVars, chimeTask, sentinelLost>>

CancelStop ==
    /\ app = "cancelStop"
    /\ running' = FALSE
    /\ app' = "cancelReset"
    /\ UNCHANGED <<recordingRequested, cancelRequested, chimeVars, session, handles,
                   txQueue, gate, resources, audioVars, txVars, chimeTask, history>>

CancelReset ==
    /\ app = "cancelReset"
    /\ txQueue' = <<>>
    /\ app' = "cancelSend"
    /\ UNCHANGED <<flags, chimeVars, session, handles, gate, resources,
                   audioVars, txVars, chimeTask, history>>

\* xQueueSendToFront(..., 0): the sentinel is not queued when the queue is full.
CancelSend ==
    /\ app = "cancelSend"
    /\ txQueue' = IF Full THEN txQueue ELSE <<Sentinel>> \o txQueue
    /\ app' = "idle"
    /\ UNCHANGED <<flags, chimeVars, session, handles, gate, resources,
                   audioVars, txVars, chimeTask, history>>

\* The chime task is created, unless a recording is on or was asked for.
PlayChime ==
    /\ app = "idle" /\ ~chimeRunning
    /\ chimeCancel' = FALSE
    /\ \/ /\ ~running /\ ~recordingRequested
          /\ chimeRunning' = TRUE
          /\ chime' = "wait"
       \/ UNCHANGED <<chimeRunning, chime>>   \* skipped, or xTaskCreate fails
    /\ UNCHANGED <<flags, session, handles, txQueue, gate, resources, app,
                   audioVars, txVars, chimeHasGate, history>>

-----------------------------------------------------------------------------
(* audio_task *)

AppAndChimeUnchanged == UNCHANGED <<app, chimeTask, chimeVars, nextId, gate>>

AudioLoop ==
    /\ audio = "loop"
    /\ audio' = IF running THEN "read" ELSE "exit"
    /\ AppAndChimeUnchanged
    /\ UNCHANGED <<flags, sessionId, seq, handles, txQueue, resources, audioPkt,
                   txVars, history>>

\* A frame is read from the codec and encoded, and its packet is built.
AudioCapture ==
    /\ audio = "read" /\ seq < MaxFrames
    /\ audioPkt' = [sid |-> sessionId, seq |-> seq, end |-> FALSE]
    /\ audio' = "push"
    /\ AppAndChimeUnchanged
    /\ UNCHANGED <<flags, sessionId, seq, handles, txQueue, resources,
                   txVars, history>>

\* esp_codec_dev_read or opus_encode fails: continue.
AudioReadFails ==
    /\ audio = "read"
    /\ audio' = "loop"
    /\ AppAndChimeUnchanged
    /\ UNCHANGED <<flags, sessionId, seq, handles, txQueue, resources, audioPkt,
                   txVars, history>>

\* xQueueSend(s_tx_queue, &pkt, 0)
AudioPush ==
    /\ audio = "push"
    /\ IF Full
         THEN audio' = "discard" /\ UNCHANGED txQueue
         ELSE audio' = "count" /\ txQueue' = Append(txQueue, audioPkt)
    /\ AppAndChimeUnchanged
    /\ UNCHANGED <<flags, sessionId, seq, handles, resources, audioPkt,
                   txVars, history>>

\* The oldest entry makes room, whatever it is by now.
AudioDiscardOldest ==
    /\ audio = "discard"
    /\ IF txQueue = <<>>
         THEN UNCHANGED <<txQueue, sentinelLost>>
         ELSE /\ txQueue' = Tail(txQueue)
              /\ sentinelLost' = (sentinelLost \/ Head(txQueue).end)
    /\ audio' = "pushAgain"
    /\ AppAndChimeUnchanged
    /\ UNCHANGED <<flags, sessionId, seq, handles, resources, audioPkt,
                   txVars, cancelled>>

\* The second xQueueSend; its result is not looked at.
AudioPushAgain ==
    /\ audio = "pushAgain"
    /\ txQueue' = IF Full THEN txQueue ELSE Append(txQueue, audioPkt)
    /\ audio' = "count"
    /\ AppAndChimeUnchanged
    /\ UNCHANGED <<flags, sessionId, seq, handles, resources, audioPkt,
                   txVars, history>>

\* s_seq++, after the packet is already visible to tx_task.
AudioCount ==
    /\ audio = "count"
    /\ seq' = seq + 1
    /\ audio' = "loop"
    /\ AppAndChimeUnchanged
    /\ UNCHANGED <<flags, sessionId, handles, txQueue, resources, audioPkt,
                   txVars, history>>

AudioExit ==
    /\ audio = "exit"
    /\ audioTask' = FALSE
    /\ audio' = "none"
    /\ AppAndChimeUnchanged
    /\ UNCHANGED <<flags, sessionId, seq, txTask, txQueue, resources, audioPkt,
                   txVars, history>>

-----------------------------------------------------------------------------
(* tx_task *)

\* What no step of the sending loops touches.
TxKeeps == UNCHANGED <<app, chimeTask, chimeVars, session, running,
                       recordingRequested, audioTask, audioVars, history>>

\* Mutant: a sentinel always means drain, the cancel flag is not looked at.
TxReceiveDrains ==
    /\ tx = "recv" /\ txQueue # <<>>
    /\ txPkt' = Head(txQueue)
    /\ txQueue' = Tail(txQueue)
    /\ retries' = 0
    /\ tx' = IF Head(txQueue).end THEN "drain" ELSE "check"
    /\ TxKeeps /\ UNCHANGED <<cancelRequested, air, txTask, gate, resources>>

\* xQueueReceive(..., portMAX_DELAY), and the sentinel's two meanings.
TxReceive ==
    /\ tx = "recv" /\ txQueue # <<>>
    /\ txPkt' = Head(txQueue)
    /\ txQueue' = Tail(txQueue)
    /\ retries' = 0
    /\ IF Head(txQueue).end
         THEN /\ tx' = IF cancelRequested THEN "cancel" ELSE "drain"
              /\ cancelRequested' = FALSE
         ELSE tx' = "check" /\ UNCHANGED cancelRequested
    /\ TxKeeps /\ UNCHANGED <<air, txTask, gate, resources>>

\* The cancel test at the head of the retry loop.
TxCheck ==
    /\ tx = "check"
    /\ tx' = IF cancelRequested THEN "cancel" ELSE "send"
    /\ TxKeeps /\ UNCHANGED <<cancelRequested, txPkt, retries, air, txQueue, txTask,
                              gate, resources>>

\* voice_ble_send_audio takes the packet, or returns an error.
TxSend ==
    /\ tx = "send"
    /\ \/ air' = txPkt /\ tx' = "recv"
       \/ tx' = "failed" /\ UNCHANGED air
    /\ TxKeeps /\ UNCHANGED <<cancelRequested, txPkt, retries, txQueue, txTask,
                              gate, resources>>

\* Mutant: the retry budget is counted down from an initial zero.
TxFailedCountsDown ==
    /\ tx = "failed"
    /\ IF cancelRequested
         THEN tx' = "cancel" /\ UNCHANGED retries
         ELSE /\ retries' = retries - 1
              /\ tx' = IF retries = 0 THEN "recv" ELSE "check"
    /\ TxKeeps /\ UNCHANGED <<cancelRequested, txPkt, air, txQueue, txTask,
                              gate, resources>>

\* Mutant: a packet that failed goes back to the end of the queue.
TxFailedRequeues ==
    /\ tx = "failed" /\ ~Full
    /\ txQueue' = Append(txQueue, txPkt)
    /\ tx' = "recv"
    /\ TxKeeps /\ UNCHANGED <<cancelRequested, retries, txPkt, air, txTask,
                              gate, resources>>

\* The second cancel test, and the retry count.
TxFailed ==
    /\ tx = "failed"
    /\ IF cancelRequested
         THEN tx' = "cancel" /\ UNCHANGED retries
         ELSE /\ retries' = retries + 1
              /\ tx' = IF retries + 1 >= MaxRetries THEN "recv" ELSE "check"
    /\ TxKeeps /\ UNCHANGED <<cancelRequested, txPkt, air, txQueue, txTask,
                              gate, resources>>

\* xQueueReceive(..., 0) of the drain loop: empty, another sentinel, the
\* deadline (any time), or a packet to send.
TxDrain ==
    /\ tx = "drain"
    /\ IF txQueue = <<>>
         THEN tx' = "end" /\ UNCHANGED <<txPkt, txQueue, retries>>
         ELSE /\ txPkt' = Head(txQueue)
              /\ \/ /\ tx' = IF Head(txQueue).end THEN "end" ELSE "drainSend"
                    /\ txQueue' = Tail(txQueue)
                    /\ retries' = 0
                 \/ /\ ~Head(txQueue).end
                    /\ tx' = "end" /\ txQueue' = <<>> /\ UNCHANGED retries
    /\ TxKeeps /\ UNCHANGED <<cancelRequested, air, txTask, gate, resources>>

\* A drained packet is sent, retried, or given up at the limit or the deadline.
TxDrainSend ==
    /\ tx = "drainSend"
    /\ \/ air' = txPkt /\ tx' = "drain" /\ UNCHANGED retries
       \/ tx' = "drain" /\ UNCHANGED <<air, retries>>
       \/ /\ retries + 1 < MaxRetries
          /\ retries' = retries + 1
          /\ UNCHANGED <<tx, air>>
    /\ TxKeeps /\ UNCHANGED <<cancelRequested, txPkt, txQueue, txTask, gate, resources>>

\* The END marker carries s_seq as it is now; a failed send is not repeated.
TxEnd ==
    /\ tx = "end"
    /\ air' = [sid |-> sessionId, seq |-> seq, end |-> TRUE] \/ UNCHANGED air
    /\ tx' = "cleanup"
    /\ TxKeeps /\ UNCHANGED <<cancelRequested, txPkt, retries, txQueue, txTask,
                              gate, resources>>

TxCancel ==
    /\ tx = "cancel"
    /\ cancelRequested' = FALSE
    /\ txQueue' = <<>>
    /\ tx' = "cleanup"
    /\ TxKeeps /\ UNCHANGED <<txPkt, retries, air, txTask, gate, resources>>

\* Mutant: the resources are destroyed without waiting for audio_task.
TxCleanupNoWait ==
    /\ tx = "cleanup"
    /\ codec' = "none" /\ opus' = FALSE
    /\ tx' = "clear"
    /\ TxKeeps /\ UNCHANGED <<cancelRequested, txPkt, retries, air, txQueue, txTask,
                              gate, intruded>>

\* deinit_session_resources, once audio_task is gone.
TxCleanup ==
    /\ tx = "cleanup" /\ ~audioTask
    /\ codec' = "none" /\ opus' = FALSE
    /\ tx' = "clear"
    /\ TxKeeps /\ UNCHANGED <<cancelRequested, txPkt, retries, air, txQueue, txTask,
                              gate, intruded>>

\* s_tx_task = NULL, before the gate is given.
TxClear ==
    /\ tx = "clear"
    /\ txTask' = FALSE
    /\ tx' = "give"
    /\ TxKeeps /\ UNCHANGED <<cancelRequested, txPkt, retries, air, txQueue,
                              gate, resources>>

TxGive ==
    /\ tx = "give"
    /\ gate' = TRUE
    /\ tx' = "none"
    /\ TxKeeps /\ UNCHANGED <<cancelRequested, txPkt, retries, air, txQueue, txTask,
                              resources>>

-----------------------------------------------------------------------------
(* success_chime_task *)

\* What no step of the chime touches.
ChimeKeeps == UNCHANGED <<app, flags, chimeCancel, session, handles, txQueue, opus,
                          audioVars, txVars, history>>

ChimeTakeGate ==
    /\ chime = "wait" /\ gate
    /\ gate' = FALSE /\ chimeHasGate' = TRUE
    /\ chime' = IF ChimeCancelled THEN "close" ELSE "open"
    /\ ChimeKeeps /\ UNCHANGED <<chimeRunning, codec, intruded>>

\* CHIME_GATE_WAIT_MS expires: goto done, without the gate.
ChimeTimeout ==
    /\ chime = "wait" /\ ~gate
    /\ chime' = "close"
    /\ ChimeKeeps /\ UNCHANGED <<chimeRunning, chimeHasGate, gate, codec, intruded>>

\* init_i2s(true) and init_codec(true), which may fail.
ChimeOpen ==
    /\ chime = "open"
    /\ \/ chime' = "play" /\ codec' = "playback"
       \/ chime' = "close" /\ UNCHANGED codec
    /\ ChimeKeeps /\ UNCHANGED <<chimeRunning, chimeHasGate, gate, intruded>>

\* The tones end, are cancelled, or a write fails.
ChimePlay ==
    /\ chime = "play"
    /\ chime' = "close"
    /\ ChimeKeeps /\ UNCHANGED <<chimeRunning, chimeHasGate, gate, codec, intruded>>

\* done: deinit_codec and deinit_i2s, whether or not the gate was acquired.
ChimeClose ==
    /\ chime = "close"
    /\ codec' = "none"
    /\ intruded' = (intruded \/ ~chimeHasGate)
    /\ chime' = "release"
    /\ ChimeKeeps /\ UNCHANGED <<chimeRunning, chimeHasGate, gate>>

ChimeRelease ==
    /\ chime = "release"
    /\ gate' = (gate \/ chimeHasGate)
    /\ chimeHasGate' = FALSE
    /\ chimeRunning' = FALSE
    /\ chime' = "none"
    /\ ChimeKeeps /\ UNCHANGED <<codec, intruded>>

-----------------------------------------------------------------------------
App ==
    \/ Start \/ StartTasksExited \/ StartTimeout \/ StartTakeGate \/ StartOpenCodec
    \/ StartOpenOpus \/ StartAbandon \/ StartLaunch \/ StartAudio \/ StartAudioFails
    \/ StartFailWaited \/ Stop \/ SendSentinel \/ Cancel \/ CancelStop \/ CancelReset
    \/ CancelSend \/ PlayChime

Audio ==
    \/ AudioLoop \/ AudioCapture \/ AudioReadFails \/ AudioPush \/ AudioDiscardOldest
    \/ AudioPushAgain \/ AudioCount \/ AudioExit

Tx ==
    \/ TxReceive \/ TxCheck \/ TxSend \/ TxFailed \/ TxDrain \/ TxDrainSend \/ TxEnd
    \/ TxCancel \/ TxCleanup \/ TxClear \/ TxGive

Chime ==
    \/ ChimeTakeGate \/ ChimeTimeout \/ ChimeOpen \/ ChimePlay \/ ChimeClose
    \/ ChimeRelease

Next == App \/ Audio \/ Tx \/ Chime

\* The app task owes nobody a call, but finishes the one it is in.
AppFinishes == app # "idle" /\ App

Spec == Init /\ [][Next]_vars

FairSpec == Spec /\ WF_vars(AppFinishes) /\ WF_vars(Audio) /\ WF_vars(Tx) /\ WF_vars(Chime)

-----------------------------------------------------------------------------
FlagTypes ==
    /\ running \in BOOLEAN /\ recordingRequested \in BOOLEAN
    /\ cancelRequested \in BOOLEAN /\ chimeRunning \in BOOLEAN
    /\ chimeCancel \in BOOLEAN /\ audioTask \in BOOLEAN /\ txTask \in BOOLEAN
    /\ gate \in BOOLEAN /\ opus \in BOOLEAN /\ chimeHasGate \in BOOLEAN
    /\ intruded \in BOOLEAN /\ sentinelLost \in BOOLEAN

DataTypes ==
    /\ sessionId \in Nat /\ seq \in Nat /\ nextId \in Nat \ {0} /\ retries \in Nat
    /\ audioPkt \in Packet /\ txPkt \in Packet /\ air \in Packet
    /\ txQueue \in Seq(Packet)
    /\ cancelled \in SUBSET Nat

ControlTypes ==
    /\ codec \in {"none", "capture", "playback"}
    /\ app \in {"idle", "wait", "gate", "openCodec", "openOpus", "launch", "spawnAudio",
                "failSend", "failWait", "stopSend", "cancelStop", "cancelReset",
                "cancelSend"}
    /\ audio \in {"none", "loop", "read", "push", "discard", "pushAgain", "count", "exit"}
    /\ tx \in {"none", "recv", "check", "send", "failed", "drain", "drainSend", "end",
               "cancel", "cleanup", "clear", "give"}
    /\ chime \in {"none", "wait", "open", "play", "close", "release"}

TypeOK == FlagTypes /\ DataTypes /\ ControlTypes

\* Who may open or close the codec: the app task between taking the gate and
\* creating tx_task, tx_task until it gives the gate back, the chime with the gate.
AppOwns   == app \in {"openCodec", "openOpus", "launch"}
TxOwns    == tx # "none"
ChimeOwns == chimeHasGate

\* s_audio_resource_gate, taken by one task and given by another, protects the
\* I2S channel and the codec: it is available exactly when nobody owns them,
\* and never do two tasks own them.
GateExclusive ==
    /\ gate <=> ~AppOwns /\ ~TxOwns /\ ~ChimeOwns
    /\ ~(AppOwns /\ TxOwns) /\ ~(AppOwns /\ ChimeOwns) /\ ~(TxOwns /\ ChimeOwns)

\* While audio_task reads the codec and encodes, the codec is open for capture
\* and the encoder exists, unless a chime closed the codec without the gate;
\* while a chime plays, the codec is open for playback.
ResourcesHeld ==
    /\ audio = "read" => opus /\ (codec = "capture" \/ intruded)
    /\ chime = "play" => codec = "playback"

\* Whatever tx_task may still send belongs to the session s_session_id names:
\* packets of an earlier recording never leak into a later one.
OneSessionInFlight ==
    /\ \A i \in DOMAIN txQueue : txQueue[i].sid = sessionId
    /\ tx \in {"check", "send", "failed", "drainSend"} => txPkt.sid = sessionId
    /\ audio \in {"push", "discard", "pushAgain"} => audioPkt.sid = sessionId

\* A packet may follow another on the air: a later session, or a later frame of
\* the same one, or its END, and nothing of a session after its END.
MayFollow(p, q) ==
    \/ p.sid < q.sid
    \/ p.sid = q.sid /\ ~p.end /\ (p.seq < q.seq \/ (q.end /\ p.seq = q.seq))

\* The desktop receives the frames of one recording in order, then its END, then
\* those of the next, with overflow, retries, drain and cancel in between.
FramesInOrder == [][air' # air => MayFollow(air, air')]_air

\* A cancelled recording is never completed: no END marker is sent for it.
NoEndAfterCancel == air.end => air.sid \notin cancelled

\* A stopped or cancelled session ends: tx_task releases the gate.
SessionEnds == (tx # "none" /\ ~running) ~> (tx = "none" \/ sentinelLost)

=============================================================================
