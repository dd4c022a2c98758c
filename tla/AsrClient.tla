----------------------------- MODULE AsrClient -----------------------------
(***************************************************************************)
(* The ASR client of the Windows host                                      *)
(* (src/desktop/windows/src/asr_client_win.cc): one WebSocket, kept open   *)
(* for one recognition session after another.                              *)
(*                                                                         *)
(* Two threads share the members below.  The UI thread starts a session,   *)
(* gives it audio and cancels it; the worker opens the connection, handles *)
(* what the service sends, and sends the audio that was queued meanwhile.  *)
(* mutex_ is held for one step at a time and never across a send that      *)
(* follows another, nor across a callback: the steps between two locks are *)
(* the interleavings of this module.                                       *)
(*                                                                         *)
(* External: the service, and the coordinator (WinCoordinator.tla), which  *)
(* starts a session only when the last one was cancelled or came to an     *)
(* outcome.  Left out: the transcripts and segments; Start on the worker,  *)
(* which no caller does.                                                   *)
(***************************************************************************)
EXTENDS Naturals, Sequences, FiniteSets

CONSTANTS
    Chunks,    \* how many pieces of audio a session has, the last one marked
    MaxIds     \* bound on the session ids

ASSUME BoundsAssumption == Chunks \in Nat \ {0} /\ MaxIds \in Nat \ {0}

Ids == 1..MaxIds

VARIABLES
    c,         \* the members that mutex_ guards, and cancelled_
    ui,        \* where the UI thread is
    worker,    \* where the worker is
    service,   \* what the service knows of the connection and the sessions
    ids,       \* ids generated
    cur,       \* the session the coordinator waits for, or 0
    given,     \* how many pieces of audio it gave
    \* history
    heard,     \* the audio the service received for each session
    outcomes,  \* how often on_final or on_error was called for a session, up to 2
    crossed,   \* sessions the UI thread served while the worker flushed a queue
    dropped,   \* sessions the service ended on its own
    silenced   \* sessions whose failure each thread left to the other

history == <<heard, outcomes, crossed, dropped, silenced>>
vars == <<c, ui, worker, service, ids, cur, given, history>>

Chunk == [n : 0..Chunks, last : BOOLEAN]
Piece(n) == [n |-> n, last |-> n = Chunks]

At(place)            == [at |-> place, id |-> 0, chunk |-> Piece(0)]
WorkerAt(place)      == [at |-> place, id |-> 0, chunks |-> <<>>, tell |-> "nothing"]
Flushing(id, chunks) == [WorkerAt("flush") EXCEPT !.id = id, !.chunks = chunks]

Starts  == {"start", "shutdown", "join", "launch"}
Flushes == {"swap", "flush", "flushfinish", "flushend"}

\* The members, where each thread is, and what the service knows.
Members ==
    [connection : {"disconnected", "connecting", "ready"},
     session : {"idle", "starting", "streaming", "finishing"},
     id : Ids \cup {0}, queue : Seq(Chunk), websocket : BOOLEAN, cancelled : BOOLEAN]
UiState ==
    [at : Starts \cup {"idle", "send", "finish", "end"}, id : Ids \cup {0}, chunk : Chunk]
WorkerState ==
    [at : Flushes \cup {"none", "handshake", "open", "loop", "receive", "start", "callback",
                        "fail", "settle", "finished"},
     id : Ids \cup {0}, chunks : Seq(Chunk), tell : {"nothing", "partial", "final", "error"}]
ServiceState ==
    [connection : {"none", "asked", "ready"},
     session : [Ids -> {"none", "asked", "started", "partial", "ended", "over"}]]

\* The type of every variable.
TypeOK ==
    /\ c \in Members /\ ui \in UiState /\ worker \in WorkerState /\ service \in ServiceState
    /\ ids \in 0..MaxIds /\ cur \in Ids \cup {0} /\ given \in 0..Chunks
    /\ heard \in [Ids -> Seq(0..Chunks)]
    /\ outcomes \in [Ids -> 0..2]
    /\ crossed \subseteq Ids /\ dropped \subseteq Ids /\ silenced \subseteq Ids

NoSessions == [connection |-> "none", session |-> [id \in Ids |-> "none"]]

Init ==
    /\ c = [connection |-> "disconnected", session |-> "idle", id |-> 0, queue |-> <<>>,
            websocket |-> FALSE, cancelled |-> FALSE]
    /\ ui = At("idle") /\ worker = WorkerAt("none")
    /\ service = NoSessions
    /\ ids = 0 /\ cur = 0 /\ given = 0
    /\ heard = [id \in Ids |-> <<>>]
    /\ outcomes = [id \in Ids |-> 0]
    /\ crossed = {} /\ dropped = {} /\ silenced = {}

-----------------------------------------------------------------------------
(* The members. *)

\* Mutant: only the queue is cleared.
IdleQueue(k) == [k EXCEPT !.queue = <<>>]

\* The session is over.
Idle(k) == [k EXCEPT !.session = "idle", !.id = 0, !.queue = <<>>]

\* What FailReusableSession and a send that fails leave behind.
Failed(k) ==
    [Idle(k) EXCEPT !.connection = "disconnected", !.websocket = FALSE, !.cancelled = TRUE]

\* Whether a send that fails calls on_error.
Notifies(k) == ~k.cancelled /\ k.session # "idle"

\* Ids of the sessions that the service hears of by a frame.
Asks(id) == [service EXCEPT !.session[id] = IF @ = "none" THEN "asked" ELSE @]
Ends(id) == [service EXCEPT !.session[id] =
                IF @ \in {"started", "partial"} THEN "ended" ELSE @]

Told(id) == [outcomes EXCEPT ![id] = IF @ < 2 THEN @ + 1 ELSE @]

\* CancelReusableSession; the frame it sends may be lost.
CancelReusableSession(k) == Idle(k)

\* The service forgets a session that is cancelled.
Forgets(id) ==
    IF id = 0 THEN service ELSE [service EXCEPT !.session[id] =
        IF @ = "none" \/ ~c.websocket THEN @ ELSE "over"]

-----------------------------------------------------------------------------
(* The UI thread. *)

Resting == ui.at = "idle"

\* Start, up to its first unlock.  A connection that is being made starts the
\* session itself, if its worker was not joined.
StartReusableSession ==
    /\ Resting /\ cur = 0 /\ c.session = "idle"
    /\ ids + 2 <= MaxIds
    /\ ids' = ids + 1 /\ cur' = ids' /\ given' = 0
    /\ c' = [c EXCEPT !.id = ids', !.queue = <<>>, !.session = "starting"]
    /\ ui' = IF c.connection = "ready" /\ c.websocket THEN [At("start") EXCEPT !.id = ids']
             ELSE IF c.connection = "connecting" THEN At("idle")
             ELSE At("shutdown")
    /\ crossed' = IF worker.at \in Flushes THEN crossed \cup {ids'} ELSE crossed
    /\ UNCHANGED <<worker, service, heard, outcomes, dropped, silenced>>

\* A session that the coordinator does not know of is still active: the
\* coordinator shows the error and cancels it.
StartRefused ==
    /\ Resting /\ cur = 0 /\ c.session # "idle"
    /\ c' = CancelReusableSession(c) /\ service' = Forgets(c.id)
    /\ UNCHANGED <<ui, worker, ids, cur, given, history>>

\* The worker has set cancelled_ for its own failure, and has not come to the
\* members yet: a send that fails now calls no on_error, and leaves the worker no
\* session to call it for.
Silences == c.session # "idle" /\ worker.at = "settle" /\ worker.tell = "error"

\* SendReusableFrameOrFail on the UI thread, in one step under mutex_: on_error
\* ends the session for the coordinator, and so does a start that fails.
UiFails ==
    /\ c' = Failed(c)
    /\ ui' = At("idle")
    /\ cur' = IF Notifies(c) \/ ui.at = "start" THEN 0 ELSE cur
    /\ outcomes' = IF Notifies(c) THEN Told(c.id) ELSE outcomes
    /\ silenced' = IF Silences THEN silenced \cup {c.id} ELSE silenced
    /\ UNCHANGED <<service, heard>>

UiSends(next, known, listens) ==
    \/ /\ c.websocket
       /\ ui' = next /\ service' = known /\ heard' = listens
       /\ UNCHANGED <<c, cur, outcomes, silenced>>
    \/ UiFails

StartSends ==
    /\ ui.at = "start"
    /\ UiSends(At("idle"), Asks(ui.id), heard)
    /\ UNCHANGED <<worker, ids, given, crossed, dropped>>

\* ShutdownReusableConnection.
ShutdownReusableConnection ==
    /\ ui.at = "shutdown"
    /\ c' = [Idle(c) EXCEPT !.connection = "disconnected", !.cancelled = TRUE]
    /\ ui' = At("join")
    /\ UNCHANGED <<worker, service, ids, cur, given, history>>

Join ==
    /\ ui.at = "join" /\ worker.at = "none"
    /\ ui' = At("launch")
    /\ UNCHANGED <<c, worker, service, ids, cur, given, history>>

\* A new id, a new connection and a new worker.  A callback that came while the
\* worker was joined has ended the recording: nobody waits for the session.
Launch ==
    /\ ui.at = "launch"
    /\ ids' = ids + 1
    /\ cur' = IF cur = 0 THEN 0 ELSE ids'
    /\ c' = [c EXCEPT !.id = ids', !.session = "starting", !.connection = "connecting",
                      !.cancelled = FALSE]
    /\ worker' = WorkerAt("handshake")
    /\ service' = NoSessions
    /\ ui' = At("idle")
    /\ UNCHANGED <<given, history>>

\* SendReusableAudio.
SendReusableAudio ==
    /\ Resting /\ cur # 0 /\ given < Chunks
    /\ given' = given + 1
    /\ LET chunk == Piece(given') IN
       /\ c' = IF c.session \in {"starting", "idle"} THEN [c EXCEPT !.queue = Append(@, chunk)]
               ELSE c
       /\ ui' = IF c.session = "streaming"
                THEN [at |-> "send", id |-> c.id, chunk |-> chunk] ELSE ui
    /\ crossed' = IF c.session = "streaming" /\ worker.at \in Flushes
                  THEN crossed \cup {c.id} ELSE crossed
    /\ UNCHANGED <<worker, service, ids, cur, heard, outcomes, dropped, silenced>>

Hears(id, chunk) == [heard EXCEPT ![id] = Append(@, chunk.n)]

AudioSends ==
    /\ ui.at = "send"
    /\ UiSends(IF ui.chunk.last THEN At("finish") ELSE At("idle"), service,
               Hears(ui.id, ui.chunk))
    /\ UNCHANGED <<worker, ids, given, crossed, dropped>>

\* FinishReusableSessionIfNeeded up to its unlock.  It ends whatever session
\* there is: a session that starts gets a last piece of its own.
FinishesSession(k) ==
    IF k.session = "starting"
    THEN IF \E i \in DOMAIN k.queue : k.queue[i].last THEN k
         ELSE [k EXCEPT !.queue = Append(@, [n |-> 0, last |-> TRUE])]
    ELSE IF k.session = "streaming" THEN [k EXCEPT !.session = "finishing"]
    ELSE k

UiFinishes ==
    /\ ui.at = "finish"
    /\ c' = FinishesSession(c)
    /\ ui' = IF c.session = "streaming" THEN [At("end") EXCEPT !.id = c.id] ELSE At("idle")
    /\ UNCHANGED <<worker, service, ids, cur, given, history>>

UiEnds ==
    /\ ui.at = "end"
    /\ UiSends(At("idle"), Ends(ui.id), heard)
    /\ UNCHANGED <<worker, ids, given, crossed, dropped>>

Cancel ==
    /\ Resting /\ cur # 0
    /\ c' = CancelReusableSession(c)
    /\ service' = Forgets(c.id)
    /\ cur' = 0
    /\ UNCHANGED <<ui, worker, ids, given, history>>

-----------------------------------------------------------------------------
(* The worker. *)

\* The members fail and on_error is next, if anybody has to know.  The worker
\* then leaves its loop, wherever it was: cancelled_ is set.
Settles(notify) ==
    /\ c' = Failed(c)
    /\ worker' = IF notify /\ c.session # "idle"
                 THEN [WorkerAt("callback") EXCEPT !.id = c.id, !.tell = "error"]
                 ELSE WorkerAt("loop")
    /\ UNCHANGED <<service, heard>>

\* SendReusableFrameOrFail, in one step under mutex_.
WorkerFails == Settles(~c.cancelled)

WorkerSends(next, known, listens) ==
    \/ /\ c.websocket
       /\ worker' = next /\ service' = known /\ heard' = listens
       /\ UNCHANGED c
    \/ WorkerFails

local == <<ui, ids, cur, given, outcomes, crossed, dropped, silenced>>

\* FailReusableSession reads cancelled_, then sets it, and only then takes mutex_.
Fails ==
    /\ worker' = [WorkerAt("fail") EXCEPT !.tell = IF c.cancelled THEN "nothing" ELSE "error"]
    /\ UNCHANGED <<c, service, heard>>

FailureCancels ==
    /\ worker.at = "fail"
    /\ c' = [c EXCEPT !.cancelled = TRUE]
    /\ worker' = [worker EXCEPT !.at = "settle"]
    /\ UNCHANGED <<service, heard, local>>

FailureSettles ==
    /\ worker.at = "settle"
    /\ Settles(worker.tell = "error")
    /\ UNCHANGED local

\* RunReusableWebSocket up to the upgrade.
Handshake ==
    /\ worker.at = "handshake"
    /\ \/ /\ c' = [c EXCEPT !.websocket = TRUE, !.connection = "connecting"]
          /\ worker' = WorkerAt("open")
          /\ UNCHANGED <<service, heard>>
       \/ Fails
    /\ UNCHANGED local

StartConnection ==
    /\ worker.at = "open"
    /\ WorkerSends(WorkerAt("loop"), [service EXCEPT !.connection = "asked"], heard)
    /\ UNCHANGED local

\* The loop, and what follows it.
Loop ==
    /\ worker.at = "loop"
    /\ worker' = IF c.cancelled THEN WorkerAt("none") ELSE WorkerAt("receive")
    /\ c' = IF c.cancelled THEN [c EXCEPT !.websocket = FALSE, !.connection = "disconnected"] ELSE c
    /\ UNCHANGED <<service, heard, local>>

\* The receive times out, or fails after the connection was given up.
ReceivesNothing ==
    /\ worker.at = "receive" /\ c.cancelled
    /\ worker' = WorkerAt("loop")
    /\ UNCHANGED <<c, service, heard, local>>

\* An error of the service, a failed or closed connection.
ReceivesError ==
    /\ worker.at = "receive"
    /\ Fails
    /\ UNCHANGED local

\* Mutant: a session that waits for the connection is not started.
ConnectionStartedOnly ==
    /\ worker.at = "receive" /\ service.connection = "asked"
    /\ service' = [service EXCEPT !.connection = "ready"]
    /\ c' = [c EXCEPT !.connection = "ready"]
    /\ worker' = WorkerAt("loop")
    /\ UNCHANGED <<heard, local>>

ConnectionStarted ==
    /\ worker.at = "receive" /\ service.connection = "asked"
    /\ service' = [service EXCEPT !.connection = "ready"]
    /\ c' = [c EXCEPT !.connection = "ready"]
    /\ worker' = IF c.session = "starting" THEN [WorkerAt("start") EXCEPT !.id = c.id]
                 ELSE WorkerAt("loop")
    /\ UNCHANGED <<heard, local>>

WorkerStarts ==
    /\ worker.at = "start"
    /\ WorkerSends(WorkerAt("loop"), Asks(worker.id), heard)
    /\ UNCHANGED local

\* The service ends the connection in good order; a session that is under way is
\* left as it is.
ConnectionFinished ==
    /\ worker.at = "receive" /\ service.connection = "ready"
    /\ service' = NoSessions
    /\ c' = [c EXCEPT !.connection = "disconnected", !.websocket = FALSE]
    /\ worker' = WorkerAt("finished")
    /\ dropped' = IF c.id = 0 THEN dropped ELSE dropped \cup {c.id}
    /\ UNCHANGED <<heard, ui, ids, cur, given, outcomes, crossed, silenced>>

FinishCancels ==
    /\ worker.at = "finished"
    /\ c' = [c EXCEPT !.cancelled = TRUE]
    /\ worker' = WorkerAt("loop")
    /\ UNCHANGED <<service, heard, local>>

SessionStarted(id) ==
    /\ worker.at = "receive" /\ service.session[id] = "asked"
    /\ service' = [service EXCEPT !.session[id] = "started"]
    /\ c' = IF id = c.id THEN [c EXCEPT !.session = "streaming"] ELSE c
    /\ worker' = IF id = c.id THEN WorkerAt("swap") ELSE WorkerAt("loop")
    /\ UNCHANGED <<heard, local>>

\* FlushQueuedAudioChunks: the queue is taken, then sent piece by piece.
FlushQueuedAudioChunks ==
    /\ worker.at = "swap"
    /\ worker' = Flushing(c.id, c.queue)
    /\ c' = [c EXCEPT !.queue = <<>>]
    /\ UNCHANGED <<service, heard, local>>

\* Mutant: the session ends with the first piece.
FlushSendsFirst ==
    /\ worker.at = "flush" /\ worker.chunks # <<>>
    /\ WorkerSends([worker EXCEPT !.chunks = Tail(@), !.at = "flushfinish"], service,
                   IF worker.id = 0 THEN heard ELSE Hears(worker.id, Head(worker.chunks)))
    /\ UNCHANGED local

\* An id that was cancelled meanwhile is empty, and nobody hears its audio.
FlushSends ==
    /\ worker.at = "flush" /\ worker.chunks # <<>>
    /\ LET chunk == Head(worker.chunks)
           rest  == [worker EXCEPT !.chunks = Tail(@)]
       IN  WorkerSends(IF chunk.last THEN [rest EXCEPT !.at = "flushfinish"] ELSE rest,
                       service,
                       IF worker.id = 0 THEN heard ELSE Hears(worker.id, chunk))
    /\ UNCHANGED local

WorkerFinishes ==
    /\ worker.at = "flushfinish"
    /\ c' = FinishesSession(c)
    /\ worker' = IF c.session = "streaming" THEN [worker EXCEPT !.at = "flushend", !.id = c.id]
                 ELSE [worker EXCEPT !.at = "flush"]
    /\ UNCHANGED <<service, heard, local>>

WorkerEnds ==
    /\ worker.at = "flushend"
    /\ WorkerSends([worker EXCEPT !.at = "flush"], Ends(worker.id), heard)
    /\ UNCHANGED local

Flushed ==
    /\ worker.at = "flush" /\ worker.chunks = <<>>
    /\ worker' = WorkerAt("loop")
    /\ UNCHANGED <<c, service, heard, local>>

\* kAsrResponse, once in a session.
AsrResponse(id) ==
    /\ worker.at = "receive" /\ service.session[id] = "started"
    /\ service' = [service EXCEPT !.session[id] = "partial"]
    /\ worker' = IF id = c.id THEN [WorkerAt("callback") EXCEPT !.id = id, !.tell = "partial"]
                 ELSE WorkerAt("loop")
    /\ UNCHANGED <<c, heard, local>>

SessionFinished(id) ==
    /\ worker.at = "receive" /\ service.session[id] = "ended"
    /\ service' = [service EXCEPT !.session[id] = "over"]
    /\ c' = IF id = c.id THEN Idle(c) ELSE c
    /\ worker' = IF id = c.id THEN [WorkerAt("callback") EXCEPT !.id = id, !.tell = "final"]
                 ELSE WorkerAt("loop")
    /\ UNCHANGED <<heard, local>>

\* The service cancels a session, asked or not.
SessionCanceled(id) ==
    /\ worker.at = "receive" /\ service.session[id] \in {"started", "partial"}
    /\ service' = [service EXCEPT !.session[id] = "over"]
    /\ c' = IF id = c.id THEN Idle(c) ELSE c
    /\ worker' = WorkerAt("loop")
    /\ dropped' = dropped \cup {id}
    /\ UNCHANGED <<heard, ui, ids, cur, given, outcomes, crossed, silenced>>

\* A callback, which carries no id.  on_error makes the coordinator cancel
\* whatever session there is.
Callback ==
    /\ worker.at = "callback"
    /\ worker' = WorkerAt("loop")
    /\ outcomes' = IF worker.tell = "partial" THEN outcomes ELSE Told(worker.id)
    /\ IF worker.tell = "error"
       THEN c' = CancelReusableSession(c) /\ service' = Forgets(c.id) /\ cur' = 0
       ELSE /\ cur' = IF worker.tell = "final" /\ worker.id = cur THEN 0 ELSE cur
            /\ UNCHANGED <<c, service>>
    /\ UNCHANGED <<heard, ui, ids, given, crossed, dropped, silenced>>

-----------------------------------------------------------------------------

UiSteps ==
    \/ StartSends \/ ShutdownReusableConnection \/ Join \/ Launch
    \/ AudioSends \/ UiFinishes \/ UiEnds

WorkerSteps ==
    \/ Handshake \/ StartConnection \/ Loop \/ ReceivesNothing \/ WorkerStarts
    \/ FailureCancels \/ FailureSettles \/ FinishCancels
    \/ FlushQueuedAudioChunks \/ FlushSends \/ WorkerFinishes \/ WorkerEnds \/ Flushed
    \/ Callback

ServiceAnswers ==
    \/ ConnectionStarted
    \/ \E id \in Ids : SessionStarted(id) \/ AsrResponse(id) \/ SessionFinished(id)

Next ==
    \/ StartReusableSession \/ StartRefused \/ SendReusableAudio \/ Cancel
    \/ UiSteps \/ WorkerSteps \/ ServiceAnswers
    \/ ReceivesError \/ ConnectionFinished
    \/ \E id \in Ids : SessionCanceled(id)

\* Both threads run, and the service answers what it was asked; it need not
\* fail, and the user need not cancel.
Spec ==
    /\ Init /\ [][Next]_vars
    /\ WF_vars(UiSteps) /\ WF_vars(WorkerSteps) /\ WF_vars(ServiceAnswers)

-----------------------------------------------------------------------------
(* Properties. *)

\* A session that was not cancelled comes to one outcome, though both threads
\* may find the connection broken, and a result may come meanwhile
\* (session_state_ and cancelled_ decide who calls on_error).
OutcomeOnce == \A id \in Ids : outcomes[id] <= 1

\* The service hears the audio of a session in order and, before it is told
\* that the session ends, all of it, whichever thread sends a piece; unless the
\* UI thread served the session while the worker flushed a queue.
InOrder(id) == \A i \in DOMAIN heard[id] : heard[id][i] = i
AudioInOrder ==
    \A id \in Ids \ crossed :
        /\ InOrder(id)
        /\ service.session[id] = "ended" => Len(heard[id]) = Chunks

\* Once the coordinator has given all the audio of a session, the session comes
\* to an outcome or is cancelled; unless the service ended it on its own, or a
\* send of the UI thread failed just while the worker gave the connection up.
SessionAnswered ==
    \A id \in Ids :
        (cur = id /\ given = Chunks) ~> (cur # id \/ id \in dropped \cup silenced)
=============================================================================
