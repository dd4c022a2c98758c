-------------------------- MODULE AsrClientProofs --------------------------
(***************************************************************************)
(* Theorems about AsrClient, for any number of pieces of audio and of      *)
(* session ids.                                                            *)
(***************************************************************************)
EXTENDS AsrClient, TLAPS

-----------------------------------------------------------------------------
(* The inductive invariant *)

\* Nothing is known of an id that was not generated yet.
IdsGrow ==
    /\ c.id <= ids /\ ui.id <= ids /\ worker.id <= ids
    /\ \A id \in Ids : id > ids => heard[id] = <<>> /\ outcomes[id] = 0

\* The worker is about to call on_final or on_error.
TellsOutcome == worker.at = "callback" /\ worker.tell # "partial"

\* Who may still tell an outcome: the members for their session, and the worker
\* for the one it took out of them.
OutcomesLeft ==
    /\ c.session = "idle" <=> c.id = 0
    /\ TellsOutcome => worker.id \in Ids /\ worker.id # c.id /\ outcomes[worker.id] = 0
    /\ \A id \in Ids : outcomes[id] <= 1 /\ (c.id = id => outcomes[id] = 0)

\* A session begins with nothing queued, and a worker with no connection.
Starting ==
    /\ ui.at \in {"shutdown", "join", "launch"} => ids < MaxIds
    /\ ui.at \in Starts => given = 0
    /\ ui.at \in {"join", "launch"} => c.session = "idle" /\ c.queue = <<>>
    /\ ui.at = "launch" => worker.at = "none"
    /\ worker.at \in {"none", "handshake"} => ~c.websocket
    /\ worker.at = "handshake" => c.session \in {"idle", "starting"}

\* The service starts a session once.
StartedOnce ==
    c.session \in {"streaming", "finishing"} =>
        /\ service.session[c.id] # "asked"
        /\ service.session[c.id] = "none" => ~c.websocket

\* A session that only one thread at a time has sent audio of.
Plain(id) == id \in Ids /\ id \notin crossed

\* The pieces that follow the first k.
Numbered(q, k) == \A i \in 1..Len(q) : q[i] = Piece(k + i)

\* What the worker flushes follows what was heard, and only after all of it does
\* the worker end the session.
FlushFollows ==
    worker.at \in Flushes \ {"swap"} /\ Plain(worker.id) =>
        /\ Numbered(worker.chunks, Len(heard[worker.id]))
        /\ Len(heard[worker.id]) + Len(worker.chunks) <= Chunks
        /\ worker.at # "flush" => Len(heard[worker.id]) = Chunks

\* The same of the UI thread, which sends no piece of a session that the worker
\* flushes.
UiFollows ==
    /\ ui.at = "send" => /\ ui.chunk = Piece(given) /\ c.id \in {0, ui.id}
                         /\ given > 0
                         /\ Plain(ui.id) => /\ Len(heard[ui.id]) + 1 = given
                                            /\ worker.at \notin Flushes
    /\ ui.at = "finish" => given = Chunks
    /\ ui.at = "end" /\ Plain(ui.id) => Len(heard[ui.id]) = Chunks
    /\ ui.at \in {"send", "finish", "end"} =>
          c.session # "starting" /\ (Plain(c.id) => worker.at \notin Flushes)

\* Where the pieces given to the session of the members are.
SessionFollows ==
    Plain(c.id) =>
        /\ c.session = "starting" \/ worker.at = "swap" =>
              heard[c.id] = <<>> /\ Numbered(c.queue, 0) /\ Len(c.queue) = given
        /\ c.session = "starting" => worker.at \notin Flushes
        /\ worker.at = "swap" => c.session = "streaming"
        /\ worker.at \in Flushes \ {"swap"} => worker.id = c.id
        /\ c.session = "streaming" =>
              /\ worker.at \in Flushes \ {"swap"} =>
                    Len(heard[c.id]) + Len(worker.chunks) = given
              /\ worker.at \notin Flushes =>
                    Len(heard[c.id]) + (IF ui.at = "send" THEN 1 ELSE 0) = given
        /\ c.session = "finishing" => Len(heard[c.id]) = Chunks /\ given = Chunks

IInv ==
    /\ TypeOK /\ IdsGrow /\ OutcomesLeft /\ Starting /\ StartedOnce
    /\ FlushFollows /\ UiFollows /\ SessionFollows /\ AudioInOrder

-----------------------------------------------------------------------------
(* The values the variables take *)

\* What the assumptions on the constants give.
LEMMA Bounds ==
    /\ Chunks \in Nat /\ Chunks > 0 /\ MaxIds \in Nat
    /\ Ids \subseteq Nat /\ 0 \notin Ids
    /\ \A n \in Nat : n \in Ids <=> n > 0 /\ n <= MaxIds
  BY BoundsAssumption DEF Ids

\* A piece of audio.
LEMMA PieceIs ==
    ASSUME NEW n \in 0..Chunks
    PROVE  Piece(n) \in Chunk /\ Piece(n).n = n /\ (Piece(n).last <=> n = Chunks)
  <1>1. (n = Chunks) \in BOOLEAN
    OBVIOUS
  <1> QED
    BY <1>1, Bounds DEF Piece, Chunk

\* A session that ends leaves nothing behind but its connection.
LEMMA IdleIs ==
    ASSUME NEW k \in Members
    PROVE  /\ Idle(k) \in Members
           /\ Idle(k).session = "idle" /\ Idle(k).id = 0 /\ Idle(k).queue = <<>>
           /\ Idle(k).websocket = k.websocket
  <1>1. <<>> \in Seq(Chunk)
    OBVIOUS
  <1>2. Idle(k) \in Members
    BY <1>1 DEF Idle, Members
  <1> QED
    BY <1>2 DEF Idle, Members

\* A connection that fails takes its session along.
LEMMA FailedIs ==
    ASSUME NEW k \in Members
    PROVE  /\ Failed(k) \in Members
           /\ Failed(k).session = "idle" /\ Failed(k).id = 0 /\ Failed(k).queue = <<>>
           /\ ~Failed(k).websocket
  <1>1. FALSE \in BOOLEAN /\ TRUE \in BOOLEAN
    OBVIOUS
  <1>2. Idle(k) \in Members
    BY IdleIs
  <1> QED
    BY <1>1, <1>2, IdleIs DEF Failed, Members

\* Only a session that streams is finished, and only one that starts gets a piece.
LEMMA FinishedIs ==
    ASSUME NEW k \in Members
    PROVE  LET f == FinishesSession(k) IN
           /\ f \in Members /\ f.id = k.id /\ f.websocket = k.websocket
           /\ k.session = "streaming" => f.session = "finishing"
           /\ k.session # "streaming" => f.session = k.session
           /\ k.session # "starting" => f.queue = k.queue
  <1> DEFINE e == [n |-> 0, last |-> TRUE]
             q == Append(k.queue, e)
  <1>1. e \in Chunk
    BY Bounds DEF Chunk
  <1>2. q \in Seq(Chunk)
    BY <1>1 DEF Members
  <1> HIDE DEF q
  <1>3. [k EXCEPT !.queue = q] \in Members /\ [k EXCEPT !.queue = q].id = k.id
        /\ [k EXCEPT !.queue = q].websocket = k.websocket
        /\ [k EXCEPT !.queue = q].session = k.session
    BY <1>2 DEF Members
  <1>4. FinishesSession(k) \in {k, [k EXCEPT !.queue = q], [k EXCEPT !.session = "finishing"]}
    BY DEF FinishesSession, q
  <1>5. [k EXCEPT !.session = "finishing"] \in Members
    BY DEF Members
  <1>6. CASE k.session = "starting"
    <2>1. FinishesSession(k) \in {k, [k EXCEPT !.queue = q]}
      BY <1>6 DEF FinishesSession, q
    <2> QED
      BY <1>3, <1>6, <2>1
  <1>7. CASE k.session = "streaming"
    <2>1. FinishesSession(k) = [k EXCEPT !.session = "finishing"]
      BY <1>7 DEF FinishesSession
    <2> QED
      BY <1>5, <1>7, <2>1 DEF Members
  <1>8. CASE k.session \notin {"starting", "streaming"}
    BY <1>8 DEF FinishesSession
  <1> QED
    BY <1>6, <1>7, <1>8

\* Where a thread may be.
LEMMA PlaceIs ==
    /\ \A p \in Starts \cup {"idle", "send", "finish", "end"} :
          At(p) \in UiState /\ At(p).at = p /\ At(p).id = 0
    /\ \A p \in Flushes \cup {"none", "handshake", "open", "loop", "receive", "start", "callback",
                       "fail", "settle", "finished"} :
          WorkerAt(p) \in WorkerState /\ WorkerAt(p).at = p /\ WorkerAt(p).id = 0
          /\ WorkerAt(p).tell = "nothing"
  <1>1. Piece(0) \in Chunk
    BY PieceIs, Bounds
  <1>2. <<>> \in Seq(Chunk)
    OBVIOUS
  <1> QED
    BY <1>1, <1>2 DEF At, WorkerAt, UiState, WorkerState

\* A thread that deals with a session.
LEMMA PlaceOfId ==
    ASSUME NEW id \in Ids \cup {0}
    PROVE  /\ \A p \in {"start", "end"} :
                 LET u == [At(p) EXCEPT !.id = id] IN u \in UiState /\ u.at = p /\ u.id = id
           /\ LET w == [WorkerAt("start") EXCEPT !.id = id] IN
              w \in WorkerState /\ w.at = "start" /\ w.id = id
  <1>1. ASSUME NEW p \in {"start", "end"}
        PROVE  LET u == [At(p) EXCEPT !.id = id] IN u \in UiState /\ u.at = p /\ u.id = id
    <2>1. p \in Starts \cup {"idle", "send", "finish", "end"}
      BY DEF Starts
    <2>2. At(p) \in UiState /\ At(p).at = p
      BY <2>1, PlaceIs
    <2> QED
      BY <2>2 DEF UiState
  <1>2. WorkerAt("start") \in WorkerState /\ WorkerAt("start").at = "start"
    BY PlaceIs
  <1>3. LET w == [WorkerAt("start") EXCEPT !.id = id] IN
        w \in WorkerState /\ w.at = "start" /\ w.id = id
    BY <1>2 DEF WorkerState
  <1> QED
    BY <1>1, <1>3

\* The worker about to call the coordinator.
LEMMA CallbackIs ==
    ASSUME NEW id \in Ids \cup {0}, NEW t \in {"partial", "final", "error"}
    PROVE  LET w == [WorkerAt("callback") EXCEPT !.id = id, !.tell = t] IN
           w \in WorkerState /\ w.at = "callback" /\ w.id = id /\ w.tell = t
  <1>1. WorkerAt("callback") \in WorkerState /\ WorkerAt("callback").at = "callback"
    BY PlaceIs
  <1> QED
    BY <1>1 DEF WorkerState

-----------------------------------------------------------------------------
(* What keeps each part *)

\* Threads take over ids, and new ones are not generated.
LEMMA IdsGrowKept ==
    ASSUME TypeOK, IdsGrow, UNCHANGED <<ids, heard, outcomes>>,
           c'.id \in {0, c.id}, ui'.id \in {0, c.id, ui.id}, worker'.id \in {0, c.id, worker.id}
    PROVE  IdsGrow'
  <1>1. ids \in Nat
    BY Bounds DEF TypeOK
  <1> QED
    BY <1>1 DEF IdsGrow

\* Nobody begins a session, and an outcome the worker is to tell was taken out of
\* the members.
LEMMA OutcomesKept ==
    ASSUME TypeOK, OutcomesLeft, outcomes' = outcomes,
           \/ c'.id = c.id /\ (c'.session = "idle" <=> c.session = "idle")
           \/ c'.id = 0 /\ c'.session = "idle",
           \/ worker' = worker
           \/ ~TellsOutcome'
           \/ worker'.id = c.id /\ c.session # "idle" /\ c'.id = 0
    PROVE  OutcomesLeft'
  <1>1. c.id \in Ids \cup {0} /\ 0 \notin Ids
    BY Bounds DEF TypeOK, Members
  <1>2. (c'.session = "idle") <=> c'.id = 0
    BY DEF OutcomesLeft
  <1>3. \A id \in Ids : outcomes'[id] <= 1 /\ (c'.id = id => outcomes'[id] = 0)
    BY <1>1 DEF OutcomesLeft
  <1>4. ASSUME TellsOutcome'
        PROVE  worker'.id \in Ids /\ worker'.id # c'.id /\ outcomes'[worker'.id] = 0
    <2>1. CASE worker' = worker
      BY <1>1, <1>4, <2>1 DEF OutcomesLeft, TellsOutcome
    <2>2. CASE worker'.id = c.id /\ c.session # "idle" /\ c'.id = 0
      BY <1>1, <2>2 DEF OutcomesLeft
    <2> QED
      BY <1>4, <2>1, <2>2
  <1> QED
    BY <1>2, <1>3, <1>4 DEF OutcomesLeft

\* No thread goes on with the start of a session or a connection.
LEMMA StartingKept ==
    ASSUME Starting, UNCHANGED <<ids, given>>,
           ui' = ui \/ ui'.at \notin Starts,
           worker' = worker \/ (worker.at # "none" /\ worker'.at \notin {"none", "handshake"}),
           \/ c'.session = "idle" /\ c'.queue = <<>>
           \/ c'.session = c.session /\ c'.queue = c.queue
           \/ worker.at # "handshake" /\ c.session # "idle"
           \/ ui.at \notin {"join", "launch"} /\ c'.session = c.session,
           c'.websocket => c.websocket \/ worker'.at \notin {"none", "handshake"}
    PROVE  Starting'
  BY DEF Starting, Starts

\* No session is started, and the service forgets one with the connection.
LEMMA StartedOnceKept ==
    ASSUME TypeOK, OutcomesLeft, StartedOnce,
           \/ c'.session \in {"idle", "starting"}
           \/ /\ c'.id = c.id /\ c.session \in {"streaming", "finishing"}
              /\ c'.websocket => c.websocket
              /\ c.id \in Ids => \/ service'.session[c.id] = service.session[c.id]
                                 \/ service'.session[c.id] \in {"started", "partial", "ended", "over"}
                                 \/ service'.session[c.id] = "none" /\ ~c'.websocket
    PROVE  StartedOnce'
  <1>1. c.session \in {"streaming", "finishing"} => c.id \in Ids
    BY Bounds DEF OutcomesLeft, TypeOK, Members
  <1> QED
    BY <1>1 DEF StartedOnce

\* Nobody hears more.
LEMMA HeardKept ==
    ASSUME AudioInOrder, heard' = heard, crossed \subseteq crossed',
           \A id \in Ids : service'.session[id] = "ended" => service.session[id] = "ended"
    PROVE  AudioInOrder'
  BY DEF AudioInOrder, InOrder

\* The session of the members is given up.
LEMMA AudioDropped ==
    ASSUME FlushFollows, UiFollows, UNCHANGED <<heard, given, crossed>>,
           c'.id = 0, c'.session = "idle",
           worker' = worker \/ worker'.at \notin Flushes,
           ui' = ui \/ ui'.at \notin {"send", "finish", "end"}
    PROVE  FlushFollows' /\ UiFollows' /\ SessionFollows'
  <1>1. 0 \notin Ids
    BY Bounds
  <1>2. FlushFollows'
    BY DEF FlushFollows, Plain, Numbered
  <1>3. SessionFollows'
    BY <1>1 DEF SessionFollows, Plain
  <1>4. UiFollows'
    BY <1>1 DEF UiFollows, Plain
  <1> QED
    BY <1>2, <1>3, <1>4

\* The session of the members stays, and no thread moves that has audio of it.
LEMMA AudioKept ==
    ASSUME FlushFollows, UiFollows, SessionFollows, UNCHANGED <<heard, given, crossed>>,
           c'.id = c.id, c'.session = c.session, c'.queue = c.queue,
           worker' = worker \/ (worker.at \notin Flushes /\ worker'.at \notin Flushes),
           ui' = ui \/ (ui.at # "send" /\ ui'.at \notin {"send", "finish", "end"})
    PROVE  FlushFollows' /\ UiFollows' /\ SessionFollows'
  <1>1. FlushFollows'
    BY DEF FlushFollows, Plain, Numbered
  <1>2. UiFollows'
    BY DEF UiFollows, Plain
  <1>3. SessionFollows'
    <2>1. "swap" \in Flushes
      BY DEF Flushes
    <2> QED
      BY <2>1 DEF SessionFollows, Plain, Numbered
  <1> QED
    BY <1>1, <1>2, <1>3

-----------------------------------------------------------------------------
(* A send that fails *)

\* The connection fails under the worker, which is left to tell the outcome.
LEMMA SettlesInv ==
    ASSUME IInv, worker.at # "none", NEW notify \in BOOLEAN, Settles(notify), UNCHANGED local
    PROVE  IInv'
  <1>1. TypeOK /\ c \in Members /\ c.id \in Ids \cup {0}
    BY DEF IInv, TypeOK, Members
  <1>2. /\ c' \in Members /\ c'.session = "idle" /\ c'.id = 0 /\ c'.queue = <<>>
        /\ ~c'.websocket
    BY <1>1, FailedIs DEF Settles
  <1>3. UNCHANGED <<service, heard, ui, ids, cur, given, outcomes, crossed, dropped, silenced>>
    BY DEF Settles, local
  <1>4. /\ worker' \in WorkerState /\ worker'.at \in {"callback", "loop"}
        /\ worker'.id \in {0, c.id}
        /\ \/ ~TellsOutcome'
           \/ worker'.id = c.id /\ c.session # "idle"
    <2>1. CASE notify /\ c.session # "idle"
      BY <1>1, <2>1, CallbackIs DEF Settles
    <2>2. CASE ~(notify /\ c.session # "idle")
      <3>1. worker' = WorkerAt("loop")
        BY <2>2 DEF Settles
      <3>2. worker' \in WorkerState /\ worker'.at = "loop" /\ worker'.id = 0
        BY <3>1, PlaceIs
      <3> QED
        BY <3>2 DEF TellsOutcome
    <2> QED
      BY <2>1, <2>2
  <1>5. worker'.at \notin Flushes \cup {"none", "handshake"}
    BY <1>4 DEF Flushes
  <1>6. TypeOK'
    BY <1>1, <1>2, <1>3, <1>4 DEF TypeOK
  <1>7. IdsGrow'
    BY <1>2, <1>3, <1>4, IdsGrowKept DEF IInv
  <1>8. OutcomesLeft'
    BY <1>2, <1>3, <1>4, OutcomesKept DEF IInv
  <1>9. Starting'
    BY <1>2, <1>3, <1>5, StartingKept DEF IInv
  <1>10. StartedOnce'
    BY <1>2, StartedOnceKept DEF IInv
  <1>11. AudioInOrder'
    BY <1>3, HeardKept DEF IInv
  <1>12. FlushFollows' /\ UiFollows' /\ SessionFollows'
    BY <1>2, <1>3, <1>5, AudioDropped DEF IInv
  <1> QED
    BY <1>6, <1>7, <1>8, <1>9, <1>10, <1>11, <1>12 DEF IInv

\* A send of the worker fails: cancelled_ and the members in one step.
LEMMA WorkerFailsInv ==
    ASSUME IInv, worker.at # "none", WorkerFails, UNCHANGED local
    PROVE  IInv'
  <1>1. (~c.cancelled) \in BOOLEAN
    OBVIOUS
  <1> QED
    BY <1>1, SettlesInv DEF WorkerFails

\* The connection fails under the UI thread, which tells the outcome itself.
LEMMA UiFailsInv ==
    ASSUME IInv, UiFails, UNCHANGED <<worker, ids, given, crossed, dropped>>
    PROVE  IInv'
  <1>1. TypeOK /\ c \in Members /\ OutcomesLeft /\ IdsGrow
    BY DEF IInv, TypeOK
  <1>2. /\ c' \in Members /\ c'.session = "idle" /\ c'.id = 0 /\ c'.queue = <<>>
        /\ ~c'.websocket
    BY <1>1, FailedIs DEF UiFails
  <1>3. /\ ui' \in UiState /\ ui'.at = "idle" /\ ui'.id = 0
        /\ UNCHANGED <<service, heard>>
    BY PlaceIs DEF UiFails
  <1>4. \/ outcomes' = outcomes
        \/ c.id \in Ids /\ outcomes[c.id] = 0 /\ outcomes' = [outcomes EXCEPT ![c.id] = 1]
    <2>1. CASE Notifies(c)
      <3>1. c.id \in Ids /\ outcomes[c.id] = 0
        BY <1>1, <2>1 DEF Notifies, OutcomesLeft, Members
      <3>2. outcomes' = Told(c.id)
        BY <2>1 DEF UiFails
      <3> QED
        BY <1>1, <3>1, <3>2 DEF Told, TypeOK
    <2> QED
      BY <2>1 DEF UiFails
  <1>5. /\ outcomes' \in [Ids -> 0..2]
        /\ \A id \in Ids : outcomes'[id] <= 1
        /\ \A id \in Ids : outcomes'[id] = outcomes[id] \/ id = c.id
    <2>1. outcomes \in [Ids -> 0..2] /\ \A id \in Ids : outcomes[id] <= 1
      BY <1>1 DEF TypeOK, OutcomesLeft
    <2>2. CASE outcomes' = outcomes
      BY <2>1, <2>2
    <2>3. CASE c.id \in Ids /\ outcomes' = [outcomes EXCEPT ![c.id] = 1]
      <3> DEFINE i == c.id
      <3>1. i \in Ids /\ outcomes' = [outcomes EXCEPT ![i] = 1]
        BY <2>3
      <3> HIDE DEF i
      <3>2. /\ outcomes' \in [Ids -> 0..2] /\ \A id \in Ids : outcomes'[id] <= 1
            /\ \A id \in Ids : outcomes'[id] = outcomes[id] \/ id = i
        BY <2>1, <3>1
      <3> QED
        BY <3>2 DEF i
    <2> QED
      BY <1>4, <2>2, <2>3
  <1>6. TypeOK'
    <2>1. cur' \in Ids \cup {0}
      BY <1>1 DEF UiFails, TypeOK
    <2>2. silenced' \subseteq Ids
      BY <1>1, Bounds DEF UiFails, Silences, OutcomesLeft, TypeOK, Members
    <2> QED
      BY <1>1, <1>2, <1>3, <1>5, <2>1, <2>2 DEF TypeOK
  <1>7. IdsGrow'
    <2>1. ids \in Nat /\ Ids \subseteq Nat
      BY <1>1, Bounds DEF TypeOK
    <2> QED
      BY <1>1, <1>2, <1>3, <1>5, <2>1 DEF IdsGrow
  <1>8. OutcomesLeft'
    BY <1>1, <1>2, <1>5, Bounds DEF OutcomesLeft, TellsOutcome
  <1>9. Starting'
    BY <1>2, <1>3, StartingKept DEF IInv, Starts
  <1>10. StartedOnce'
    BY <1>2, StartedOnceKept DEF IInv
  <1>11. AudioInOrder'
    BY <1>3, HeardKept DEF IInv
  <1>12. FlushFollows' /\ UiFollows' /\ SessionFollows'
    BY <1>2, <1>3, AudioDropped DEF IInv
  <1> QED
    BY <1>6, <1>7, <1>8, <1>9, <1>10, <1>11, <1>12 DEF IInv

-----------------------------------------------------------------------------
(* The worker between two flushes *)

\* What the service may come to know in a step of the worker that hears no audio.
ServiceMoves ==
    /\ service' \in ServiceState
    /\ \A id \in Ids :
          \/ service'.session[id] = service.session[id]
          \/ service.session[id] = "none" /\ service'.session[id] = "asked" /\ c.websocket
          \/ service'.session[id] \in {"started", "partial", "over"}
          \/ service'.session[id] = "none" /\ ~c'.websocket

\* The session of the members stays.
LEMMA WorkerMoves ==
    ASSUME IInv, worker.at \notin Flushes \cup {"none"},
           worker' \in WorkerState, worker'.at \notin Flushes \cup {"none", "handshake"},
           worker'.id \in {0, c.id, worker.id}, ~TellsOutcome',
           c' \in Members, c'.id = c.id, c'.session = c.session, c'.queue = c.queue,
           c'.websocket => c.websocket \/ worker.at = "handshake",
           ServiceMoves, dropped' \subseteq Ids,
           UNCHANGED <<heard, ui, ids, cur, given, outcomes, crossed, silenced>>
    PROVE  IInv'
  <1>1. TypeOK'
    BY DEF IInv, TypeOK, ServiceMoves
  <1>2. IdsGrow'
    BY IdsGrowKept DEF IInv
  <1>3. OutcomesLeft'
    BY OutcomesKept DEF IInv
  <1>4. Starting'
    BY StartingKept DEF IInv
  <1>5. StartedOnce'
    <2>1. CASE c.session \in {"idle", "starting"}
      BY <2>1 DEF StartedOnce
    <2>2. CASE c.session \in {"streaming", "finishing"}
      <3>1. c'.websocket => c.websocket
        BY <2>2 DEF IInv, Starting
      <3>2. c.id \in Ids => ~(service.session[c.id] = "none" /\ c.websocket)
        BY <2>2 DEF IInv, StartedOnce
      <3> QED
        BY <2>2, <3>1, <3>2, StartedOnceKept DEF IInv, ServiceMoves
    <2> QED
      BY <2>1, <2>2 DEF IInv, TypeOK, Members
  <1>6. AudioInOrder'
    BY HeardKept DEF IInv, ServiceMoves
  <1>7. FlushFollows' /\ UiFollows' /\ SessionFollows'
    BY AudioKept DEF IInv
  <1> QED
    BY <1>1, <1>2, <1>3, <1>4, <1>5, <1>6, <1>7 DEF IInv

\* The service has settled the session of the members.
LEMMA WorkerSettles ==
    ASSUME IInv, worker.at = "receive", c.id \in Ids,
           worker' \in WorkerState, worker'.at \in {"loop", "callback"},
           worker'.id \in {0, c.id}, TellsOutcome' => worker'.id = c.id,
           c' = Idle(c), ServiceMoves, dropped' \subseteq Ids,
           UNCHANGED <<heard, ui, ids, cur, given, outcomes, crossed, silenced>>
    PROVE  IInv'
  <1>1. c \in Members /\ c.session # "idle"
    BY Bounds DEF IInv, TypeOK, OutcomesLeft
  <1>2. /\ c' \in Members /\ c'.session = "idle" /\ c'.id = 0 /\ c'.queue = <<>>
        /\ c'.websocket = c.websocket
    BY <1>1, IdleIs
  <1>3. worker'.at \notin Flushes \cup {"none", "handshake"}
    BY DEF Flushes
  <1>4. TypeOK'
    BY <1>2 DEF IInv, TypeOK, ServiceMoves
  <1>5. IdsGrow'
    BY <1>2, IdsGrowKept DEF IInv
  <1>6. OutcomesLeft'
    BY <1>1, <1>2, OutcomesKept DEF IInv
  <1>7. Starting'
    BY <1>2, <1>3, StartingKept DEF IInv
  <1>8. StartedOnce'
    BY <1>2, StartedOnceKept DEF IInv
  <1>9. AudioInOrder'
    BY HeardKept DEF IInv, ServiceMoves
  <1>10. FlushFollows' /\ UiFollows' /\ SessionFollows'
    BY <1>2, <1>3, AudioDropped DEF IInv
  <1> QED
    BY <1>4, <1>5, <1>6, <1>7, <1>8, <1>9, <1>10 DEF IInv

\* The worker at a place where it has no session.
LEMMA WorkerPlaced ==
    ASSUME NEW p \in {"open", "loop", "receive", "finished"}, worker' = WorkerAt(p)
    PROVE  /\ worker' \in WorkerState /\ worker'.at = p /\ worker'.id = 0 /\ ~TellsOutcome'
           /\ worker'.at \notin Flushes \cup {"none", "handshake"}
  BY PlaceIs DEF TellsOutcome, Flushes

\* A service that stays as it is.
LEMMA ServiceStays ==
    ASSUME IInv, service' = service
    PROVE  ServiceMoves
  BY DEF ServiceMoves, IInv, TypeOK

\* One session that the service learns of or settles.
LEMMA ServiceSays ==
    ASSUME IInv, NEW i \in Ids, NEW s \in {"asked", "started", "partial", "over"},
           s = "asked" => service.session[i] = "none" /\ c.websocket,
           service' = [service EXCEPT !.session[i] = s]
    PROVE  ServiceMoves
  <1>1. service \in ServiceState
    BY DEF IInv, TypeOK
  <1>2. service' \in ServiceState /\ service'.session[i] = s
        /\ \A id \in Ids : id # i => service'.session[id] = service.session[id]
    BY <1>1 DEF ServiceState
  <1> QED
    BY <1>2 DEF ServiceMoves

\* FailReusableSession before it takes the lock.
LEMMA FailsInv ==
    ASSUME IInv, worker.at \in {"handshake", "receive"}, Fails, UNCHANGED local
    PROVE  IInv'
  <1>1. /\ worker' \in WorkerState /\ worker'.at = "fail" /\ worker'.id = 0
    <2>1. /\ WorkerAt("fail") \in WorkerState /\ WorkerAt("fail").at = "fail"
          /\ WorkerAt("fail").id = 0
      BY PlaceIs
    <2>2. PICK t \in {"nothing", "error"} : worker' = [WorkerAt("fail") EXCEPT !.tell = t]
      BY DEF Fails
    <2> QED
      BY <2>1, <2>2 DEF WorkerState
  <1>2. worker'.at \notin Flushes \cup {"none", "handshake"} /\ ~TellsOutcome'
    BY <1>1 DEF Flushes, TellsOutcome
  <1>3. worker.at \notin Flushes \cup {"none"}
    BY DEF Flushes
  <1>4. c \in Members /\ dropped \subseteq Ids
    BY DEF IInv, TypeOK
  <1>5. c' = c /\ service' = service /\ heard' = heard
    BY DEF Fails
  <1> QED
    BY <1>1, <1>2, <1>3, <1>4, <1>5, ServiceStays, WorkerMoves DEF local

\* cancelled_ is set, and then the members settle.
LEMMA FailureInv ==
    ASSUME IInv, FailureCancels \/ FailureSettles \/ FinishCancels
    PROVE  IInv'
  <1>1. c \in Members /\ dropped \subseteq Ids /\ worker \in WorkerState
    BY DEF IInv, TypeOK
  <1>2. CASE FailureSettles
    <2>1. worker.at # "none" /\ (worker.tell = "error") \in BOOLEAN
      BY <1>2 DEF FailureSettles
    <2> QED
      BY <1>2, <2>1, SettlesInv DEF FailureSettles
  <1>3. CASE FailureCancels \/ FinishCancels
    <2>1. /\ c' \in Members /\ c'.id = c.id /\ c'.session = c.session /\ c'.queue = c.queue
          /\ c'.websocket = c.websocket
      <3>1. TRUE \in BOOLEAN
        OBVIOUS
      <3> QED
        BY <1>1, <1>3, <3>1 DEF FailureCancels, FinishCancels, Members
    <2>2. worker.at \notin Flushes \cup {"none"} /\ UNCHANGED <<service, heard, local>>
      BY <1>3 DEF FailureCancels, FinishCancels, Flushes
    <2>3. /\ worker' \in WorkerState /\ worker'.at \notin Flushes \cup {"none", "handshake"}
          /\ worker'.id \in {0, worker.id} /\ ~TellsOutcome'
      <3>1. CASE FailureCancels
        <4>1. worker' \in WorkerState /\ worker'.at = "settle" /\ worker'.id = worker.id
          BY <1>1, <3>1 DEF FailureCancels, WorkerState
        <4> QED
          BY <4>1 DEF Flushes, TellsOutcome
      <3>2. CASE FinishCancels
        BY <3>2, WorkerPlaced DEF FinishCancels
      <3> QED
        BY <1>3, <3>1, <3>2
    <2> QED
      BY <1>1, <2>1, <2>2, <2>3, ServiceStays, WorkerMoves DEF local
  <1> QED
    BY <1>2, <1>3

\* The connection is made and asked for.
LEMMA HandshakeInv ==
    ASSUME IInv, Handshake \/ StartConnection
    PROVE  IInv'
  <1>1. c \in Members /\ service \in ServiceState /\ dropped \subseteq Ids
    BY DEF IInv, TypeOK
  <1>2. worker.at \notin Flushes \cup {"none"}
    BY DEF Handshake, StartConnection, Flushes
  <1>3. CASE WorkerFails /\ UNCHANGED local
    BY <1>2, <1>3, WorkerFailsInv
  <1>6. CASE Handshake /\ Fails
    BY <1>6, FailsInv DEF Handshake
  <1>4. CASE /\ Handshake /\ worker' = WorkerAt("open") /\ service' = service /\ heard' = heard
             /\ c' = [c EXCEPT !.websocket = TRUE, !.connection = "connecting"]
    <2>1. c' \in Members /\ c'.id = c.id /\ c'.session = c.session /\ c'.queue = c.queue
      <3>1. TRUE \in BOOLEAN
        OBVIOUS
      <3> QED
        BY <1>1, <1>4, <3>1 DEF Members
    <2>2. worker.at = "handshake" /\ UNCHANGED local
      BY <1>4 DEF Handshake
    <2> QED
      BY <1>1, <1>2, <1>4, <2>1, <2>2, WorkerPlaced, ServiceStays, WorkerMoves DEF local
  <1>5. CASE /\ StartConnection /\ c' = c /\ worker' = WorkerAt("loop") /\ heard' = heard
             /\ service' = [service EXCEPT !.connection = "asked"]
    <2>1. ServiceMoves
      BY <1>1, <1>5 DEF ServiceMoves, ServiceState
    <2> QED
      BY <1>1, <1>2, <1>5, <2>1, WorkerPlaced, WorkerMoves DEF StartConnection, local
  <1> QED
    BY <1>3, <1>4, <1>5, <1>6 DEF Handshake, StartConnection, WorkerSends

\* The loop goes on, or the worker ends with its connection.
LEMMA LoopInv ==
    ASSUME IInv, Loop \/ ReceivesNothing
    PROVE  IInv'
  <1>1. c \in Members /\ service \in ServiceState /\ dropped \subseteq Ids
    BY DEF IInv, TypeOK
  <1>2. worker.at \notin Flushes \cup {"none", "handshake"}
    BY DEF Loop, ReceivesNothing, Flushes
  <1>3. UNCHANGED <<service, heard, ui, ids, cur, given, outcomes, crossed, dropped, silenced>>
    BY DEF Loop, ReceivesNothing, local
  <1>4. CASE c' = c /\ (worker' = WorkerAt("receive") \/ worker' = WorkerAt("loop"))
    BY <1>1, <1>2, <1>3, <1>4, WorkerPlaced, ServiceStays, WorkerMoves
  <1>5. CASE /\ worker' = WorkerAt("none")
             /\ c' = [c EXCEPT !.websocket = FALSE, !.connection = "disconnected"]
    <2>1. /\ c' \in Members /\ c'.id = c.id /\ c'.session = c.session /\ c'.queue = c.queue
          /\ ~c'.websocket
      <3>1. FALSE \in BOOLEAN
        OBVIOUS
      <3> QED
        BY <1>1, <1>5, <3>1 DEF Members
    <2>2. /\ worker' \in WorkerState /\ worker'.at = "none" /\ worker'.id = 0
          /\ ~TellsOutcome' /\ worker'.at \notin Flushes
      BY <1>5, PlaceIs DEF TellsOutcome, Flushes
    <2>3. TypeOK'
      BY <1>3, <2>1, <2>2 DEF IInv, TypeOK
    <2>4. IdsGrow'
      BY <1>3, <2>1, <2>2, IdsGrowKept DEF IInv
    <2>5. OutcomesLeft'
      BY <1>3, <2>1, <2>2, OutcomesKept DEF IInv
    <2>6. Starting'
      BY <1>2, <1>3, <2>1, <2>2 DEF IInv, Starting
    <2>7. StartedOnce'
      BY <1>3, <2>1 DEF IInv, StartedOnce
    <2>8. AudioInOrder'
      BY <1>3, HeardKept DEF IInv
    <2>9. FlushFollows' /\ UiFollows' /\ SessionFollows'
      BY <1>2, <1>3, <2>1, <2>2, AudioKept DEF IInv
    <2> QED
      BY <2>3, <2>4, <2>5, <2>6, <2>7, <2>8, <2>9 DEF IInv
  <1> QED
    BY <1>4, <1>5 DEF Loop, ReceivesNothing

\* The service accepts or ends the connection, or it breaks.
LEMMA ConnectionInv ==
    ASSUME IInv, ConnectionStarted \/ ConnectionFinished \/ ReceivesError
    PROVE  IInv'
  <1>1. /\ c \in Members /\ service \in ServiceState /\ dropped \subseteq Ids
        /\ c.id \in Ids \cup {0}
    BY DEF IInv, TypeOK, Members
  <1>2. worker.at \notin Flushes \cup {"none"}
    BY DEF ConnectionStarted, ConnectionFinished, ReceivesError, Flushes
  <1>3. CASE ReceivesError
    BY <1>3, FailsInv DEF ReceivesError
  <1>4. CASE ConnectionStarted
    <2>1. c' \in Members /\ c'.id = c.id /\ c'.session = c.session /\ c'.queue = c.queue
          /\ c'.websocket = c.websocket
      BY <1>1, <1>4 DEF ConnectionStarted, Members
    <2>2. ServiceMoves
      BY <1>1, <1>4 DEF ServiceMoves, ServiceState, ConnectionStarted
    <2>3. /\ worker' \in WorkerState /\ worker'.at \notin Flushes \cup {"none", "handshake"}
          /\ worker'.id \in {0, c.id} /\ ~TellsOutcome'
      <3>1. CASE worker' = WorkerAt("loop")
        BY <3>1, WorkerPlaced
      <3>2. CASE worker' = [WorkerAt("start") EXCEPT !.id = c.id]
        <4>1. worker' \in WorkerState /\ worker'.at = "start" /\ worker'.id = c.id
          BY <1>1, <3>2, PlaceOfId
        <4> QED
          BY <4>1 DEF TellsOutcome, Flushes
      <3> QED
        BY <1>4, <3>1, <3>2 DEF ConnectionStarted
    <2> QED
      BY <1>1, <1>2, <1>4, <2>1, <2>2, <2>3, WorkerMoves DEF ConnectionStarted, local
  <1>5. CASE ConnectionFinished
    <2>1. /\ c' \in Members /\ c'.id = c.id /\ c'.session = c.session /\ c'.queue = c.queue
          /\ ~c'.websocket
      <3>1. FALSE \in BOOLEAN /\ TRUE \in BOOLEAN
        OBVIOUS
      <3> QED
        BY <1>1, <1>5, <3>1 DEF ConnectionFinished, Members
    <2>2. ServiceMoves
      <3>1. service' = NoSessions
        BY <1>5 DEF ConnectionFinished
      <3>2. NoSessions \in ServiceState /\ \A id \in Ids : NoSessions.session[id] = "none"
        BY DEF NoSessions, ServiceState
      <3> QED
        BY <2>1, <3>1, <3>2 DEF ServiceMoves
    <2>3. dropped' \subseteq Ids
      BY <1>1, <1>5 DEF ConnectionFinished
    <2> QED
      BY <1>2, <1>5, <2>1, <2>2, <2>3, WorkerPlaced, WorkerMoves DEF ConnectionFinished
  <1> QED
    BY <1>3, <1>4, <1>5

\* The worker starts the session that waited for the connection.
LEMMA WorkerStartsInv ==
    ASSUME IInv, WorkerStarts
    PROVE  IInv'
  <1>1. /\ c \in Members /\ service \in ServiceState /\ dropped \subseteq Ids
        /\ worker.id \in Ids \cup {0}
    BY DEF IInv, TypeOK, WorkerState
  <1>2. worker.at \notin Flushes \cup {"none"}
    BY DEF WorkerStarts, Flushes
  <1>3. CASE WorkerFails
    BY <1>2, <1>3, WorkerFailsInv DEF WorkerStarts
  <1>4. CASE /\ c.websocket /\ c' = c /\ worker' = WorkerAt("loop") /\ heard' = heard
             /\ service' = Asks(worker.id)
    <2>1. ServiceMoves
      <3>1. CASE worker.id \in Ids /\ service.session[worker.id] = "none"
        <4> DEFINE i == worker.id
        <4>1. i \in Ids /\ service.session[i] = "none"
          BY <3>1
        <4>2. service' = [service EXCEPT !.session[i] = "asked"]
          BY <1>4, <3>1 DEF Asks
        <4> HIDE DEF i
        <4> QED
          BY <1>4, <4>1, <4>2, ServiceSays
      <3>2. CASE worker.id \notin Ids \/ service.session[worker.id] # "none"
        <4>1. service' = service
          BY <1>1, <1>4, <3>2 DEF Asks, ServiceState
        <4> QED
          BY <4>1, ServiceStays
      <3> QED
        BY <3>1, <3>2
    <2> QED
      BY <1>1, <1>2, <1>4, <2>1, WorkerPlaced, WorkerMoves DEF WorkerStarts, local
  <1> QED
    BY <1>3, <1>4 DEF WorkerStarts, WorkerSends

\* A piece of text for the session, or nothing for one that was given up.
LEMMA AsrResponseInv ==
    ASSUME IInv, NEW id \in Ids, AsrResponse(id)
    PROVE  IInv'
  <1>1. /\ c \in Members /\ dropped \subseteq Ids
        /\ worker.at \notin Flushes \cup {"none"}
    BY DEF IInv, TypeOK, AsrResponse, Flushes
  <1>2. ServiceMoves
    BY ServiceSays DEF AsrResponse
  <1>3. /\ worker' \in WorkerState /\ worker'.at \notin Flushes \cup {"none", "handshake"}
        /\ worker'.id \in {0, c.id} /\ ~TellsOutcome'
    <2>1. CASE worker' = WorkerAt("loop")
      BY <2>1, WorkerPlaced
    <2>2. CASE id = c.id /\ worker' = [WorkerAt("callback") EXCEPT !.id = id, !.tell = "partial"]
      <3>1. /\ worker' \in WorkerState /\ worker'.at = "callback" /\ worker'.id = id
            /\ worker'.tell = "partial"
        <4>1. id \in Ids \cup {0}
          OBVIOUS
        <4>2. worker' = [WorkerAt("callback") EXCEPT !.id = id, !.tell = "partial"]
          BY <2>2
        <4> QED
          BY <4>1, <4>2, CallbackIs
      <3> QED
        BY <2>2, <3>1 DEF TellsOutcome, Flushes
    <2> QED
      BY <2>1, <2>2 DEF AsrResponse
  <1> QED
    BY <1>1, <1>2, <1>3, WorkerMoves DEF AsrResponse, local

\* The service settles a session, that of the members or one given up.
LEMMA SessionSettledInv ==
    ASSUME IInv, NEW id \in Ids, SessionFinished(id) \/ SessionCanceled(id)
    PROVE  IInv'
  <1>1. /\ c \in Members /\ dropped \subseteq Ids
        /\ worker.at = "receive" /\ worker.at \notin Flushes \cup {"none"}
    BY DEF IInv, TypeOK, SessionFinished, SessionCanceled, Flushes
  <1>2. ServiceMoves
    BY ServiceSays DEF SessionFinished, SessionCanceled
  <1>3. dropped' \subseteq Ids
    BY <1>1 DEF SessionFinished, SessionCanceled, local
  <1>4. UNCHANGED <<heard, ui, ids, cur, given, outcomes, crossed, silenced>>
    BY DEF SessionFinished, SessionCanceled, local
  <1>5. CASE id # c.id
    <2>1. c' = c /\ worker' = WorkerAt("loop")
      BY <1>5 DEF SessionFinished, SessionCanceled
    <2> QED
      BY <1>1, <1>2, <1>3, <1>4, <2>1, WorkerPlaced, WorkerMoves
  <1>6. CASE id = c.id
    <2>1. c' = Idle(c) /\ c.id \in Ids
      BY <1>6 DEF SessionFinished, SessionCanceled
    <2>2. /\ worker' \in WorkerState /\ worker'.at \in {"loop", "callback"}
          /\ worker'.id \in {0, c.id} /\ (TellsOutcome' => worker'.id = c.id)
      <3>1. CASE worker' = WorkerAt("loop")
        BY <3>1, WorkerPlaced
      <3>2. CASE worker' = [WorkerAt("callback") EXCEPT !.id = id, !.tell = "final"]
        <4>1. id \in Ids \cup {0}
          OBVIOUS
        <4>2. worker' \in WorkerState /\ worker'.at = "callback" /\ worker'.id = id
          BY <3>2, <4>1, CallbackIs
        <4> QED
          BY <1>6, <4>2
      <3> QED
        BY <1>6, <3>1, <3>2 DEF SessionFinished, SessionCanceled
    <2> QED
      BY <1>1, <1>2, <1>3, <1>4, <2>1, <2>2, WorkerSettles
  <1> QED
    BY <1>5, <1>6

\* The session the members wait for begins; another one that was given up is left.
LEMMA SessionStartedInv ==
    ASSUME IInv, NEW id \in Ids, SessionStarted(id)
    PROVE  IInv'
  <1>1. /\ c \in Members /\ dropped \subseteq Ids /\ service \in ServiceState
        /\ worker.at = "receive" /\ worker.at \notin Flushes \cup {"none"}
    BY DEF IInv, TypeOK, SessionStarted, Flushes
  <1>2. ServiceMoves
    BY ServiceSays DEF SessionStarted
  <1>3. UNCHANGED <<heard, ui, ids, cur, given, outcomes, crossed, dropped, silenced>>
    BY DEF SessionStarted, local
  <1>4. CASE id # c.id
    <2>1. c' = c /\ worker' = WorkerAt("loop")
      BY <1>4 DEF SessionStarted
    <2> QED
      BY <1>1, <1>2, <1>3, <2>1, WorkerPlaced, WorkerMoves
  <1>5. CASE id = c.id
    <2>1. c.id \in Ids /\ c.session = "starting"
      <3>1. service.session[c.id] = "asked" /\ c.id \in Ids
        BY <1>5 DEF SessionStarted
      <3>2. c.session # "idle"
        BY <3>1, Bounds DEF IInv, OutcomesLeft
      <3>3. c.session \notin {"streaming", "finishing"}
        BY <3>1 DEF IInv, StartedOnce
      <3> QED
        BY <1>1, <3>1, <3>2, <3>3 DEF Members
    <2>2. /\ c' \in Members /\ c'.id = c.id /\ c'.session = "streaming" /\ c'.queue = c.queue
          /\ c'.websocket = c.websocket
      BY <1>1, <1>5 DEF SessionStarted, Members
    <2>3. worker' \in WorkerState /\ worker'.at = "swap" /\ worker'.id = 0 /\ ~TellsOutcome'
      <3>1. worker' = WorkerAt("swap") /\ "swap" \in Flushes
        BY <1>5 DEF SessionStarted, Flushes
      <3> QED
        BY <3>1, PlaceIs DEF TellsOutcome
    <2>4. service'.session[c.id] = "started"
      BY <1>1, <1>5 DEF SessionStarted, ServiceState
    <2>5. TypeOK'
      BY <1>2, <1>3, <2>2, <2>3 DEF IInv, TypeOK, ServiceMoves
    <2>6. IdsGrow'
      BY <1>3, <2>2, <2>3, IdsGrowKept DEF IInv
    <2>7. OutcomesLeft'
      BY <1>3, <2>1, <2>2, <2>3, OutcomesKept DEF IInv
    <2>8. Starting'
      BY <1>1, <1>3, <2>1, <2>2, <2>3, StartingKept DEF IInv
    <2>9. StartedOnce'
      BY <2>2, <2>4 DEF StartedOnce
    <2>10. AudioInOrder'
      BY <1>2, <1>3, HeardKept DEF IInv, ServiceMoves
    <2>11. FlushFollows'
      BY <2>3 DEF FlushFollows
    <2>12. UiFollows'
      BY <1>3, <2>1, <2>2, <2>3 DEF IInv, UiFollows, Plain
    <2>13. SessionFollows'
      <3>1. worker'.at \in Flushes /\ worker'.at \notin Flushes \ {"swap"}
        BY <2>3 DEF Flushes
      <3> QED
        BY <1>3, <2>1, <2>2, <2>3, <3>1 DEF IInv, SessionFollows, Plain, Numbered
    <2> QED
      BY <2>5, <2>6, <2>7, <2>8, <2>9, <2>10, <2>11, <2>12, <2>13 DEF IInv
  <1> QED
    BY <1>4, <1>5

\* The service forgets a session only, and none of it was heard meanwhile.
LEMMA ForgetsIs ==
    ASSUME IInv, NEW i \in Ids \cup {0}, service' = Forgets(i)
    PROVE  ServiceMoves
  <1>1. CASE i \in Ids /\ service.session[i] # "none" /\ c.websocket
    <2>1. service' = [service EXCEPT !.session[i] = "over"]
      BY <1>1, Bounds DEF Forgets
    <2> QED
      BY <1>1, <2>1, ServiceSays
  <1>2. CASE i = 0 \/ service.session[i] = "none" \/ ~c.websocket
    <2>1. service' = service
      BY <1>2 DEF Forgets, IInv, TypeOK, ServiceState
    <2> QED
      BY <2>1, ServiceStays
  <1> QED
    BY <1>1, <1>2

\* A callback tells the outcome that was taken out of the members.
LEMMA CallbackInv ==
    ASSUME IInv, Callback
    PROVE  IInv'
  <1>1. /\ c \in Members /\ dropped \subseteq Ids /\ c.id \in Ids \cup {0}
        /\ worker.at = "callback" /\ worker.at \notin Flushes \cup {"none"}
    BY DEF IInv, TypeOK, Members, Callback, Flushes
  <1>2. /\ worker' = WorkerAt("loop") /\ UNCHANGED <<heard, ui, ids, given, crossed, dropped, silenced>>
        /\ cur' \in Ids \cup {0}
    BY DEF IInv, TypeOK, Callback
  <1>3. /\ worker' \in WorkerState /\ worker'.at = "loop" /\ worker'.id = 0 /\ ~TellsOutcome'
        /\ worker'.at \notin Flushes \cup {"none", "handshake"}
    BY <1>2, WorkerPlaced
  <1>4. CASE worker.tell = "partial"
    BY <1>1, <1>2, <1>3, <1>4, ServiceStays, WorkerMoves DEF Callback
  <1>5. CASE worker.tell # "partial"
    <2> DEFINE i == worker.id
    <2>1. i \in Ids /\ i # c.id /\ outcomes[i] = 0
      BY <1>1, <1>5 DEF IInv, OutcomesLeft, TellsOutcome
    <2>2. outcomes' = Told(i)
      BY <1>5 DEF Callback
    <2>3. i <= ids
      BY DEF IInv, IdsGrow
    <2> HIDE DEF i
    <2>4. outcomes \in [Ids -> 0..2] /\ \A id \in Ids : outcomes[id] <= 1
      BY DEF IInv, TypeOK, OutcomesLeft
    <2>5. outcomes' = [outcomes EXCEPT ![i] = 1]
      BY <2>1, <2>2, <2>4 DEF Told
    <2>6. /\ outcomes' \in [Ids -> 0..2] /\ \A id \in Ids : outcomes'[id] <= 1
          /\ \A id \in Ids : id # i => outcomes'[id] = outcomes[id]
      BY <2>1, <2>4, <2>5
    <2>7. /\ c' \in Members
          /\ c' = c \/ (c'.session = "idle" /\ c'.id = 0 /\ c'.queue = <<>>)
          /\ c'.websocket = c.websocket
      BY <1>1, IdleIs DEF Callback, CancelReusableSession
    <2>8. ServiceMoves
      BY <1>1, ForgetsIs, ServiceStays DEF Callback
    <2>9. TypeOK'
      BY <1>2, <1>3, <2>6, <2>7, <2>8 DEF IInv, TypeOK, ServiceMoves
    <2>10. IdsGrow'
      <3>1. ids \in Nat /\ i \in Nat /\ Ids \subseteq Nat /\ c'.id <= ids
        BY <2>1, <2>7, Bounds DEF IInv, TypeOK, IdsGrow
      <3>2. \A id \in Ids : id > ids => id # i
        BY <2>3, <3>1
      <3>3. \A id \in Ids : id > ids => heard[id] = <<>> /\ outcomes'[id] = 0
        BY <2>6, <3>2 DEF IInv, IdsGrow
      <3>4. ui'.id <= ids' /\ ids' = ids /\ heard' = heard
        BY <1>2 DEF IInv, IdsGrow
      <3>5. c'.id <= ids' /\ worker'.id <= ids'
        BY <1>3, <3>1, <3>4
      <3>6. \A id \in Ids : id > ids' => heard'[id] = <<>> /\ outcomes'[id] = 0
        BY <3>3, <3>4
      <3> QED
        BY <3>4, <3>5, <3>6 DEF IdsGrow
    <2>11. OutcomesLeft'
      <3>1. c'.id # i
        BY <2>1, <2>7, Bounds
      <3>2. (c'.session = "idle" <=> c'.id = 0) /\ (c'.id = c.id \/ c'.id = 0)
        BY <2>7 DEF IInv, OutcomesLeft
      <3>3. \A id \in Ids : c'.id = id => outcomes'[id] = 0
        <4>1. \A id \in Ids : c.id = id => outcomes[id] = 0
          BY DEF IInv, OutcomesLeft
        <4> QED
          BY <2>6, <3>1, <3>2, <4>1, Bounds
      <3> QED
        BY <1>3, <2>6, <3>2, <3>3 DEF OutcomesLeft
    <2>12. Starting'
      BY <1>1, <1>2, <1>3, <2>7, StartingKept DEF IInv
    <2>13. StartedOnce'
      <3>1. CASE c'.session \in {"idle", "starting"}
        BY <3>1 DEF StartedOnce
      <3>2. CASE c' = c /\ c.session \in {"streaming", "finishing"}
        <4>1. c.id \in Ids => ~(service.session[c.id] = "none" /\ c.websocket)
          BY <3>2 DEF IInv, StartedOnce
        <4> QED
          BY <2>8, <3>2, <4>1, StartedOnceKept DEF IInv, ServiceMoves
      <3> QED
        BY <1>1, <2>7, <3>1, <3>2 DEF Members
    <2>14. AudioInOrder'
      BY <1>2, <2>8, HeardKept DEF IInv, ServiceMoves
    <2>15. FlushFollows' /\ UiFollows' /\ SessionFollows'
      <3>1. CASE c' = c
        BY <1>1, <1>2, <1>3, <3>1, AudioKept DEF IInv
      <3>2. CASE c'.session = "idle" /\ c'.id = 0
        BY <1>2, <1>3, <3>2, AudioDropped DEF IInv
      <3> QED
        BY <2>7, <3>1, <3>2
    <2> QED
      BY <2>9, <2>10, <2>11, <2>12, <2>13, <2>14, <2>15 DEF IInv
  <1> QED
    BY <1>4, <1>5

-----------------------------------------------------------------------------
(* The UI thread *)

\* The session of the members is cancelled, whatever the worker does.
LEMMA CancelInv ==
    ASSUME IInv, Cancel \/ StartRefused
    PROVE  IInv'
  <1>1. c \in Members /\ c.id \in Ids \cup {0}
    BY DEF IInv, TypeOK, Members
  <1>2. /\ c' \in Members /\ c'.session = "idle" /\ c'.id = 0 /\ c'.queue = <<>>
        /\ c'.websocket = c.websocket
    BY <1>1, IdleIs DEF Cancel, StartRefused, CancelReusableSession
  <1>3. ServiceMoves
    BY <1>1, ForgetsIs DEF Cancel, StartRefused
  <1>4. /\ UNCHANGED <<ui, worker, ids, given, heard, outcomes, crossed, dropped, silenced>>
        /\ cur' \in Ids \cup {0}
    BY DEF Cancel, StartRefused, history, IInv, TypeOK
  <1>5. TypeOK'
    BY <1>2, <1>3, <1>4 DEF IInv, TypeOK, ServiceMoves
  <1>6. IdsGrow'
    BY <1>2, <1>4, IdsGrowKept DEF IInv
  <1>7. OutcomesLeft'
    BY <1>2, <1>4, OutcomesKept DEF IInv
  <1>8. Starting'
    BY <1>2, <1>4, StartingKept DEF IInv
  <1>9. StartedOnce'
    BY <1>2, StartedOnceKept DEF IInv
  <1>10. AudioInOrder'
    BY <1>3, <1>4, HeardKept DEF IInv, ServiceMoves
  <1>11. FlushFollows' /\ UiFollows' /\ SessionFollows'
    BY <1>2, <1>4, AudioDropped DEF IInv
  <1> QED
    BY <1>5, <1>6, <1>7, <1>8, <1>9, <1>10, <1>11 DEF IInv

\* What the service is told by the frame that ends a session.
LEMMA EndsIs ==
    ASSUME IInv, NEW i \in Ids \cup {0}, service' = Ends(i)
    PROVE  /\ service' \in ServiceState
           /\ \A id \in Ids : \/ service'.session[id] = service.session[id]
                              \/ id = i /\ service'.session[id] = "ended"
  <1>1. service \in ServiceState
    BY DEF IInv, TypeOK
  <1> QED
    BY <1>1 DEF Ends, ServiceState

\* Ending a session of which all was heard.
LEMMA EndsHeard ==
    ASSUME IInv, NEW i \in Ids \cup {0}, service' = Ends(i), UNCHANGED <<c, heard, crossed>>,
           Plain(i) => Len(heard[i]) = Chunks
    PROVE  AudioInOrder' /\ StartedOnce'
  <1>1. \A id \in Ids : \/ service'.session[id] = service.session[id]
                        \/ id = i /\ service'.session[id] = "ended"
    BY EndsIs
  <1>2. AudioInOrder'
    BY <1>1 DEF IInv, AudioInOrder, InOrder, Plain
  <1>3. c.session \in {"streaming", "finishing"} => c.id \in Ids
    BY Bounds DEF IInv, OutcomesLeft, TypeOK, Members
  <1>4. StartedOnce'
    BY <1>1, <1>3 DEF IInv, StartedOnce
  <1> QED
    BY <1>2, <1>4

\* The frames that start and end a session.
LEMMA UiFrameInv ==
    ASSUME IInv, StartSends \/ UiEnds
    PROVE  IInv'
  <1>1. c \in Members /\ ui.id \in Ids \cup {0}
    BY DEF IInv, TypeOK, UiState
  <1>2. CASE UiFails
    BY <1>2, UiFailsInv DEF StartSends, UiEnds
  <1>3. CASE /\ c.websocket /\ ui' = At("idle") /\ heard' = heard /\ UNCHANGED <<c, cur, outcomes, silenced>>
             /\ \/ StartSends /\ service' = Asks(ui.id)
                \/ UiEnds /\ service' = Ends(ui.id)
    <2>1. UNCHANGED <<worker, ids, given, crossed, dropped, silenced>>
      BY <1>3 DEF StartSends, UiEnds
    <2>2. ui' \in UiState /\ ui'.at = "idle" /\ ui'.id = 0
      BY <1>3, PlaceIs
    <2>3. ui.at # "send"
      BY <1>3 DEF StartSends, UiEnds
    <2>4. service' \in ServiceState /\ AudioInOrder' /\ StartedOnce'
      <3>1. CASE StartSends /\ service' = Asks(ui.id)
        <4>1. ServiceMoves
          <5>1. CASE ui.id \in Ids /\ service.session[ui.id] = "none"
            <6> DEFINE i == ui.id
            <6>1. i \in Ids /\ service.session[i] = "none"
              BY <5>1
            <6>2. service' = [service EXCEPT !.session[i] = "asked"]
              BY <3>1, <5>1 DEF Asks
            <6> HIDE DEF i
            <6> QED
              BY <1>3, <6>1, <6>2, ServiceSays
          <5>2. CASE ui.id \notin Ids \/ service.session[ui.id] # "none"
            <6>1. service' = service
              BY <3>1, <5>2 DEF Asks, IInv, TypeOK, ServiceState
            <6> QED
              BY <6>1, ServiceStays
          <5> QED
            BY <5>1, <5>2
        <4>2. AudioInOrder'
          BY <1>3, <2>1, <4>1, HeardKept DEF IInv, ServiceMoves
        <4>3. StartedOnce'
          <5>1. CASE c.session \in {"idle", "starting"}
            BY <1>3, <5>1 DEF StartedOnce
          <5>2. CASE c.session \in {"streaming", "finishing"}
            <6>1. c.id \in Ids => ~(service.session[c.id] = "none" /\ c.websocket)
              BY <5>2 DEF IInv, StartedOnce
            <6> QED
              BY <1>3, <4>1, <5>2, <6>1, StartedOnceKept DEF IInv, ServiceMoves
          <5> QED
            BY <1>1, <5>1, <5>2 DEF Members
        <4> QED
          BY <4>1, <4>2, <4>3 DEF ServiceMoves
      <3>2. CASE UiEnds /\ service' = Ends(ui.id)
        <4>1. Plain(ui.id) => Len(heard[ui.id]) = Chunks
          BY <3>2 DEF IInv, UiFollows, UiEnds
        <4> QED
          BY <1>1, <1>3, <2>1, <3>2, <4>1, EndsIs, EndsHeard
      <3> QED
        BY <1>3, <3>1, <3>2
    <2>5. TypeOK'
      BY <1>3, <2>1, <2>2, <2>4 DEF IInv, TypeOK
    <2>6. IdsGrow'
      BY <1>3, <2>1, <2>2, IdsGrowKept DEF IInv
    <2>7. OutcomesLeft'
      BY <1>3, <2>1, OutcomesKept DEF IInv
    <2>8. Starting'
      BY <1>3, <2>1, <2>2, StartingKept DEF IInv, Starts
    <2>9. FlushFollows' /\ UiFollows' /\ SessionFollows'
      BY <1>3, <2>1, <2>2, <2>3, AudioKept DEF IInv
    <2> QED
      BY <2>4, <2>5, <2>6, <2>7, <2>8, <2>9 DEF IInv
  <1> QED
    BY <1>2, <1>3 DEF StartSends, UiEnds, UiSends

\* The old connection is given up and its worker joined.
LEMMA ShutdownInv ==
    ASSUME IInv, ShutdownReusableConnection \/ Join
    PROVE  IInv'
  <1>1. c \in Members /\ Idle(c) \in Members
    BY IdleIs DEF IInv, TypeOK
  <1>2. UNCHANGED <<worker, service, ids, cur, given, heard, outcomes, crossed, dropped, silenced>>
    BY DEF ShutdownReusableConnection, Join, history
  <1>3. /\ c' \in Members
        /\ \/ c' = c
           \/ c'.session = "idle" /\ c'.id = 0 /\ c'.queue = <<>> /\ c'.websocket = c.websocket
        /\ ShutdownReusableConnection => c'.session = "idle" /\ c'.queue = <<>>
    <2>1. CASE ShutdownReusableConnection
      <3>1. TRUE \in BOOLEAN
        OBVIOUS
      <3>2. c' = [Idle(c) EXCEPT !.connection = "disconnected", !.cancelled = TRUE]
        BY <2>1 DEF ShutdownReusableConnection
      <3>3. /\ Idle(c).session = "idle" /\ Idle(c).id = 0 /\ Idle(c).queue = <<>>
            /\ Idle(c).websocket = c.websocket
        BY <1>1, IdleIs
      <3> QED
        BY <1>1, <3>1, <3>2, <3>3 DEF Members
    <2>2. CASE Join
      <3>1. c' = c /\ ~ShutdownReusableConnection
        BY <2>2 DEF Join, ShutdownReusableConnection
      <3> QED
        BY <1>1, <3>1
    <2> QED
      BY <2>1, <2>2
  <1>4. /\ ui' \in UiState /\ ui'.id = 0 /\ ui'.at \in {"join", "launch"}
        /\ ui'.at = "launch" => worker.at = "none" /\ ui.at = "join" /\ Join
        /\ ui'.at = "join" => ShutdownReusableConnection
        /\ ui.at \in {"shutdown", "join"}
    <2>1. CASE ShutdownReusableConnection
      <3>1. ui' = At("join") /\ ui.at = "shutdown" /\ "join" \in Starts
        BY <2>1 DEF ShutdownReusableConnection, Starts
      <3>2. ui' \in UiState /\ ui'.at = "join" /\ ui'.id = 0
        BY <3>1, PlaceIs
      <3> QED
        BY <2>1, <3>1, <3>2
    <2>2. CASE Join
      <3>1. ui' = At("launch") /\ ui.at = "join" /\ worker.at = "none" /\ "launch" \in Starts
        BY <2>2 DEF Join, Starts
      <3>2. ui' \in UiState /\ ui'.at = "launch" /\ ui'.id = 0
        BY <3>1, PlaceIs
      <3> QED
        BY <2>2, <3>1, <3>2
    <2> QED
      BY <2>1, <2>2
  <1>5. TypeOK'
    BY <1>2, <1>3, <1>4 DEF IInv, TypeOK
  <1>6. IdsGrow'
    BY <1>2, <1>3, <1>4, IdsGrowKept DEF IInv
  <1>7. OutcomesLeft'
    BY <1>2, <1>3, OutcomesKept DEF IInv
  <1>8. Starting'
    <2>1. c'.session = c.session \/ c'.session = "idle"
      BY <1>3
    <2>2. c'.websocket = c.websocket
      BY <1>3
    <2>3. given = 0 /\ ids < MaxIds
      BY <1>4 DEF IInv, Starting, Starts
    <2>4. c'.session = "idle" /\ c'.queue = <<>>
      <3>1. CASE ui'.at = "join"
        BY <1>3, <1>4, <3>1
      <3>2. CASE ui'.at = "launch"
        <4>1. c.session = "idle" /\ c.queue = <<>>
          BY <1>4, <3>2 DEF IInv, Starting
        <4> QED
          BY <1>3, <4>1
      <3> QED
        BY <1>4, <3>1, <3>2
    <2> QED
      BY <1>2, <1>4, <2>1, <2>2, <2>3, <2>4 DEF IInv, Starting
  <1>9. StartedOnce'
    BY <1>2, <1>3 DEF IInv, StartedOnce
  <1>10. AudioInOrder'
    BY <1>2, HeardKept DEF IInv
  <1>11. FlushFollows' /\ UiFollows' /\ SessionFollows'
    <2>1. CASE c' = c
      BY <1>2, <1>4, <2>1, AudioKept DEF IInv
    <2>2. CASE c'.session = "idle" /\ c'.id = 0
      BY <1>2, <1>4, <2>2, AudioDropped DEF IInv
    <2> QED
      BY <1>3, <2>1, <2>2
  <1> QED
    BY <1>5, <1>6, <1>7, <1>8, <1>9, <1>10, <1>11 DEF IInv

\* A session that begins with a new id: nobody has heard of it.
LEMMA BeginInv ==
    ASSUME IInv, ids < MaxIds, ids' = ids + 1, given' = 0,
           c' \in Members, c'.id = ids', c'.session = "starting", c'.queue = <<>>,
           c'.websocket = c.websocket,
           ui' \in UiState, ui'.at \notin {"join", "launch", "send", "finish", "end"},
           ui'.id \in {0, ids'}, ui'.at = "shutdown" => ids' < MaxIds,
           \/ worker' = worker
           \/ worker' \in WorkerState /\ worker'.at = "handshake" /\ worker'.id = 0 /\ ~c.websocket,
           crossed' \in SUBSET Ids, crossed \subseteq crossed',
           worker'.at \in Flushes => ids' \in crossed',
           cur' \in Ids \cup {0}, service' \in ServiceState,
           service' = service \/ service' = NoSessions,
           UNCHANGED <<heard, outcomes, dropped, silenced>>
    PROVE  IInv'
  <1>1. /\ ids \in Nat /\ ids' \in Nat /\ ids' \in Ids /\ ids' > ids /\ ids' <= MaxIds
        /\ c.id \in Nat /\ ui.id \in Nat /\ worker.id \in Nat /\ 0 \in 0..Chunks
    <2>1. ids \in Nat /\ MaxIds \in Nat
      BY Bounds DEF IInv, TypeOK
    <2>2. ids' \in Nat /\ ids' > ids /\ ids' <= MaxIds /\ ids' > 0
      BY <2>1
    <2>3. c.id \in Ids \cup {0} /\ ui.id \in Ids \cup {0} /\ worker.id \in Ids \cup {0}
      BY DEF IInv, TypeOK, Members, UiState, WorkerState
    <2>4. \A n \in Ids \cup {0} : n \in Nat
      BY Bounds
    <2>5. ids' \in Ids
      BY <2>1, <2>2, Bounds
    <2>6. 0 \in 0..Chunks
      BY Bounds
    <2>7. c.id \in Nat /\ ui.id \in Nat /\ worker.id \in Nat
      BY <2>3, <2>4
    <2> QED
      BY <2>1, <2>2, <2>5, <2>6, <2>7
  <1>2. heard[ids'] = <<>> /\ outcomes[ids'] = 0
    BY <1>1 DEF IInv, IdsGrow
  <1>3. TypeOK'
    BY <1>1 DEF IInv, TypeOK
  <1>4. IdsGrow'
    <2>1. c'.id <= ids' /\ ui'.id <= ids' /\ worker'.id <= ids'
      BY <1>1 DEF IInv, IdsGrow
    <2>2. \A id \in Ids : id > ids' => id > ids
      BY <1>1, Bounds
    <2> QED
      BY <2>1, <2>2 DEF IInv, IdsGrow
  <1>5. OutcomesLeft'
    <2>1. c'.id # 0 /\ c'.session # "idle"
      BY <1>1, Bounds
    <2>2. ASSUME TellsOutcome'
          PROVE  worker'.id \in Ids /\ worker'.id # c'.id /\ outcomes'[worker'.id] = 0
      <3>1. worker' = worker /\ TellsOutcome
        BY <2>2 DEF TellsOutcome
      <3>2. worker.id # ids'
        BY <1>1 DEF IInv, IdsGrow
      <3> QED
        BY <3>1, <3>2 DEF IInv, OutcomesLeft
    <2> QED
      BY <1>2, <2>1, <2>2 DEF IInv, OutcomesLeft
  <1>6. Starting'
    BY <1>1 DEF IInv, Starting, Starts
  <1>7. StartedOnce'
    BY DEF StartedOnce
  <1>8. AudioInOrder'
    <2>1. \A id \in Ids : service'.session[id] = "ended" => service.session[id] = "ended"
      BY DEF NoSessions
    <2> QED
      BY <2>1, HeardKept DEF IInv
  <1>9. FlushFollows'
    BY DEF IInv, FlushFollows, Plain, Numbered, Flushes
  <1>10. UiFollows'
    BY DEF UiFollows
  <1>11. SessionFollows'
    BY <1>1, <1>2, Bounds DEF SessionFollows, Plain, Numbered, Flushes
  <1> QED
    BY <1>3, <1>4, <1>5, <1>6, <1>7, <1>8, <1>9, <1>10, <1>11 DEF IInv

\* Start, on a connection that is ready, being made, or gone.
LEMMA StartInv ==
    ASSUME IInv, StartReusableSession
    PROVE  IInv'
  <1>1. /\ c \in Members /\ ids \in Nat /\ ids + 2 <= MaxIds /\ ids' = ids + 1 /\ MaxIds \in Nat
        /\ ids' \in Ids /\ crossed \in SUBSET Ids
    <2>1. c \in Members /\ ids \in Nat /\ MaxIds \in Nat /\ crossed \in SUBSET Ids
      BY Bounds DEF IInv, TypeOK
    <2>2. ids + 2 <= MaxIds /\ ids' = ids + 1
      BY DEF StartReusableSession
    <2>3. ids' \in Nat /\ ids' > 0 /\ ids' <= MaxIds
      BY <2>1, <2>2
    <2> QED
      BY <2>1, <2>2, <2>3, Bounds
  <1>2. /\ c' \in Members /\ c'.id = ids' /\ c'.session = "starting" /\ c'.queue = <<>>
        /\ c'.websocket = c.websocket
    <2> DEFINE n == ids'
    <2>1. n \in Ids /\ c' = [c EXCEPT !.id = n, !.queue = <<>>, !.session = "starting"]
      BY <1>1 DEF StartReusableSession
    <2>2. <<>> \in Seq(Chunk)
      OBVIOUS
    <2> HIDE DEF n
    <2>3. /\ c' \in Members /\ c'.id = n /\ c'.session = "starting" /\ c'.queue = <<>>
          /\ c'.websocket = c.websocket
      BY <1>1, <2>1, <2>2 DEF Members
    <2> QED
      BY <2>3 DEF n
  <1>3. /\ ui' \in UiState /\ ui'.at \in {"start", "idle", "shutdown"} /\ ui'.id \in {0, ids'}
    <2>1. CASE ui' = [At("start") EXCEPT !.id = ids']
      <3>1. ids' \in Ids \cup {0}
        BY <1>1
      <3> QED
        BY <2>1, <3>1, PlaceOfId
    <2>2. CASE ui' = At("idle")
      BY <2>2, PlaceIs
    <2>3. CASE ui' = At("shutdown")
      <3>1. "shutdown" \in Starts
        BY DEF Starts
      <3> QED
        BY <2>3, <3>1, PlaceIs
    <2> QED
      BY <2>1, <2>2, <2>3 DEF StartReusableSession
  <1>4. /\ crossed' \in SUBSET Ids /\ crossed \subseteq crossed'
        /\ worker.at \in Flushes => ids' \in crossed'
    BY <1>1 DEF StartReusableSession
  <1>5. ids < MaxIds /\ ids' < MaxIds
    BY <1>1
  <1>6. /\ UNCHANGED <<worker, service, heard, outcomes, dropped, silenced>> /\ given' = 0
        /\ cur' \in Ids \cup {0} /\ service \in ServiceState
    BY <1>1 DEF StartReusableSession, IInv, TypeOK
  <1> QED
    BY <1>1, <1>2, <1>3, <1>4, <1>5, <1>6, BeginInv

\* A new connection with a new worker, for a session with another id.
LEMMA LaunchInv ==
    ASSUME IInv, Launch
    PROVE  IInv'
  <1>1. /\ c \in Members /\ ids \in Nat /\ MaxIds \in Nat /\ ids' = ids + 1
        /\ ids < MaxIds /\ given = 0 /\ c.queue = <<>> /\ ~c.websocket /\ worker.at = "none"
    BY Bounds DEF IInv, TypeOK, Starting, Starts, Launch
  <1>2. ids' \in Ids
    BY <1>1, Bounds
  <1>3. /\ c' \in Members /\ c'.id = ids' /\ c'.session = "starting" /\ c'.queue = <<>>
        /\ c'.websocket = c.websocket
    <2> DEFINE n == ids'
    <2>1. n \in Ids /\ c' = [c EXCEPT !.id = n, !.session = "starting",
                                      !.connection = "connecting", !.cancelled = FALSE]
      BY <1>2 DEF Launch
    <2>2. FALSE \in BOOLEAN
      OBVIOUS
    <2> HIDE DEF n
    <2>3. /\ c' \in Members /\ c'.id = n /\ c'.session = "starting" /\ c'.queue = <<>>
          /\ c'.websocket = c.websocket
      BY <1>1, <2>1, <2>2 DEF Members
    <2> QED
      BY <2>3 DEF n
  <1>4. /\ worker' \in WorkerState /\ worker'.at = "handshake" /\ worker'.id = 0
        /\ worker'.at \notin Flushes
    <2>1. worker' = WorkerAt("handshake")
      BY DEF Launch
    <2> QED
      BY <2>1, PlaceIs DEF Flushes
  <1>5. ui' \in UiState /\ ui'.at = "idle" /\ ui'.id = 0
    <2>1. ui' = At("idle")
      BY DEF Launch
    <2> QED
      BY <2>1, PlaceIs
  <1>6. service' = NoSessions /\ service' \in ServiceState
    BY DEF Launch, NoSessions, ServiceState
  <1>7. /\ UNCHANGED <<heard, outcomes, dropped, crossed, silenced>> /\ given' = 0
        /\ crossed' \in SUBSET Ids /\ cur' \in Ids \cup {0}
    BY <1>1, <1>2 DEF Launch, history, IInv, TypeOK
  <1> QED
    BY <1>1, <1>3, <1>4, <1>5, <1>6, <1>7, BeginInv

\* Appending the piece that comes next.
LEMMA NumberedAppend ==
    ASSUME NEW q \in Seq(Chunk), NEW n \in 0..Chunks, Numbered(q, 0), n = Len(q) + 1
    PROVE  /\ Append(q, Piece(n)) \in Seq(Chunk)
           /\ Numbered(Append(q, Piece(n)), 0)
           /\ Len(Append(q, Piece(n))) = n
  <1> DEFINE e == Piece(n)
             a == Append(q, e)
  <1>1. e \in Chunk
    BY PieceIs
  <1>2. Len(q) \in Nat /\ a \in Seq(Chunk) /\ Len(a) = Len(q) + 1
    BY <1>1
  <1>3. \A i \in 1..Len(q) : a[i] = q[i]
    BY <1>1
  <1>4. a[Len(q) + 1] = e
    BY <1>1
  <1> HIDE DEF a
  <1>5. Numbered(a, 0)
    <2> SUFFICES ASSUME NEW i \in 1..Len(a)
                 PROVE  a[i] = Piece(0 + i)
      BY DEF Numbered
    <2>1. 0 + i = i
      BY <1>2
    <2>2. CASE i = Len(q) + 1
      BY <1>4, <2>1, <2>2
    <2>3. CASE i # Len(q) + 1
      <3>1. i \in 1..Len(q)
        BY <1>2, <2>3
      <3>2. q[i] = Piece(0 + i)
        BY <3>1 DEF Numbered
      <3> QED
        BY <1>3, <3>1, <3>2
    <2> QED
      BY <2>2, <2>3
  <1> QED
    BY <1>2, <1>5 DEF a, e

\* The coordinator gives a piece, which is queued or about to be sent.
LEMMA GiveInv ==
    ASSUME IInv, SendReusableAudio
    PROVE  IInv'
  <1>1. /\ c \in Members /\ ui \in UiState /\ given \in Nat /\ given < Chunks /\ ui.at = "idle"
        /\ c.queue \in Seq(Chunk) /\ c.id \in Ids \cup {0} /\ Chunks \in Nat
    BY Bounds DEF IInv, TypeOK, SendReusableAudio, Resting, Members
  <1> DEFINE n == given'
             e == Piece(n)
             q == Append(c.queue, e)
  <1>2. n = given + 1 /\ n \in 0..Chunks /\ n > 0
    BY <1>1 DEF SendReusableAudio
  <1>3. e \in Chunk
    BY <1>2, PieceIs
  <1>4. /\ c' = (IF c.session \in {"starting", "idle"} THEN [c EXCEPT !.queue = q] ELSE c)
        /\ ui' = (IF c.session = "streaming" THEN [at |-> "send", id |-> c.id, chunk |-> e] ELSE ui)
    BY DEF SendReusableAudio
  <1>5. /\ crossed' \in SUBSET Ids /\ crossed \subseteq crossed'
        /\ c.session = "streaming" /\ worker.at \in Flushes => c.id \in crossed'
        /\ UNCHANGED <<worker, service, ids, cur, heard, outcomes, dropped, silenced>>
    <2>1. c.session # "idle" => c.id \in Ids
      BY <1>1 DEF IInv, OutcomesLeft
    <2> QED
      BY <2>1 DEF IInv, TypeOK, SendReusableAudio
  <1>6. q \in Seq(Chunk)
    BY <1>1, <1>3
  <1> HIDE DEF n, e, q
  <1>7. /\ c' \in Members /\ c'.id = c.id /\ c'.session = c.session /\ c'.websocket = c.websocket
        /\ c.session = "starting" => c'.queue = q
        /\ c.session \notin {"starting", "idle"} => c'.queue = c.queue
    BY <1>1, <1>4, <1>6 DEF Members
  <1>8. /\ ui' \in UiState
        /\ c.session = "streaming" => ui'.at = "send" /\ ui'.id = c.id /\ ui'.chunk = e
        /\ c.session # "streaming" => ui' = ui
    BY <1>1, <1>3, <1>4 DEF UiState
  <1>9. TypeOK'
    BY <1>2, <1>5, <1>7, <1>8 DEF IInv, TypeOK, n
  <1>10. IdsGrow'
    <2>1. ui'.id \in {0, c.id, ui.id}
      BY <1>8
    <2> QED
      BY <1>5, <1>7, <2>1, IdsGrowKept DEF IInv
  <1>11. OutcomesLeft'
    BY <1>5, <1>7, OutcomesKept DEF IInv
  <1>12. Starting'
    <2>1. ui'.at \in {"idle", "send"}
      BY <1>1, <1>8
    <2> QED
      BY <1>5, <1>7, <2>1 DEF IInv, Starting, Starts
  <1>13. StartedOnce'
    BY <1>5, <1>7 DEF IInv, StartedOnce
  <1>14. AudioInOrder'
    BY <1>5, HeardKept DEF IInv
  <1>15. FlushFollows'
    BY <1>5 DEF IInv, FlushFollows, Plain, Numbered
  <1>16. Plain(c.id)' => Plain(c.id)
    BY <1>5, <1>7 DEF Plain
  <1>17. ASSUME Plain(c.id), c.session = "streaming", worker.at \notin Flushes
         PROVE  Len(heard[c.id]) + 1 = n
    <2>1. Len(heard[c.id]) + 0 = given
      BY <1>1, <1>17 DEF IInv, SessionFollows
    <2>2. Len(heard[c.id]) \in Nat
      BY <1>17 DEF IInv, TypeOK, Plain
    <2> QED
      BY <1>1, <1>2, <2>1, <2>2
  <1>18. UiFollows'
    <2>1. CASE c.session # "streaming"
      BY <1>1, <1>8, <2>1 DEF UiFollows
    <2>2. CASE c.session = "streaming"
      <3>1. ui'.at = "send" /\ ui'.id = c.id /\ ui'.chunk = Piece(given') /\ given' > 0
        BY <1>2, <1>8, <2>2 DEF e, n
      <3>2. Plain(c.id)' => Len(heard[c.id]) + 1 = given' /\ worker.at \notin Flushes
        BY <1>5, <1>7, <1>16, <1>17, <2>2 DEF Plain, n
      <3> QED
        BY <1>5, <1>7, <2>2, <3>1, <3>2 DEF UiFollows, Plain
    <2> QED
      BY <2>1, <2>2
  <1>19. SessionFollows'
    <2> SUFFICES ASSUME Plain(c.id)'
                 PROVE  SessionFollows'
      BY DEF SessionFollows
    <2>1. Plain(c.id) /\ c.session # "idle"
      BY <1>16, Bounds DEF Plain, IInv, OutcomesLeft
    <2>2. CASE c.session = "starting"
      <3>1. heard[c.id] = <<>> /\ Numbered(c.queue, 0) /\ Len(c.queue) = given
            /\ worker.at \notin Flushes
        BY <2>1, <2>2 DEF IInv, SessionFollows
      <3>2. Numbered(q, 0) /\ Len(q) = n
        BY <1>1, <1>2, <3>1, NumberedAppend DEF q, e
      <3> QED
        BY <1>5, <1>7, <2>2, <3>1, <3>2 DEF SessionFollows, Flushes, n, Numbered
    <2>3. CASE c.session = "streaming"
      <3>1. worker.at \notin Flushes
        BY <1>5, <1>7, <2>3 DEF Plain
      <3>2. Len(heard[c.id]) + 1 = n /\ ui'.at = "send"
        BY <1>8, <1>17, <2>1, <2>3, <3>1
      <3> QED
        BY <1>5, <1>7, <2>3, <3>1, <3>2 DEF SessionFollows, Flushes, n
    <2>4. CASE c.session = "finishing"
      BY <1>1, <2>1, <2>4 DEF IInv, SessionFollows
    <2> QED
      BY <1>1, <2>1, <2>2, <2>3, <2>4 DEF Members
  <1> QED
    BY <1>9, <1>10, <1>11, <1>12, <1>13, <1>14, <1>15, <1>18, <1>19 DEF IInv

\* What hearing a piece adds.
LEMMA HearsIs ==
    ASSUME TypeOK, NEW i \in Ids \cup {0}, NEW e \in Chunk, heard' = Hears(i, e)
    PROVE  /\ heard' \in [Ids -> Seq(0..Chunks)]
           /\ \A id \in Ids : id # i => heard'[id] = heard[id]
           /\ i \in Ids => /\ Len(heard[i]) \in Nat /\ Len(heard'[i]) = Len(heard[i]) + 1
                           /\ InOrder(i) /\ e.n = Len(heard[i]) + 1 => InOrder(i)'
  <1> DEFINE n == e.n
  <1>1. n \in 0..Chunks
    BY DEF Chunk
  <1>2. heard \in [Ids -> Seq(0..Chunks)] /\ heard' = [heard EXCEPT ![i] = Append(@, n)]
    BY DEF TypeOK, Hears
  <1> HIDE DEF n
  <1>3. CASE i \notin Ids
    <2>1. heard' = heard
      BY <1>2, <1>3
    <2> QED
      BY <1>2, <1>3, <2>1
  <1>4. CASE i \in Ids
    <2> DEFINE h == heard[i]
               g == Append(h, n)
    <2>1. h \in Seq(0..Chunks)
      BY <1>2, <1>4
    <2>2. /\ g \in Seq(0..Chunks) /\ Len(h) \in Nat /\ Len(g) = Len(h) + 1
          /\ g[Len(h) + 1] = n /\ \A k \in 1..Len(h) : g[k] = h[k]
      BY <1>1, <2>1
    <2>3. heard' = [heard EXCEPT ![i] = g]
      BY <1>2
    <2> HIDE DEF g
    <2>4. heard' \in [Ids -> Seq(0..Chunks)] /\ heard'[i] = g
          /\ \A id \in Ids : id # i => heard'[id] = heard[id]
      BY <1>2, <1>4, <2>2, <2>3
    <2>5. ASSUME InOrder(i), n = Len(h) + 1
          PROVE  InOrder(i)'
      <3>1. DOMAIN g = 1..Len(g) /\ DOMAIN h = 1..Len(h)
        BY <2>1, <2>2
      <3>2. ASSUME NEW k \in 1..Len(g)
            PROVE  g[k] = k
        <4>1. CASE k = Len(h) + 1
          BY <2>2, <2>5, <4>1
        <4>2. CASE k # Len(h) + 1
          <5>1. k \in 1..Len(h)
            BY <2>2, <4>2
          <5>2. h[k] = k
            BY <2>5, <3>1, <5>1 DEF InOrder
          <5> QED
            BY <2>2, <5>1, <5>2
        <4> QED
          BY <4>1, <4>2
      <3> QED
        BY <2>4, <3>1, <3>2 DEF InOrder
    <2> QED
      BY <2>2, <2>4, <2>5 DEF n
  <1> QED
    BY <1>3, <1>4

\* The UI thread sends a piece.
LEMMA AudioSendsInv ==
    ASSUME IInv, AudioSends
    PROVE  IInv'
  <1>1. /\ c \in Members /\ ui.id \in Ids \cup {0} /\ ui.chunk \in Chunk /\ ui.at = "send"
        /\ given \in 0..Chunks /\ Chunks \in Nat
    BY Bounds DEF IInv, TypeOK, UiState, AudioSends
  <1>2. PICK i \in Ids \cup {0} : i = ui.id
    BY <1>1
  <1>3. CASE UiFails
    BY <1>3, UiFailsInv DEF AudioSends
  <1>4. CASE /\ heard' = Hears(ui.id, ui.chunk) /\ UNCHANGED <<c, cur, outcomes, silenced>>
             /\ ui' = (IF ui.chunk.last THEN At("finish") ELSE At("idle")) /\ service' = service
    <2>1. UNCHANGED <<worker, ids, given, crossed, dropped, silenced>>
      BY <1>4 DEF AudioSends
    <2>2. /\ ui.chunk = Piece(given) /\ c.id \in {0, ui.id} /\ c.session # "starting"
          /\ ui.chunk.n = given /\ (ui.chunk.last <=> given = Chunks)
      BY <1>1, PieceIs DEF IInv, UiFollows
    <2>3. /\ ui' \in UiState /\ ui'.at \in {"finish", "idle"} /\ ui'.id = 0
          /\ ui'.at = "finish" => given = Chunks
      <3>1. CASE ui.chunk.last
        BY <1>4, <2>2, <3>1, PlaceIs
      <3>2. CASE ~ui.chunk.last
        BY <1>4, <3>2, PlaceIs
      <3> QED
        BY <3>1, <3>2
    <2>4. /\ heard' \in [Ids -> Seq(0..Chunks)]
          /\ \A id \in Ids : id # i => heard'[id] = heard[id]
      BY <1>1, <1>4, <1>2, HearsIs DEF IInv
    <2>5. ASSUME Plain(i)
          PROVE  /\ Len(heard[i]) \in Nat /\ Len(heard[i]) + 1 = given
                 /\ Len(heard'[i]) = given /\ worker.at \notin Flushes
                 /\ InOrder(i)'
      <3>1. Len(heard[i]) + 1 = given /\ worker.at \notin Flushes /\ i \in Ids
        BY <1>1, <1>2, <2>5 DEF IInv, UiFollows, Plain
      <3>2. InOrder(i)
        BY <2>5 DEF IInv, AudioInOrder, Plain
      <3>3. /\ Len(heard[i]) \in Nat /\ Len(heard'[i]) = Len(heard[i]) + 1
            /\ (InOrder(i) /\ ui.chunk.n = Len(heard[i]) + 1 => InOrder(i)')
        BY <1>1, <1>4, <1>2, <3>1, HearsIs DEF IInv
      <3> QED
        BY <2>2, <3>1, <3>2, <3>3
    <2>6. TypeOK'
      BY <1>4, <2>1, <2>3, <2>4 DEF IInv, TypeOK
    <2>7. IdsGrow'
      <3>1. ids \in Nat /\ \A id \in Ids : id > ids => id # i
        <4>1. ids \in Nat /\ i <= ids
          BY <1>2, Bounds DEF IInv, TypeOK, IdsGrow
        <4>2. i \in Nat /\ Ids \subseteq Nat
          BY Bounds
        <4> QED
          BY <4>1, <4>2
      <3> QED
        BY <1>4, <2>1, <2>3, <2>4, <3>1 DEF IInv, IdsGrow, TypeOK
    <2>8. OutcomesLeft'
      BY <1>4, <2>1, OutcomesKept DEF IInv
    <2>9. Starting'
      BY <1>4, <2>1, <2>3, StartingKept DEF IInv, Starts
    <2>10. StartedOnce'
      BY <1>4 DEF IInv, StartedOnce
    <2>11. AudioInOrder'
      <3> SUFFICES ASSUME NEW id \in Ids, id \notin crossed
                   PROVE  InOrder(id)' /\ (service.session[id] = "ended" => Len(heard'[id]) = Chunks)
        BY <1>4, <2>1 DEF AudioInOrder
      <3>1. CASE id = i
        <4>1. service.session[id] # "ended"
          BY <1>1, <2>5, <3>1 DEF IInv, AudioInOrder, Plain
        <4> QED
          BY <2>5, <3>1, <4>1 DEF Plain
      <3>2. CASE id # i
        BY <2>4, <3>2 DEF IInv, AudioInOrder, InOrder
      <3> QED
        BY <3>1, <3>2
    <2>12. FlushFollows'
      <3>1. worker.at \in Flushes /\ Plain(worker.id) => worker.id # i
        BY <2>5
      <3> QED
        BY <2>1, <2>4, <3>1 DEF IInv, FlushFollows, Plain, Numbered
    <2>13. UiFollows'
      BY <1>1, <1>4, <1>2, <2>1, <2>2, <2>3, <2>5 DEF IInv, UiFollows, Plain
    <2>14. SessionFollows'
      <3> SUFFICES ASSUME Plain(c.id)
                   PROVE  SessionFollows'
        BY <1>4, <2>1 DEF SessionFollows, Plain
      <3>1. c.id = i
        BY <1>2, <2>2, Bounds DEF Plain
      <3>2. /\ Len(heard[c.id]) \in Nat /\ Len(heard[c.id]) + 1 = given
            /\ Len(heard'[c.id]) = given /\ worker.at \notin Flushes
        BY <2>5, <3>1
      <3>3. c.session # "finishing"
        BY <1>1, <3>2 DEF IInv, SessionFollows
      <3>4. Len(heard'[c.id]) + 0 = given
        BY <1>1, <3>2
      <3> QED
        BY <1>4, <2>1, <2>2, <2>3, <3>2, <3>3, <3>4 DEF SessionFollows, Flushes
    <2> QED
      BY <2>6, <2>7, <2>8, <2>9, <2>10, <2>11, <2>12, <2>13, <2>14 DEF IInv
  <1> QED
    BY <1>3, <1>4 DEF AudioSends, UiSends

\* The UI thread ends the session after its last piece.
LEMMA UiFinishesInv ==
    ASSUME IInv, UiFinishes
    PROVE  IInv'
  <1>1. /\ c \in Members /\ c.id \in Ids \cup {0} /\ ui.at = "finish" /\ given = Chunks
        /\ c.session # "starting" /\ (Plain(c.id) => worker.at \notin Flushes)
    BY DEF IInv, TypeOK, UiFinishes, UiFollows, Members
  <1>2. UNCHANGED <<worker, service, ids, cur, given, heard, outcomes, crossed, dropped, silenced>>
    BY DEF UiFinishes, history
  <1>3. /\ c' \in Members /\ c'.id = c.id /\ c'.websocket = c.websocket /\ c'.queue = c.queue
        /\ c.session = "streaming" => c'.session = "finishing"
        /\ c.session # "streaming" => c'.session = c.session
    BY <1>1, FinishedIs DEF UiFinishes
  <1>4. /\ ui' \in UiState /\ ui'.id \in {0, c.id}
        /\ \/ ui'.at = "idle" /\ c.session # "streaming"
           \/ ui'.at = "end" /\ ui'.id = c.id /\ c.session = "streaming"
    BY <1>1, PlaceIs, PlaceOfId DEF UiFinishes
  <1>5. TypeOK'
    BY <1>2, <1>3, <1>4 DEF IInv, TypeOK
  <1>6. IdsGrow'
    BY <1>2, <1>3, <1>4, IdsGrowKept DEF IInv
  <1>7. OutcomesLeft'
    BY <1>2, <1>3, OutcomesKept DEF IInv
  <1>8. Starting'
    <2>1. ui'.at \notin Starts
      BY <1>4 DEF Starts
    <2> QED
      BY <1>2, <1>3, <2>1 DEF IInv, Starting, Starts
  <1>9. StartedOnce'
    BY <1>2, <1>3 DEF IInv, StartedOnce
  <1>10. AudioInOrder'
    BY <1>2, HeardKept DEF IInv
  <1>11. FlushFollows'
    BY <1>2 DEF IInv, FlushFollows, Plain, Numbered
  <1>12. ASSUME Plain(c.id), c.session = "streaming"
         PROVE  Len(heard[c.id]) = Chunks
    <2>1. Len(heard[c.id]) + 0 = given
      BY <1>1, <1>12 DEF IInv, SessionFollows
    <2>2. heard[c.id] \in Seq(0..Chunks)
      BY <1>12 DEF IInv, TypeOK, Plain
    <2> QED
      BY <1>1, <2>1, <2>2
  <1>13. UiFollows'
    BY <1>1, <1>2, <1>3, <1>4, <1>12 DEF UiFollows, Plain
  <1>14. SessionFollows'
    <2> SUFFICES ASSUME Plain(c.id)
                 PROVE  SessionFollows'
      BY <1>2, <1>3 DEF SessionFollows, Plain
    <2>1. worker.at \notin Flushes
      BY <1>1
    <2>2. CASE c.session = "streaming"
      BY <1>1, <1>2, <1>3, <1>12, <2>1, <2>2 DEF SessionFollows, Flushes
    <2>3. CASE c.session # "streaming"
      BY <1>1, <1>2, <1>3, <2>1, <2>3 DEF IInv, SessionFollows, Flushes
    <2> QED
      BY <2>2, <2>3
  <1> QED
    BY <1>5, <1>6, <1>7, <1>8, <1>9, <1>10, <1>11, <1>13, <1>14 DEF IInv

-----------------------------------------------------------------------------
(* The worker while it flushes *)

\* The queue is taken with the id of the session, if it still is there.
LEMMA FlushQueuedInv ==
    ASSUME IInv, FlushQueuedAudioChunks
    PROVE  IInv'
  <1>1. /\ c \in Members /\ c.id \in Ids \cup {0} /\ c.queue \in Seq(Chunk) /\ worker.at = "swap"
        /\ given \in 0..Chunks
    BY DEF IInv, TypeOK, FlushQueuedAudioChunks, Members
  <1>2. UNCHANGED <<service, heard, ui, ids, cur, given, outcomes, crossed, dropped, silenced>>
    BY DEF FlushQueuedAudioChunks, local
  <1>3. /\ c' \in Members /\ c'.id = c.id /\ c'.session = c.session /\ c'.websocket = c.websocket
        /\ c'.queue = <<>>
    <2>1. <<>> \in Seq(Chunk)
      OBVIOUS
    <2> QED
      BY <1>1, <2>1 DEF FlushQueuedAudioChunks, Members
  <1>4. /\ worker' \in WorkerState /\ worker'.at = "flush" /\ worker'.id = c.id
        /\ worker'.chunks = c.queue /\ ~TellsOutcome'
    <2> DEFINE w == WorkerAt("flush")
    <2>1. "flush" \in Flushes
      BY DEF Flushes
    <2>2. w \in WorkerState /\ w.at = "flush"
      BY <2>1, PlaceIs
    <2>3. worker' = [w EXCEPT !.id = c.id, !.chunks = c.queue]
      BY DEF FlushQueuedAudioChunks, Flushing
    <2> HIDE DEF w
    <2>4. /\ worker' \in WorkerState /\ worker'.at = "flush" /\ worker'.id = c.id
          /\ worker'.chunks = c.queue
      BY <1>1, <2>2, <2>3 DEF WorkerState
    <2> QED
      BY <2>4 DEF TellsOutcome
  <1>5. worker'.at \in Flushes \ {"swap"} /\ worker.at \in Flushes
    BY <1>1, <1>4 DEF Flushes
  <1>6. TypeOK'
    BY <1>2, <1>3, <1>4 DEF IInv, TypeOK
  <1>7. IdsGrow'
    BY <1>2, <1>3, <1>4, IdsGrowKept DEF IInv
  <1>8. OutcomesLeft'
    BY <1>2, <1>3, <1>4, OutcomesKept DEF IInv
  <1>9. Starting'
    BY <1>1, <1>2, <1>3, <1>4 DEF IInv, Starting
  <1>10. StartedOnce'
    BY <1>2, <1>3 DEF IInv, StartedOnce
  <1>11. AudioInOrder'
    BY <1>2, HeardKept DEF IInv
  <1>12. ASSUME Plain(c.id)
         PROVE  /\ heard[c.id] = <<>> /\ Numbered(c.queue, 0) /\ Len(c.queue) = given
                /\ c.session = "streaming"
    BY <1>1, <1>12 DEF IInv, SessionFollows
  <1>13. FlushFollows'
    <2> SUFFICES ASSUME Plain(c.id)
                 PROVE  /\ Numbered(c.queue, Len(heard[c.id]))
                        /\ Len(heard[c.id]) + Len(c.queue) <= Chunks
      BY <1>2, <1>4 DEF FlushFollows, Plain, Numbered
    <2>1. Len(heard[c.id]) = 0
      BY <1>12
    <2> QED
      BY <1>1, <1>12, <2>1, Bounds
  <1>14. UiFollows'
    BY <1>2, <1>3, <1>5 DEF IInv, UiFollows, Plain
  <1>15. SessionFollows'
    <2> SUFFICES ASSUME Plain(c.id)
                 PROVE  SessionFollows'
      BY <1>2, <1>3 DEF SessionFollows, Plain
    <2>1. Len(heard[c.id]) + Len(c.queue) = given
      <3>1. Len(heard[c.id]) = 0 /\ Len(c.queue) = given /\ given \in Nat
        BY <1>1, <1>12, Bounds
      <3> QED
        BY <3>1
    <2> QED
      BY <1>2, <1>3, <1>4, <1>5, <1>12, <2>1 DEF SessionFollows
  <1> QED
    BY <1>6, <1>7, <1>8, <1>9, <1>10, <1>11, <1>13, <1>14, <1>15 DEF IInv

\* Taking the first piece off what is numbered.
LEMMA NumberedTail ==
    ASSUME NEW q \in Seq(Chunk), q # <<>>, NEW k \in Nat, Numbered(q, k)
    PROVE  /\ Head(q) = Piece(k + 1) /\ Head(q) \in Chunk
           /\ Tail(q) \in Seq(Chunk) /\ Len(q) \in Nat /\ Len(Tail(q)) = Len(q) - 1 /\ Len(q) > 0
           /\ Numbered(Tail(q), k + 1)
  <1>1. /\ Len(q) \in Nat /\ Len(q) > 0 /\ Head(q) = q[1] /\ Head(q) \in Chunk
        /\ Tail(q) \in Seq(Chunk) /\ Len(Tail(q)) = Len(q) - 1
    OBVIOUS
  <1>2. Head(q) = Piece(k + 1)
    BY <1>1 DEF Numbered
  <1>3. Numbered(Tail(q), k + 1)
    <2> SUFFICES ASSUME NEW i \in 1..Len(Tail(q))
                 PROVE  Tail(q)[i] = Piece(k + 1 + i)
      BY DEF Numbered
    <2>1. i + 1 \in 1..Len(q) /\ k + (i + 1) = k + 1 + i
      BY <1>1
    <2>2. Tail(q)[i] = q[i + 1]
      BY <1>1
    <2>3. q[i + 1] = Piece(k + (i + 1))
      BY <2>1 DEF Numbered
    <2> QED
      BY <2>1, <2>2, <2>3
  <1> QED
    BY <1>1, <1>2, <1>3

\* The worker sends the first piece it took.
LEMMA FlushSendsInv ==
    ASSUME IInv, FlushSends
    PROVE  IInv'
  <1>1. /\ worker \in WorkerState /\ worker.at = "flush" /\ worker.chunks \in Seq(Chunk)
        /\ worker.chunks # <<>> /\ worker.id \in Ids \cup {0} /\ given \in 0..Chunks
        /\ worker.at \in Flushes \ {"swap"}
    BY DEF IInv, TypeOK, WorkerState, FlushSends, Flushes
  <1>2. PICK i \in Ids \cup {0} : i = worker.id
    BY <1>1
  <1>3. PICK q : q = worker.chunks
    OBVIOUS
  <1>4. CASE WorkerFails
    BY <1>1, <1>4, WorkerFailsInv DEF FlushSends
  <1>5. CASE /\ worker' = (IF Head(q).last THEN [[worker EXCEPT !.chunks = Tail(@)] EXCEPT !.at = "flushfinish"]
                           ELSE [worker EXCEPT !.chunks = Tail(@)])
             /\ service' = service /\ c' = c
             /\ heard' = (IF worker.id = 0 THEN heard ELSE Hears(worker.id, Head(q)))
    <2>1. UNCHANGED <<ui, ids, cur, given, outcomes, crossed, dropped, silenced>>
      BY DEF FlushSends, local
    <2>2. q \in Seq(Chunk) /\ q # <<>> /\ Head(q) \in Chunk /\ Tail(q) \in Seq(Chunk)
      BY <1>1, <1>3
    <2>3. /\ worker' \in WorkerState /\ worker'.id = i /\ worker'.chunks = Tail(q)
          /\ worker'.at \in {"flush", "flushfinish"} /\ ~TellsOutcome'
          /\ worker'.at = "flushfinish" => Head(q).last
      <3>1. /\ worker' \in WorkerState /\ worker'.id = worker.id /\ worker'.chunks = Tail(q)
            /\ worker'.at \in {"flush", "flushfinish"}
            /\ worker'.at = "flushfinish" => Head(q).last
        <4>1. CASE Head(q).last
          BY <1>1, <1>3, <1>5, <2>2, <4>1 DEF WorkerState, Flushes
        <4>2. CASE ~Head(q).last
          BY <1>1, <1>3, <1>5, <2>2, <4>2 DEF WorkerState
        <4> QED
          BY <4>1, <4>2
      <3> QED
        BY <1>2, <3>1 DEF TellsOutcome
    <2>4. worker'.at \in Flushes \ {"swap"}
      BY <2>3 DEF Flushes
    <2>5. /\ heard' \in [Ids -> Seq(0..Chunks)]
          /\ \A id \in Ids : id # i => heard'[id] = heard[id]
      <3>1. CASE i = 0
        BY <1>2, <1>5, <3>1 DEF IInv, TypeOK
      <3>2. CASE i # 0
        BY <1>2, <1>5, <2>2, <3>2, HearsIs DEF IInv
      <3> QED
        BY <3>1, <3>2
    <2>6. ASSUME Plain(i)
          PROVE  /\ Len(heard[i]) \in Nat /\ Len(heard'[i]) = Len(heard[i]) + 1
                 /\ Len(q) \in Nat /\ Len(q) > 0 /\ Len(Tail(q)) = Len(q) - 1
                 /\ Numbered(Tail(q), Len(heard[i]) + 1)
                 /\ Len(heard[i]) + Len(q) <= Chunks
                 /\ (Head(q).last => Len(heard[i]) + 1 = Chunks)
                 /\ InOrder(i)'
      <3>1. /\ Numbered(q, Len(heard[i])) /\ Len(heard[i]) + Len(q) <= Chunks /\ i \in Ids
        BY <1>1, <1>2, <1>3, <2>6 DEF IInv, FlushFollows, Plain
      <3>2. Len(heard[i]) \in Nat /\ i # 0
        BY <3>1, Bounds DEF IInv, TypeOK
      <3>3. /\ Head(q) = Piece(Len(heard[i]) + 1) /\ Len(q) \in Nat /\ Len(q) > 0
            /\ Len(Tail(q)) = Len(q) - 1 /\ Numbered(Tail(q), Len(heard[i]) + 1)
        BY <2>2, <3>1, <3>2, NumberedTail
      <3>4. Len(heard[i]) + 1 \in 0..Chunks
        BY <3>1, <3>2, <3>3, Bounds
      <3>5. Head(q).n = Len(heard[i]) + 1 /\ (Head(q).last => Len(heard[i]) + 1 = Chunks)
        BY <3>3, <3>4, PieceIs
      <3>6. InOrder(i)
        BY <2>6 DEF IInv, AudioInOrder, Plain
      <3>7. heard' = Hears(i, Head(q))
        BY <1>2, <1>5, <3>2
      <3>8. /\ Len(heard'[i]) = Len(heard[i]) + 1
            /\ (InOrder(i) /\ Head(q).n = Len(heard[i]) + 1 => InOrder(i)')
        BY <2>2, <3>1, <3>7, HearsIs DEF IInv
      <3> QED
        BY <3>1, <3>2, <3>3, <3>5, <3>6, <3>8
    <2>7. TypeOK'
      BY <1>5, <2>1, <2>3, <2>5 DEF IInv, TypeOK
    <2>8. IdsGrow'
      <3>1. ids \in Nat /\ i <= ids
        BY <1>2, Bounds DEF IInv, TypeOK, IdsGrow
      <3>2. i \in Nat /\ Ids \subseteq Nat
        BY Bounds
      <3>3. \A id \in Ids : id > ids => id # i
        BY <3>1, <3>2
      <3> QED
        BY <1>5, <2>1, <2>3, <2>5, <3>1, <3>3 DEF IInv, IdsGrow
    <2>9. OutcomesLeft'
      BY <1>5, <2>1, <2>3, OutcomesKept DEF IInv
    <2>10. Starting'
      BY <1>1, <1>5, <2>1, <2>3, StartingKept DEF IInv
    <2>11. StartedOnce'
      BY <1>5 DEF IInv, StartedOnce
    <2>12. AudioInOrder'
      <3> SUFFICES ASSUME NEW id \in Ids, id \notin crossed
                   PROVE  InOrder(id)' /\ (service.session[id] = "ended" => Len(heard'[id]) = Chunks)
        BY <1>5, <2>1 DEF AudioInOrder
      <3>1. CASE id = i
        <4>1. Plain(i)
          BY <3>1 DEF Plain
        <4>2. Len(heard[i]) # Chunks
          BY <2>6, <4>1, Bounds
        <4>3. service.session[id] # "ended"
          BY <3>1, <4>2 DEF IInv, AudioInOrder
        <4> QED
          BY <2>6, <3>1, <4>1, <4>3
      <3>2. CASE id # i
        BY <2>5, <3>2 DEF IInv, AudioInOrder, InOrder
      <3> QED
        BY <3>1, <3>2
    <2>13. FlushFollows'
      <3> SUFFICES ASSUME Plain(i)
                   PROVE  /\ Numbered(Tail(q), Len(heard'[i]))
                          /\ Len(heard'[i]) + Len(Tail(q)) <= Chunks
                          /\ worker'.at # "flush" => Len(heard'[i]) = Chunks
        BY <2>1, <2>3 DEF FlushFollows, Plain, Numbered
      <3>1. Len(heard'[i]) + Len(Tail(q)) = Len(heard[i]) + Len(q)
        <4>1. /\ Len(heard[i]) \in Nat /\ Len(heard'[i]) = Len(heard[i]) + 1
              /\ Len(q) \in Nat /\ Len(Tail(q)) = Len(q) - 1
          BY <2>6
        <4> DEFINE m == Len(heard[i])
                   n == Len(q)
                   j == Len(heard'[i])
                   k == Len(Tail(q))
        <4>2. m \in Nat /\ n \in Nat /\ j = m + 1 /\ k = n - 1
          BY <4>1
        <4> HIDE DEF m, n, j, k
        <4>3. j + k = m + n
          BY <4>2
        <4> QED
          BY <4>3 DEF m, n, j, k
      <3> QED
        BY <2>3, <2>6, <3>1
    <2>14. UiFollows'
      <3>1. ui.at = "send" => ~Plain(ui.id)
        BY <1>1 DEF IInv, UiFollows
      <3>2. ui.at = "end" /\ Plain(ui.id) => Len(heard'[ui.id]) = Chunks
        <4> SUFFICES ASSUME ui.at = "end", Plain(ui.id)
                     PROVE  Len(heard'[ui.id]) = Chunks
          OBVIOUS
        <4>1. Len(heard[ui.id]) = Chunks
          BY DEF IInv, UiFollows
        <4>2. Plain(i) => Len(heard[i]) # Chunks
          BY <2>6, Bounds
        <4>3. ui.id # i
          BY <4>1, <4>2
        <4> QED
          BY <2>5, <4>1, <4>3 DEF Plain
      <3> QED
        BY <1>1, <1>5, <2>1, <2>4, <3>1, <3>2 DEF IInv, UiFollows, Plain
    <2>15. SessionFollows'
      <3> SUFFICES ASSUME Plain(c.id)
                   PROVE  SessionFollows'
        BY <1>5, <2>1 DEF SessionFollows, Plain
      <3>1. c.id = i
        BY <1>1, <1>2 DEF IInv, SessionFollows
      <3>2. c.session # "starting"
        BY <1>1 DEF IInv, SessionFollows
      <3>3. c.session # "finishing"
        BY <2>6, <3>1, Bounds DEF IInv, SessionFollows
      <3>4. c.session = "streaming" => Len(heard'[c.id]) + Len(Tail(q)) = given
        <4>1. c.session = "streaming" => Len(heard[c.id]) + Len(q) = given
          BY <1>1, <1>3 DEF IInv, SessionFollows
        <4>2. /\ Len(heard[i]) \in Nat /\ Len(heard'[i]) = Len(heard[i]) + 1
              /\ Len(q) \in Nat /\ Len(Tail(q)) = Len(q) - 1
          BY <2>6, <3>1
        <4>3. Len(heard'[i]) + Len(Tail(q)) = Len(heard[i]) + Len(q)
          <5> DEFINE m == Len(heard[i])
                     n == Len(q)
                     j == Len(heard'[i])
                     k == Len(Tail(q))
          <5>1. m \in Nat /\ n \in Nat /\ j = m + 1 /\ k = n - 1
            BY <4>2
          <5> HIDE DEF m, n, j, k
          <5>2. j + k = m + n
            BY <5>1
          <5> QED
            BY <5>2 DEF m, n, j, k
        <4> QED
          BY <3>1, <4>1, <4>3
      <3> QED
        BY <1>5, <2>1, <2>3, <2>4, <3>1, <3>2, <3>3, <3>4 DEF SessionFollows
    <2> QED
      BY <2>7, <2>8, <2>9, <2>10, <2>11, <2>12, <2>13, <2>14, <2>15 DEF IInv
  <1> QED
    BY <1>3, <1>4, <1>5 DEF FlushSends, WorkerSends

\* The worker has sent the last piece, and ends whatever session there is.
LEMMA WorkerFinishesInv ==
    ASSUME IInv, WorkerFinishes
    PROVE  IInv'
  <1>1. /\ c \in Members /\ c.id \in Ids \cup {0} /\ worker \in WorkerState
        /\ worker.at = "flushfinish" /\ worker.at \in Flushes \ {"swap"}
        /\ worker.id \in Ids \cup {0} /\ given \in 0..Chunks
    BY DEF IInv, TypeOK, WorkerFinishes, Members, WorkerState, Flushes
  <1>2. UNCHANGED <<service, heard, ui, ids, cur, given, outcomes, crossed, dropped, silenced>>
    BY DEF WorkerFinishes, local
  <1>3. /\ c' \in Members /\ c'.id = c.id /\ c'.websocket = c.websocket
        /\ c.session # "starting" => c'.queue = c.queue
        /\ c.session = "streaming" => c'.session = "finishing"
        /\ c.session # "streaming" => c'.session = c.session
    BY <1>1, FinishedIs DEF WorkerFinishes
  <1>4. /\ worker' \in WorkerState /\ worker'.chunks = worker.chunks
        /\ \/ /\ worker'.at = "flushend" /\ worker'.id = c.id /\ c.session = "streaming"
           \/ /\ worker'.at = "flush" /\ worker'.id = worker.id /\ c.session # "streaming"
    <2>1. CASE c.session = "streaming"
      <3>1. worker' = [worker EXCEPT !.at = "flushend", !.id = c.id]
        BY <2>1 DEF WorkerFinishes
      <3>2. "flushend" \in Flushes
        BY DEF Flushes
      <3> QED
        BY <1>1, <2>1, <3>1, <3>2 DEF WorkerState
    <2>2. CASE c.session # "streaming"
      <3>1. worker' = [worker EXCEPT !.at = "flush"]
        BY <2>2 DEF WorkerFinishes
      <3>2. "flush" \in Flushes
        BY DEF Flushes
      <3> QED
        BY <1>1, <2>2, <3>1, <3>2 DEF WorkerState
    <2> QED
      BY <2>1, <2>2
  <1>5. worker'.at \in Flushes \ {"swap"} /\ ~TellsOutcome'
    BY <1>4 DEF Flushes, TellsOutcome
  <1>6. ASSUME Plain(worker.id)
        PROVE  /\ Numbered(worker.chunks, Len(heard[worker.id]))
               /\ Len(heard[worker.id]) + Len(worker.chunks) <= Chunks
               /\ Len(heard[worker.id]) = Chunks
    BY <1>1, <1>6 DEF IInv, FlushFollows
  <1>7. Plain(c.id) => worker.id = c.id /\ c.session # "starting"
    BY <1>1 DEF IInv, SessionFollows
  <1>8. TypeOK'
    BY <1>2, <1>3, <1>4 DEF IInv, TypeOK
  <1>9. IdsGrow'
    BY <1>2, <1>3, <1>4, IdsGrowKept DEF IInv
  <1>10. OutcomesLeft'
    BY <1>2, <1>3, <1>5, OutcomesKept DEF IInv
  <1>11. Starting'
    BY <1>1, <1>2, <1>3, <1>4 DEF IInv, Starting
  <1>12. StartedOnce'
    BY <1>2, <1>3 DEF IInv, StartedOnce
  <1>13. AudioInOrder'
    BY <1>2, HeardKept DEF IInv
  <1>14. FlushFollows'
    <2> SUFFICES ASSUME Plain(worker'.id)
                 PROVE  /\ Numbered(worker.chunks, Len(heard[worker'.id]))
                        /\ Len(heard[worker'.id]) + Len(worker.chunks) <= Chunks
                        /\ Len(heard[worker'.id]) = Chunks
      BY <1>2, <1>4 DEF FlushFollows, Plain, Numbered
    <2>1. worker'.id = worker.id
      BY <1>4, <1>7
    <2> QED
      BY <1>6, <2>1
  <1>15. UiFollows'
    <2>1. ui.at = "send" => ~Plain(ui.id)
      BY <1>1 DEF IInv, UiFollows
    <2>2. ui.at \in {"send", "finish", "end"} => c'.session # "starting" /\ ~Plain(c.id)
      BY <1>1, <1>3 DEF IInv, UiFollows
    <2> QED
      BY <1>2, <1>3, <2>1, <2>2 DEF IInv, UiFollows, Plain
  <1>16. SessionFollows'
    <2> SUFFICES ASSUME Plain(c.id)
                 PROVE  SessionFollows'
      BY <1>2, <1>3 DEF SessionFollows, Plain
    <2>1. worker'.id = c.id /\ c'.session \notin {"starting", "streaming"}
      BY <1>3, <1>4, <1>7
    <2>2. c.session = "streaming" => given = Chunks
      <3> SUFFICES ASSUME c.session = "streaming"
                   PROVE  given = Chunks
        OBVIOUS
      <3>1. Len(heard[c.id]) + Len(worker.chunks) = given
        BY <1>1 DEF IInv, SessionFollows
      <3>2. Len(heard[c.id]) = Chunks /\ Len(heard[c.id]) + Len(worker.chunks) <= Chunks
        BY <1>6, <1>7
      <3>3. Len(worker.chunks) \in Nat
        BY <1>1 DEF WorkerState
      <3> QED
        BY <3>1, <3>2, <3>3, Bounds
    <2>3. c'.session = "finishing" => Len(heard[c.id]) = Chunks /\ given = Chunks
      <3>1. Len(heard[c.id]) = Chunks
        BY <1>6, <1>7
      <3>2. CASE c.session = "streaming"
        BY <2>2, <3>1, <3>2
      <3>3. CASE c.session # "streaming"
        BY <1>3, <3>1, <3>3 DEF IInv, SessionFollows
      <3> QED
        BY <3>2, <3>3
    <2> QED
      BY <1>2, <1>3, <1>5, <2>1, <2>3 DEF SessionFollows
  <1> QED
    BY <1>8, <1>9, <1>10, <1>11, <1>12, <1>13, <1>14, <1>15, <1>16 DEF IInv

\* The worker tells the service that the session ends.
LEMMA WorkerEndsInv ==
    ASSUME IInv, WorkerEnds
    PROVE  IInv'
  <1>1. /\ worker \in WorkerState /\ worker.at = "flushend" /\ worker.at \in Flushes \ {"swap"}
        /\ worker.id \in Ids \cup {0}
    BY DEF IInv, TypeOK, WorkerEnds, WorkerState, Flushes
  <1>2. PICK i \in Ids \cup {0} : i = worker.id
    BY <1>1
  <1>3. CASE WorkerFails
    BY <1>1, <1>3, WorkerFailsInv DEF WorkerEnds
  <1>4. CASE /\ worker' = [worker EXCEPT !.at = "flush"] /\ service' = Ends(worker.id)
             /\ heard' = heard /\ c' = c
    <2>1. UNCHANGED <<ui, ids, cur, given, outcomes, crossed, dropped, silenced>>
      BY DEF WorkerEnds, local
    <2>2. /\ worker' \in WorkerState /\ worker'.at = "flush" /\ worker'.id = worker.id
          /\ worker'.chunks = worker.chunks
      <3>1. "flush" \in Flushes
        BY DEF Flushes
      <3> QED
        BY <1>1, <1>4, <3>1 DEF WorkerState
    <2>3. worker'.at \in Flushes \ {"swap"} /\ ~TellsOutcome'
      BY <2>2 DEF Flushes, TellsOutcome
    <2>4. service' = Ends(i)
      BY <1>2, <1>4
    <2>5. service' \in ServiceState
      BY <2>4, EndsIs
    <2>6. TypeOK'
      BY <1>4, <2>1, <2>2, <2>5 DEF IInv, TypeOK
    <2>7. IdsGrow'
      BY <1>4, <2>1, <2>2, IdsGrowKept DEF IInv
    <2>8. OutcomesLeft'
      BY <1>4, <2>1, <2>3, OutcomesKept DEF IInv
    <2>9. Starting'
      BY <1>1, <1>4, <2>1, <2>2 DEF IInv, Starting
    <2>10. Plain(i) => Len(heard[i]) = Chunks
      BY <1>1, <1>2 DEF IInv, FlushFollows
    <2>11. AudioInOrder' /\ StartedOnce'
      BY <1>4, <2>1, <2>4, <2>10, EndsHeard
    <2>12. FlushFollows'
      <3>1. PICK q : q = worker.chunks
        OBVIOUS
      <3>2. worker'.id = i /\ worker'.chunks = q /\ heard' = heard /\ crossed' = crossed
        BY <1>2, <1>4, <2>1, <2>2, <3>1
      <3>3. Plain(i) => Numbered(q, Len(heard[i])) /\ Len(heard[i]) + Len(q) <= Chunks
        BY <1>1, <1>2, <3>1 DEF IInv, FlushFollows
      <3> QED
        BY <2>2, <3>2, <3>3 DEF FlushFollows, Plain, Numbered
    <2>13. UiFollows'
      BY <1>1, <1>4, <2>1, <2>3 DEF IInv, UiFollows, Plain
    <2>14. SessionFollows'
      BY <1>1, <1>4, <2>1, <2>2, <2>3 DEF IInv, SessionFollows, Plain, Numbered
    <2> QED
      BY <2>6, <2>7, <2>8, <2>9, <2>11, <2>12, <2>13, <2>14 DEF IInv
  <1> QED
    BY <1>3, <1>4 DEF WorkerEnds, WorkerSends

\* Nothing is left to send.
LEMMA FlushedInv ==
    ASSUME IInv, Flushed
    PROVE  IInv'
  <1>1. worker.at = "flush" /\ worker.at \in Flushes \ {"swap"} /\ worker.chunks = <<>>
    BY DEF Flushed, Flushes
  <1>2. UNCHANGED <<c, service, heard, ui, ids, cur, given, outcomes, crossed, dropped, silenced>>
    BY DEF Flushed, local
  <1>3. /\ worker' \in WorkerState /\ worker'.at = "loop" /\ worker'.id = 0 /\ ~TellsOutcome'
        /\ worker'.at \notin Flushes \cup {"none", "handshake"}
    BY WorkerPlaced DEF Flushed
  <1>4. TypeOK'
    BY <1>2, <1>3 DEF IInv, TypeOK
  <1>5. IdsGrow'
    BY <1>2, <1>3, IdsGrowKept DEF IInv
  <1>6. OutcomesLeft'
    BY <1>2, <1>3, OutcomesKept DEF IInv
  <1>7. Starting'
    BY <1>1, <1>2, <1>3 DEF IInv, Starting
  <1>8. StartedOnce' /\ AudioInOrder'
    BY <1>2, HeardKept DEF IInv, StartedOnce
  <1>9. FlushFollows'
    BY <1>3 DEF FlushFollows
  <1>10. UiFollows'
    BY <1>2, <1>3 DEF IInv, UiFollows, Plain
  <1>11. SessionFollows'
    <2> SUFFICES ASSUME Plain(c.id)
                 PROVE  SessionFollows'
      BY <1>2 DEF SessionFollows, Plain
    <2>1. ui.at # "send" /\ c.session # "starting"
      BY <1>1 DEF IInv, UiFollows, SessionFollows
    <2>2. c.session = "streaming" => Len(heard[c.id]) + 0 = given
      <3>1. c.session = "streaming" => Len(heard[c.id]) + Len(worker.chunks) = given
        BY <1>1 DEF IInv, SessionFollows
      <3>2. Len(worker.chunks) = 0
        BY <1>1
      <3> QED
        BY <3>1, <3>2
    <2>3. c.session = "finishing" => Len(heard[c.id]) = Chunks /\ given = Chunks
      BY DEF IInv, SessionFollows
    <2> QED
      BY <1>2, <1>3, <2>1, <2>2, <2>3 DEF SessionFollows, Flushes
  <1> QED
    BY <1>4, <1>5, <1>6, <1>7, <1>8, <1>9, <1>10, <1>11 DEF IInv

-----------------------------------------------------------------------------
(* Every step, and the theorems *)

\* The client before the first session.
LEMMA InitInv == ASSUME Init PROVE IInv
  <1>1. <<>> \in Seq(Chunk) /\ <<>> \in Seq(0..Chunks) /\ FALSE \in BOOLEAN
    OBVIOUS
  <1>2. c \in Members
    BY <1>1 DEF Init, Members
  <1>3. /\ ui \in UiState /\ ui.at = "idle" /\ ui.id = 0
        /\ worker \in WorkerState /\ worker.at = "none" /\ worker.id = 0
        /\ ui.at \notin Starts /\ worker.at \notin Flushes
    BY PlaceIs DEF Init, Starts, Flushes
  <1>4. service \in ServiceState /\ \A id \in Ids : service.session[id] = "none"
    BY DEF Init, NoSessions, ServiceState
  <1>5. TypeOK
    BY <1>1, <1>2, <1>3, <1>4, Bounds DEF Init, TypeOK
  <1>6. c.id = 0 /\ c.session = "idle" /\ ~c.websocket
    BY DEF Init
  <1>7. IdsGrow
    BY <1>3, <1>6, Bounds DEF Init, IdsGrow
  <1>8. OutcomesLeft
    BY <1>3, <1>6, Bounds DEF Init, OutcomesLeft, TellsOutcome
  <1>9. Starting /\ StartedOnce
    BY <1>3, <1>6 DEF Starting, StartedOnce, Starts
  <1>10. FlushFollows /\ UiFollows /\ SessionFollows
    BY <1>3, <1>6, Bounds DEF FlushFollows, UiFollows, SessionFollows, Plain
  <1>11. AudioInOrder
    BY <1>4 DEF Init, AudioInOrder, InOrder
  <1> QED
    BY <1>5, <1>7, <1>8, <1>9, <1>10, <1>11 DEF IInv

\* A step that changes nothing.
LEMMA StutterInv == ASSUME IInv, UNCHANGED vars PROVE IInv'
  <1>1. /\ UNCHANGED <<c, ui, worker, service, ids, cur, given>>
        /\ UNCHANGED <<heard, outcomes, crossed, dropped, silenced>>
    BY DEF vars, history
  <1>2. TypeOK'
    BY <1>1 DEF IInv, TypeOK
  <1>3. IdsGrow' /\ OutcomesLeft'
    BY <1>1, IdsGrowKept, OutcomesKept DEF IInv
  <1>4. Starting' /\ StartedOnce' /\ AudioInOrder'
    BY <1>1, StartingKept, HeardKept DEF IInv, StartedOnce
  <1>5. FlushFollows' /\ UiFollows' /\ SessionFollows'
    BY <1>1, AudioKept DEF IInv
  <1> QED
    BY <1>2, <1>3, <1>4, <1>5 DEF IInv

\* Every step keeps the invariant, and so does a step that changes nothing.
LEMMA NextInv == ASSUME IInv, [Next]_vars PROVE IInv'
  <1>1. CASE StartReusableSession \/ StartRefused \/ SendReusableAudio \/ Cancel
    BY <1>1, StartInv, CancelInv, GiveInv
  <1>2. CASE UiSteps
    BY <1>2, UiFrameInv, ShutdownInv, LaunchInv, AudioSendsInv, UiFinishesInv DEF UiSteps
  <1>3. CASE WorkerSteps
    BY <1>3, HandshakeInv, LoopInv, FailureInv, WorkerStartsInv, FlushQueuedInv, FlushSendsInv,
       WorkerFinishesInv, WorkerEndsInv, FlushedInv, CallbackInv DEF WorkerSteps
  <1>4. CASE ServiceAnswers
    BY <1>4, ConnectionInv, SessionStartedInv, AsrResponseInv, SessionSettledInv
       DEF ServiceAnswers
  <1>5. CASE ReceivesError \/ ConnectionFinished
    BY <1>5, ConnectionInv
  <1>6. CASE \E id \in Ids : SessionCanceled(id)
    BY <1>6, SessionSettledInv
  <1>7. CASE UNCHANGED vars
    BY <1>7, StutterInv
  <1> QED
    BY <1>1, <1>2, <1>3, <1>4, <1>5, <1>6, <1>7 DEF Next

\* The inductive invariant holds throughout.
THEOREM Invariant == Spec => []IInv
  <1>1. IInv /\ [Next]_vars => IInv'
    BY NextInv
  <1> QED
    BY <1>1, InitInv, PTL DEF Spec

\* Every variable keeps its type: the ids stay within their bound, and the pieces
\* within a session.
THEOREM TypeCorrect == Spec => []TypeOK
  <1>1. IInv => TypeOK
    BY DEF IInv
  <1> QED
    BY <1>1, Invariant, PTL

\* A session comes to at most one outcome, whichever threads find the connection
\* broken and whatever the service still answers.
THEOREM OneOutcome == Spec => []OutcomeOnce
  <1>1. IInv => OutcomeOnce
    BY DEF IInv, OutcomesLeft, OutcomeOnce
  <1> QED
    BY <1>1, Invariant, PTL

\* The service hears the audio of a session in order, and all of it before the end,
\* unless the UI thread served the session while the worker flushed a queue.
THEOREM AudioHeardInOrder == Spec => []AudioInOrder
  <1>1. IInv => AudioInOrder
    BY DEF IInv
  <1> QED
    BY <1>1, Invariant, PTL
=============================================================================
