--------------------------- MODULE VoiceBleProofs ---------------------------
(***************************************************************************)
(* Theorems about VoiceBle, for any number of links, any bound on the      *)
(* events of the central and any loads.                                    *)
(***************************************************************************)
EXTENDS VoiceBle, TLAPS, SequenceTheorems

-----------------------------------------------------------------------------
(* The inductive invariant *)

\* The events that wait for the host task.
Entries(q) == {q[i] : i \in 1..Len(q)}
Waiting    == Entries(events)

\* Events of a link, events that start advertising without one, and the late
\* timeout, which may come at any time.
LinkEvents == {"connect", "disconnect", "subscribe", "control", "ota", "notifyTx", "connUpdate"}
Starters   == {"sync", "connectFailed", "advRetry"}

\* What may be queued before what: a link begins with its connection and ends
\* with its disconnection, and there is one thing to start advertising with.
Before(e, f) ==
    /\ e.type \in Starters \cup {"disconnect"} => f.type = "readyTimeout"
    /\ f.type \in Starters \cup {"connect"} => e.type = "readyTimeout"
    /\ e.type = "connect" => f.type # "readyTimeout"
    /\ e.type = "connUpdate" => f.type # "connUpdate"

Ordered(q) == \A i, j \in 1..Len(q) : i < j => Before(q[i], q[j])

\* The host task has no link to hear of.
Quiet == link = 0 /\ \A e \in Waiting : e.type # "disconnect"

\* Only the newest link has events, and its last one is its disconnection.
EventsOfLink ==
    /\ \A e \in Waiting : e.type \in LinkEvents => e.link = links /\ links # 0
    /\ \A e \in Waiting : e.type = "ota" => e.target \in {"fast", "slow"}
    /\ link # 0 => link = links /\ \A e \in Waiting : e.type # "disconnect"
    /\ cutting \in {0, link}
    /\ onAir > 0 => link # 0

\* Without a link nothing but the start of advertising, and a late timeout,
\* is queued; advertising and its retry are one at a time.
QuietLink ==
    /\ Quiet => conn = 0 /\ \A e \in Waiting : e.type \in Starters \cup {"readyTimeout"}
    /\ adv \/ retryTimer => \A e \in Waiting : e.type = "readyTimeout"
    /\ ~(adv /\ retryTimer)

\* With one the host task knows it from its connection to its disconnection.
BusyLink ==
    ~Quiet => /\ ~adv /\ ~retryTimer
              /\ \A e \in Waiting : e.type \notin Starters
              /\ (conn = 0 <=> \E e \in Waiting : e.type = "connect")
              /\ conn \in {0, links}

\* The timeout is the one of the link the host task knows.
TimeoutOfLink ==
    /\ readyTimer # 0 => conn # 0 /\ readyTimer = links
    /\ conn # 0 => \A e \in Waiting : e.type = "readyTimeout" => e.link = links

\* A target that is written while the host task has no link belongs to a call
\* that will fail.
TargetOfLink ==
    conn = 0 => /\ request["host"] = "idle"
                /\ s_itvl_target = "none" \/ Excused \/ request["app"] = "call"

\* An update is one of the link, and its end is told after it.
UpdateOfLink ==
    /\ updating # "none" => link # 0 /\ conn = link
    /\ \A e \in Waiting : e.type = "connUpdate" /\ link # 0
                          => updating # "none" /\ (itvl = updating \/ Excused)

\* A request on its way to the stack or to its deferral.
Underway(k) == request[k] \in {"set", "call", "defer"}

\* When none is, the target is the interval in use or the one negotiated, or a
\* deferral will be found when the update ends.
TargetReached ==
    conn # 0 /\ conn = link /\ s_itvl_target # "none" /\ ~Underway("host") /\ ~Underway("app")
        => \/ Excused
           \/ updating = s_itvl_target
           \/ updating = "none" /\ itvl = s_itvl_target
           \/ s_itvl_update_pending /\ (updating # "none" \/ request["host"] = "check")

Negotiation == TargetOfLink /\ UpdateOfLink /\ TargetReached

\* What the queue, the link and advertising are to each other.
Structure == Ordered(events) /\ EventsOfLink /\ QuietLink /\ BusyLink /\ CanBeFound

IInv == TypeOK /\ Structure /\ TimeoutOfLink /\ Negotiation /\ ReadyTold

-----------------------------------------------------------------------------
(* The queue *)

\* An event of a link.
LEMMA EventIs ==
    ASSUME NEW type \in EventTypes, NEW l \in 0..MaxLinks
    PROVE  Event(type, l) \in Events /\ Event(type, l).type = type /\ Event(type, l).link = l
  <1>1. FALSE \in BOOLEAN /\ "audio" \in Attributes /\ "none" \in Targets
    BY DEF Attributes, Targets
  <1> QED
    BY <1>1 DEF Event, Events

\* Appending an event that may come after all of them keeps the order.
LEMMA QueueAppend ==
    ASSUME NEW q \in Seq(Events), NEW e \in Events, Ordered(q),
           \A f \in Entries(q) : Before(f, e)
    PROVE  /\ Append(q, e) \in Seq(Events) /\ Ordered(Append(q, e))
           /\ Entries(Append(q, e)) = Entries(q) \cup {e}
  <1> DEFINE r == Append(q, e)
  <1>1. r \in Seq(Events) /\ Len(q) \in Nat /\ Len(r) = Len(q) + 1
    BY AppendProperties, LenProperties
  <1>2. r[Len(q) + 1] = e /\ \A i \in 1..Len(q) : r[i] = q[i]
    BY AppendProperties
  <1> HIDE DEF r
  <1>3. Entries(r) = Entries(q) \cup {e}
    <2>1. \A i \in 1..Len(r) : r[i] \in Entries(q) \cup {e}
      <3> SUFFICES ASSUME NEW i \in 1..Len(r) PROVE r[i] \in Entries(q) \cup {e}
        OBVIOUS
      <3>1. i \in 1..Len(q) \/ i = Len(q) + 1
        BY <1>1
      <3> QED
        BY <3>1, <1>2 DEF Entries
    <2>2. Entries(q) \subseteq Entries(r)
      BY <1>1, <1>2 DEF Entries
    <2>3. e \in Entries(r)
      BY <1>1, <1>2 DEF Entries
    <2> QED
      BY <2>1, <2>2, <2>3 DEF Entries
  <1>4. Ordered(r)
    <2> SUFFICES ASSUME NEW i \in 1..Len(r), NEW j \in 1..Len(r), i < j
                 PROVE  Before(r[i], r[j])
      BY DEF Ordered
    <2>1. i \in 1..Len(q) /\ r[i] = q[i] /\ q[i] \in Entries(q)
      BY <1>1, <1>2 DEF Entries
    <2>2. CASE j = Len(q) + 1
      BY <1>2, <2>1, <2>2
    <2>3. CASE j \in 1..Len(q)
      BY <1>2, <2>1, <2>3 DEF Ordered
    <2> QED
      BY <1>1, <2>2, <2>3
  <1> QED
    BY <1>1, <1>3, <1>4 DEF r

\* Taking the first event keeps the order, and it comes before the others.
LEMMA QueueTail ==
    ASSUME NEW q \in Seq(Events), q # <<>>, Ordered(q)
    PROVE  /\ Head(q) \in Events /\ Tail(q) \in Seq(Events) /\ Ordered(Tail(q))
           /\ Entries(q) = {Head(q)} \cup Entries(Tail(q))
           /\ \A f \in Entries(Tail(q)) : Before(Head(q), f)
           /\ Tail(q) # q
  <1> DEFINE r == Tail(q)
  <1>1. /\ r \in Seq(Events) /\ Len(q) \in Nat /\ Len(q) >= 1 /\ Len(r) = Len(q) - 1
        /\ Head(q) = q[1] /\ \A i \in 1..Len(r) : r[i] = q[i + 1]
    BY HeadTailProperties, EmptySeq, LenProperties
  <1>2. q[1] \in Events
    BY <1>1, ElementOfSeq
  <1> HIDE DEF r
  <1>3. Entries(q) = {q[1]} \cup Entries(r)
    <2>1. \A i \in 1..Len(q) : q[i] \in {q[1]} \cup Entries(r)
      <3> SUFFICES ASSUME NEW i \in 1..Len(q), i # 1 PROVE q[i] \in Entries(r)
        OBVIOUS
      <3>1. i - 1 \in 1..Len(r) /\ (i - 1) + 1 = i
        BY <1>1
      <3>2. r[i - 1] = q[i]
        BY <1>1, <3>1
      <3> QED
        BY <3>1, <3>2 DEF Entries
    <2>2. \A i \in 1..Len(r) : i + 1 \in 1..Len(q)
      BY <1>1
    <2>3. Entries(r) \subseteq Entries(q)
      BY <1>1, <2>2 DEF Entries
    <2>4. q[1] \in Entries(q)
      BY <1>1 DEF Entries
    <2> QED
      BY <2>1, <2>3, <2>4 DEF Entries
  <1>4. Ordered(r)
    <2> SUFFICES ASSUME NEW i \in 1..Len(r), NEW j \in 1..Len(r), i < j
                 PROVE  Before(r[i], r[j])
      BY DEF Ordered
    <2>1. i + 1 \in 1..Len(q) /\ j + 1 \in 1..Len(q) /\ i + 1 < j + 1
      BY <1>1
    <2> QED
      BY <1>1, <2>1 DEF Ordered
  <1>5. \A f \in Entries(r) : Before(q[1], f)
    <2> SUFFICES ASSUME NEW i \in 1..Len(r) PROVE Before(q[1], r[i])
      BY DEF Entries
    <2>1. i + 1 \in 1..Len(q) /\ 1 \in 1..Len(q) /\ 1 < i + 1
      BY <1>1
    <2> QED
      BY <1>1, <2>1 DEF Ordered
  <1>6. r # q
    BY <1>1
  <1> QED
    BY <1>1, <1>2, <1>3, <1>4, <1>5, <1>6 DEF r

\* The host task takes an event.
LEMMA Taken ==
    ASSUME IInv, NEW type, Handle(type)
    PROVE  /\ Head(events) \in Events /\ Head(events).type = type
           /\ events' \in Seq(Events) /\ Ordered(events)'
           /\ Waiting = {Head(events)} \cup Waiting'
           /\ \A f \in Waiting' : Before(Head(events), f)
  <1>1. events \in Seq(Events) /\ Ordered(events)
    BY DEF IInv, TypeOK, Structure
  <1>2. events # <<>> /\ Head(events).type = type /\ events' = Tail(events)
    BY DEF Handle
  <1> QED
    BY <1>1, <1>2, QueueTail DEF Waiting

\* An event is queued.
LEMMA Added ==
    ASSUME IInv, NEW e \in Events, Queue(e), \A f \in Waiting : Before(f, e)
    PROVE  /\ events' \in Seq(Events) /\ Ordered(events)'
           /\ Waiting' = Waiting \cup {e}
  <1>1. events \in Seq(Events) /\ Ordered(events)
    BY DEF IInv, TypeOK, Structure
  <1> QED
    BY <1>1, QueueAppend DEF Waiting, Queue

\* What is queued, as a set.
LEMMA QueuedIs ==
    ASSUME NEW type
    PROVE  Queued(type) <=> \E e \in Waiting : e.type = type
  BY DEF Queued, Waiting, Entries

\* What keeps a device without a link findable, in terms of what is queued.
LEMMA FoundIs ==
    CanBeFound <=> (link = 0 => \/ adv \/ retryTimer \/ "adv" \in failed
                                \/ \E e \in Waiting : e.type \in Starters \cup {"disconnect"})
  BY DEF CanBeFound, Queued, Waiting, Entries, Starters

\* The same after a step.
LEMMA FoundIsNext ==
    CanBeFound' <=> (link' = 0 => \/ adv' \/ retryTimer' \/ "adv" \in failed'
                                  \/ \E e \in Waiting' : e.type \in Starters \cup {"disconnect"})
  BY DEF CanBeFound, Queued, Waiting, Entries, Starters

\* Before a connection has been handled nothing else of its link is; after it
\* the host task knows the link until the disconnection.
LEMMA HeadOfLink ==
    ASSUME IInv, NEW type \in LinkEvents, Handle(type)
    PROVE  /\ Head(events).link = links /\ links # 0 /\ ~Quiet
           /\ type = "connect" => conn = 0
           /\ type # "connect" => conn = links
  <1>1. Head(events) \in Waiting /\ Head(events).type = type
        /\ \A f \in Waiting : f # Head(events) => Before(Head(events), f)
    BY Taken
  <1>2. Head(events).link = links /\ links # 0
    BY <1>1 DEF IInv, Structure, EventsOfLink
  <1>3. ~Quiet
    BY <1>1 DEF IInv, Structure, QuietLink, LinkEvents, Starters
  <1>4. type = "connect" => conn = 0
    BY <1>1, <1>3 DEF IInv, Structure, BusyLink
  <1>5. ASSUME type # "connect" PROVE conn = links
    <2>1. \A f \in Waiting : f.type # "connect"
      BY <1>1, <1>5 DEF Before, LinkEvents
    <2> QED
      BY <1>3, <2>1 DEF IInv, Structure, BusyLink
  <1> QED
    BY <1>2, <1>3, <1>4, <1>5

-----------------------------------------------------------------------------
(* What most steps keep *)

\* A step that takes an event in the middle of a link, or a late timeout.
LEMMA StructureTaken ==
    ASSUME IInv, UNCHANGED <<link, links, adv, retryTimer, conn, onAir>>,
           NEW type \in {"subscribe", "control", "ota", "notifyTx", "connUpdate", "readyTimeout"},
           Handle(type), cutting' \in {0, link}, "adv" \in failed => "adv" \in failed'
    PROVE  Structure'
  <1> DEFINE h == Head(events)
  <1>1. /\ h.type = type /\ Ordered(events)' /\ Waiting = {h} \cup Waiting'
    BY Taken
  <1> HIDE DEF h
  <1>2. type \notin Starters \cup {"disconnect", "connect"}
    BY DEF Starters
  <1>3. Quiet' <=> Quiet
    BY <1>1, <1>2 DEF Quiet
  <1>4. EventsOfLink'
    BY <1>1 DEF IInv, Structure, EventsOfLink
  <1>5. QuietLink'
    BY <1>1, <1>3 DEF IInv, Structure, QuietLink
  <1>6. BusyLink'
    BY <1>1, <1>2, <1>3 DEF IInv, Structure, BusyLink
  <1>7. CanBeFound'
    BY <1>1, <1>2, FoundIs, FoundIsNext DEF IInv, Structure
  <1> QED
    BY <1>1, <1>4, <1>5, <1>6, <1>7 DEF Structure

\* A step of another task, which leaves the queue alone.
LEMMA StructureSame ==
    ASSUME IInv, UNCHANGED <<events, link, links, adv, retryTimer, conn>>,
           onAir' > 0 => link # 0, cutting' \in {0, link}, "adv" \in failed => "adv" \in failed'
    PROVE  Structure' /\ Waiting' = Waiting
  <1>1. Waiting' = Waiting /\ Ordered(events)'
    BY DEF Waiting, IInv, Structure
  <1>2. EventsOfLink' /\ QuietLink' /\ BusyLink'
    BY <1>1 DEF IInv, Structure, EventsOfLink, QuietLink, BusyLink, Quiet
  <1>3. CanBeFound'
    BY <1>1, FoundIs, FoundIsNext DEF IInv, Structure
  <1> QED
    BY <1>1, <1>2, <1>3 DEF Structure

\* An event in the middle of the link that is up.
LEMMA StructureAdded ==
    ASSUME IInv, UNCHANGED <<link, links, adv, retryTimer, conn, cutting>>, link # 0,
           onAir' \in Nat,
           NEW e \in Events, Queue(e), e.link = link,
           e.type = "ota" => e.target \in {"fast", "slow"},
           e.type \in {"subscribe", "control", "ota", "notifyTx", "connUpdate"},
           e.type = "connUpdate" => ~Queued("connUpdate")
    PROVE  Structure' /\ Waiting' = Waiting \cup {e} /\ events' \in Seq(Events)
  <1>1. ~Quiet /\ link = links /\ \A f \in Waiting : f.type \notin Starters \cup {"disconnect"}
    BY DEF IInv, Structure, EventsOfLink, BusyLink, Quiet
  <1>2. \A f \in Waiting : Before(f, e)
    BY <1>1, QueuedIs DEF Before, Starters
  <1>3. Waiting' = Waiting \cup {e} /\ Ordered(events)' /\ events' \in Seq(Events)
    BY <1>2, Added
  <1>4. e.type \notin Starters \cup {"disconnect", "connect", "readyTimeout"}
    BY DEF Starters
  <1>5. ~Quiet'
    BY <1>1 DEF Quiet
  <1>6. EventsOfLink'
    BY <1>1, <1>3, <1>4 DEF IInv, Structure, EventsOfLink
  <1>7. QuietLink' /\ BusyLink'
    BY <1>1, <1>3, <1>4, <1>5 DEF IInv, Structure, QuietLink, BusyLink
  <1>8. CanBeFound'
    BY FoundIsNext
  <1> QED
    BY <1>3, <1>6, <1>7, <1>8 DEF Structure

\* The interval is not touched, and no end of a negotiation is queued.
LEMMA NegotiationSame ==
    ASSUME IInv, UNCHANGED <<link, conn, itvlVars>>,
           \A e \in Waiting' : e.type = "connUpdate" => e \in Waiting,
           UNCHANGED failed \/ (Excused => Excused')
    PROVE  Negotiation'
  <1> Excused => Excused'
    BY DEF Excused
  <1>1. TargetOfLink'
    BY DEF IInv, Negotiation, TargetOfLink, itvlVars
  <1>2. UpdateOfLink'
    BY DEF IInv, Negotiation, UpdateOfLink, itvlVars
  <1>3. TargetReached'
    BY DEF IInv, Negotiation, TargetReached, Underway, itvlVars
  <1> QED
    BY <1>1, <1>2, <1>3 DEF Negotiation

\* No timeout is queued, and the timer is at most stopped.
LEMMA TimeoutSame ==
    ASSUME IInv, UNCHANGED <<links, conn>>, readyTimer' \in {0, readyTimer},
           \A e \in Waiting' : e.type = "readyTimeout" => e \in Waiting
    PROVE  TimeoutOfLink'
  BY DEF IInv, TimeoutOfLink

\* Readiness is not touched.
LEMMA ReadySame ==
    ASSUME IInv, UNCHANGED <<conn, subs, s_control_seen, told>>
    PROVE  ReadyTold'
  BY DEF IInv, ReadyTold, voice_ble_is_ready

\* A callback that tells of a change leaves the application in the know.
LEMMA ReadyChanged ==
    ASSUME IInv, TellIfChanged
    PROVE  ReadyTold' /\ told' \in BOOLEAN
  <1>1. told = voice_ble_is_ready
    BY DEF IInv, ReadyTold
  <1>2. IsReady(conn', subs', s_control_seen') = voice_ble_is_ready'
    BY DEF voice_ble_is_ready
  <1>3. voice_ble_is_ready' \in BOOLEAN
    BY DEF voice_ble_is_ready, IsReady
  <1>4. told' = IF voice_ble_is_ready' # told THEN voice_ble_is_ready' ELSE told
    BY <1>1, <1>2 DEF TellIfChanged
  <1>5. told' = voice_ble_is_ready'
    BY <1>4
  <1> QED
    BY <1>3, <1>5 DEF ReadyTold

-----------------------------------------------------------------------------
(* Advertising starts *)

\* start_advertising advertises, arms the retry, or has failed.
LEMMA Advertised ==
    ASSUME IInv, ~adv, ~retryTimer, NEW c \in BOOLEAN, ~c, start_advertising(c)
    PROVE  /\ adv' \in BOOLEAN /\ retryTimer' \in BOOLEAN /\ failed' \subseteq Failures
           /\ ~(adv' /\ retryTimer') /\ (adv' \/ retryTimer' \/ "adv" \in failed')
           /\ Excused => Excused'
  <1>1. adv \in BOOLEAN /\ retryTimer \in BOOLEAN /\ failed \subseteq Failures
    BY DEF IInv, TypeOK
  <1>2. CASE adv' = TRUE /\ failed' = failed \ {"adv"} /\ UNCHANGED retryTimer
    BY <1>1, <1>2 DEF Failures, Excused
  <1>3. CASE retryTimer' = TRUE /\ UNCHANGED <<adv, failed>>
    BY <1>1, <1>3 DEF Failures, Excused
  <1>4. CASE failed' = failed \cup {"adv"} /\ UNCHANGED <<adv, retryTimer>>
    BY <1>1, <1>4 DEF Failures, Excused
  <1> QED
    BY <1>2, <1>3, <1>4 DEF start_advertising

\* Whatever starts advertising is the only thing that could.
LEMMA StructureStarted ==
    ASSUME IInv, NEW type \in Starters \cup {"disconnect"}, Handle(type),
           NEW c \in BOOLEAN, ~c, start_advertising(c), conn' = 0,
           UNCHANGED <<link, links, cutting, onAir>>
    PROVE  /\ Structure' /\ events' \in Seq(Events)
           /\ \A e \in Waiting' : e.type = "readyTimeout" /\ e \in Waiting
           /\ link = 0 /\ (type # "disconnect" => conn = 0)
           /\ adv' \in BOOLEAN /\ retryTimer' \in BOOLEAN /\ failed' \subseteq Failures
           /\ Excused => Excused'
  <1> DEFINE h == Head(events)
  <1>1. /\ h.type = type /\ Ordered(events)' /\ Waiting = {h} \cup Waiting'
        /\ events' \in Seq(Events) /\ \A f \in Waiting' : Before(h, f)
    BY Taken
  <1> HIDE DEF h
  <1>2. \A e \in Waiting' : e.type = "readyTimeout" /\ e \in Waiting
    BY <1>1 DEF Before
  <1>3. type \in Starters => Quiet /\ conn = 0
    BY <1>1 DEF IInv, Structure, BusyLink, QuietLink
  <1>4. link = 0
    BY <1>1, <1>3 DEF Quiet, IInv, Structure, EventsOfLink
  <1>5. ~adv /\ ~retryTimer
    BY <1>1 DEF IInv, Structure, QuietLink, Starters
  <1>6. /\ adv' \in BOOLEAN /\ retryTimer' \in BOOLEAN /\ failed' \subseteq Failures
        /\ ~(adv' /\ retryTimer') /\ (adv' \/ retryTimer' \/ "adv" \in failed')
        /\ Excused => Excused'
    BY <1>5, Advertised
  <1>7. Quiet'
    BY <1>2, <1>4 DEF Quiet
  <1>8. EventsOfLink'
    BY <1>2, <1>4 DEF IInv, Structure, EventsOfLink
  <1>9. QuietLink' /\ BusyLink'
    BY <1>2, <1>6, <1>7 DEF QuietLink, BusyLink
  <1>10. CanBeFound'
    BY <1>6, FoundIsNext
  <1> QED
    BY <1>1, <1>2, <1>3, <1>4, <1>6, <1>8, <1>9, <1>10 DEF Structure

-----------------------------------------------------------------------------
(* The host task *)

\* The stack has synchronised, or the retry timer has expired.
LEMMA StartInv ==
    ASSUME IInv, on_sync \/ adv_retry_callout_cb
    PROVE  IInv'
  <1>1. PICK type \in {"sync", "advRetry"} : Handle(type)
    BY DEF on_sync, adv_retry_callout_cb
  <1>2. /\ start_advertising(conn # 0)
        /\ UNCHANGED <<link, links, cutting, readyTimer, itvlVars, gateVars, readyVars>>
    BY DEF on_sync, adv_retry_callout_cb
  <1>3. conn = 0
    BY <1>1, Taken DEF IInv, Structure, BusyLink, QuietLink, Starters
  <1>4. /\ Structure' /\ events' \in Seq(Events)
        /\ \A e \in Waiting' : e.type = "readyTimeout" /\ e \in Waiting
        /\ adv' \in BOOLEAN /\ retryTimer' \in BOOLEAN /\ failed' \subseteq Failures
        /\ Excused => Excused'
    BY <1>1, <1>2, <1>3, StructureStarted DEF Starters, readyVars, gateVars
  <1>5. TypeOK'
    BY <1>2, <1>4 DEF IInv, TypeOK, itvlVars, gateVars, readyVars
  <1>6. TimeoutOfLink' /\ Negotiation' /\ ReadyTold'
    BY <1>2, <1>4, TimeoutSame, NegotiationSame, ReadySame DEF readyVars
  <1> QED
    BY <1>4, <1>5, <1>6 DEF IInv

\* A connection attempt that failed.
LEMMA ConnectFailedInv ==
    ASSUME IInv, OnConnectFailed
    PROVE  IInv'
  <1>1. /\ Handle("connectFailed") /\ start_advertising(conn # 0) /\ told' = FALSE
        /\ UNCHANGED <<link, links, cutting, readyTimer, itvlVars, gateVars, conn, subs,
                       s_control_seen, load>>
    BY DEF OnConnectFailed
  <1>2. conn = 0
    BY <1>1, Taken DEF IInv, Structure, BusyLink, QuietLink, Starters
  <1>3. /\ Structure' /\ events' \in Seq(Events)
        /\ \A e \in Waiting' : e.type = "readyTimeout" /\ e \in Waiting
        /\ adv' \in BOOLEAN /\ retryTimer' \in BOOLEAN /\ failed' \subseteq Failures
        /\ Excused => Excused'
    BY <1>1, <1>2, StructureStarted DEF Starters, gateVars
  <1>4. told' \in BOOLEAN
    BY <1>1
  <1>5. TypeOK'
    BY <1>1, <1>3, <1>4 DEF IInv, TypeOK, itvlVars, gateVars
  <1>6. TimeoutOfLink' /\ Negotiation'
    BY <1>1, <1>3, TimeoutSame, NegotiationSame
  <1>7. ReadyTold'
    BY <1>1, <1>2 DEF ReadyTold, voice_ble_is_ready, IsReady
  <1> QED
    BY <1>3, <1>5, <1>6, <1>7 DEF IInv

\* The end of a link.
LEMMA DisconnectInv ==
    ASSUME IInv, OnDisconnect
    PROVE  IInv'
  <1>1. /\ Handle("disconnect") /\ readyTimer' = 0
        /\ conn' = 0 /\ subs' = {} /\ s_control_seen' = FALSE
        /\ s_itvl_target' = "none" /\ s_itvl_update_pending' = FALSE
        /\ gate' = 1 /\ start_advertising(FALSE) /\ told' = FALSE
        /\ UNCHANGED <<link, links, cutting, updating, itvl, request, asked, tx, onAir, load>>
    BY DEF OnDisconnect
  <1>2. FALSE \in BOOLEAN /\ request["host"] = "idle"
    BY <1>1 DEF Handle
  <1>3. /\ Structure' /\ events' \in Seq(Events) /\ link = 0
        /\ \A e \in Waiting' : e.type = "readyTimeout" /\ e \in Waiting
        /\ adv' \in BOOLEAN /\ retryTimer' \in BOOLEAN /\ failed' \subseteq Failures
    BY <1>1, <1>2, StructureStarted
  <1>4. told' \in BOOLEAN /\ s_control_seen' \in BOOLEAN /\ s_itvl_update_pending' \in BOOLEAN
    BY <1>1
  <1>5. 0 \in 0..MaxLinks /\ gate' \in 0..1 /\ s_itvl_target' \in Targets
    BY <1>1, BoundsAssumption DEF Targets
  <1>6. TypeOK'
    BY <1>1, <1>3, <1>4, <1>5 DEF IInv, TypeOK
  <1>7. TimeoutOfLink'
    BY <1>1 DEF TimeoutOfLink
  <1>8. Negotiation'
    BY <1>1, <1>2, <1>3 DEF IInv, Negotiation, TargetOfLink, UpdateOfLink, TargetReached
  <1>9. ReadyTold'
    BY <1>1 DEF ReadyTold, voice_ble_is_ready, IsReady
  <1> QED
    BY <1>3, <1>6, <1>7, <1>8, <1>9 DEF IInv

\* A link the central has made: nothing of it was handled before.
LEMMA ConnectInv ==
    ASSUME IInv, OnConnect
    PROVE  IInv'
  <1> DEFINE h == Head(events)
  <1>1. /\ Handle("connect") /\ conn' = h.link /\ subs' = {} /\ s_control_seen' = FALSE
        /\ adv' \in {FALSE, adv} /\ readyTimer' = h.link /\ failed' = failed \ {"cut", "adv"}
        /\ UNCHANGED <<link, links, cutting, retryTimer, itvlVars, gateVars, told, load>>
    BY DEF OnConnect, stop_advertising
  <1>2. /\ h.type = "connect" /\ Ordered(events)' /\ Waiting = {h} \cup Waiting'
        /\ events' \in Seq(Events) /\ \A f \in Waiting' : Before(h, f)
    BY <1>1, Taken
  <1>3. h.link = links /\ links # 0 /\ ~Quiet /\ conn = 0
    BY <1>1, HeadOfLink DEF LinkEvents
  <1> HIDE DEF h
  <1>4. \A f \in Waiting' : f.type \notin {"connect", "readyTimeout"} \cup Starters
    BY <1>2 DEF Before
  <1>5. ~Quiet' /\ ~adv /\ ~retryTimer
    BY <1>1, <1>2, <1>3 DEF IInv, Structure, BusyLink, Quiet
  <1>6. ~adv' /\ adv' \in BOOLEAN /\ ~retryTimer'
    <2>1. adv \in BOOLEAN
      BY DEF IInv, TypeOK
    <2>2. adv = FALSE
      BY <1>5, <2>1
    <2>3. adv' = FALSE
      BY <1>1, <2>2
    <2>4. retryTimer' = retryTimer
      BY <1>1
    <2> QED
      BY <1>5, <2>3, <2>4
  <1>7. EventsOfLink'
    BY <1>1, <1>2, <1>4 DEF IInv, Structure, EventsOfLink, gateVars
  <1>8. QuietLink' /\ BusyLink'
    BY <1>1, <1>3, <1>4, <1>5, <1>6 DEF QuietLink, BusyLink
  <1>9. CanBeFound'
    <2>1. link = 0 => \E e \in Waiting' : e.type = "disconnect"
      BY <1>1, <1>5 DEF Quiet
    <2> QED
      BY <1>1, <2>1, FoundIsNext
  <1>10. s_control_seen' \in BOOLEAN
    BY <1>1
  <1>11. TypeOK'
    BY <1>1, <1>2, <1>3, <1>6, <1>10 DEF IInv, TypeOK, itvlVars, gateVars
  <1>12. TimeoutOfLink'
    BY <1>1, <1>3, <1>4 DEF TimeoutOfLink
  <1>13. Negotiation'
    <2>1. /\ s_itvl_target = "none" \/ Excused \/ request["app"] = "call"
          /\ updating = "none" /\ (Excused => Excused')
      BY <1>1, <1>3 DEF IInv, Negotiation, TargetOfLink, UpdateOfLink, Excused
    <2>2. TargetOfLink' /\ UpdateOfLink'
      BY <1>1, <1>2, <1>3, <2>1
      DEF IInv, Negotiation, TargetOfLink, UpdateOfLink, Structure, EventsOfLink, itvlVars
    <2>3. TargetReached'
      BY <1>1, <2>1 DEF TargetReached, Underway, itvlVars
    <2> QED
      BY <2>2, <2>3 DEF Negotiation
  <1>14. ReadyTold'
    BY <1>1, <1>3 DEF IInv, ReadyTold, voice_ble_is_ready, IsReady, Attributes
  <1> QED
    BY <1>2, <1>7, <1>8, <1>9, <1>11, <1>12, <1>13, <1>14 DEF IInv, Structure

\* A subscription, of the link the host task knows.
LEMMA SubscribeInv ==
    ASSUME IInv, OnSubscribe
    PROVE  IInv'
  <1> DEFINE h == Head(events)
  <1>1. /\ Handle("subscribe") /\ conn' = h.link /\ UNCHANGED <<s_control_seen, load>>
        /\ subs' = (IF h.on THEN subs \cup {h.attr} ELSE subs \ {h.attr}) /\ TellIfChanged
        /\ UNCHANGED <<linkVars, timerVars, itvlVars, gateVars, failed>>
    BY DEF OnSubscribe
  <1>2. /\ h \in Events /\ Waiting = {h} \cup Waiting' /\ events' \in Seq(Events)
    BY <1>1, Taken
  <1>3. h.link = links /\ conn = links
    BY <1>1, HeadOfLink DEF LinkEvents
  <1>4. h.attr \in Attributes
    BY <1>2 DEF Events
  <1> HIDE DEF h
  <1>5. conn' = conn /\ subs' \subseteq Attributes
    BY <1>1, <1>3, <1>4 DEF IInv, TypeOK
  <1>6. ReadyTold' /\ told' \in BOOLEAN
    BY <1>1, ReadyChanged
  <1>7. Structure'
    BY <1>1, <1>5, StructureTaken DEF linkVars, timerVars, gateVars, IInv, Structure, EventsOfLink
  <1>8. TypeOK'
    BY <1>1, <1>2, <1>5, <1>6 DEF IInv, TypeOK, linkVars, timerVars, itvlVars, gateVars
  <1>9. TimeoutOfLink' /\ Negotiation'
    BY <1>1, <1>2, <1>5, TimeoutSame, NegotiationSame DEF linkVars, timerVars
  <1> QED
    BY <1>6, <1>7, <1>8, <1>9 DEF IInv

\* The handshake, and each heartbeat.
LEMMA ControlInv ==
    ASSUME IInv, control_access_cb
    PROVE  IInv'
  <1> DEFINE h == Head(events)
  <1>1. /\ Handle("control") /\ conn' = h.link /\ s_control_seen' = TRUE
        /\ readyTimer' = h.link /\ UNCHANGED <<subs, load>> /\ TellIfChanged
        /\ UNCHANGED <<linkVars, retryTimer, itvlVars, gateVars, failed>>
    BY DEF control_access_cb
  <1>2. /\ h \in Events /\ Waiting = {h} \cup Waiting' /\ events' \in Seq(Events)
    BY <1>1, Taken
  <1>3. h.link = links /\ conn = links /\ links # 0
    BY <1>1, HeadOfLink DEF LinkEvents
  <1> HIDE DEF h
  <1>4. conn' = conn /\ readyTimer' = links
    BY <1>1, <1>3
  <1>5. ReadyTold' /\ told' \in BOOLEAN
    BY <1>1, ReadyChanged
  <1>6. Structure'
    BY <1>1, <1>4, StructureTaken DEF linkVars, gateVars, IInv, Structure, EventsOfLink
  <1>7. s_control_seen' \in BOOLEAN
    BY <1>1
  <1>8. TypeOK'
    BY <1>1, <1>2, <1>4, <1>5, <1>7 DEF IInv, TypeOK, linkVars, itvlVars, gateVars
  <1>9. TimeoutOfLink'
    BY <1>1, <1>2, <1>3, <1>4 DEF IInv, TimeoutOfLink, linkVars
  <1>10. Negotiation'
    BY <1>1, <1>2, <1>4, NegotiationSame DEF linkVars
  <1> QED
    BY <1>5, <1>6, <1>8, <1>9, <1>10 DEF IInv

\* A notification was transmitted.
LEMMA NotifyTxInv ==
    ASSUME IInv, OnNotifyTx
    PROVE  IInv'
  <1>1. /\ Handle("notifyTx") /\ gate' = 1
        /\ UNCHANGED <<linkVars, timerVars, itvlVars, tx, onAir, readyVars, failed>>
    BY DEF OnNotifyTx
  <1>2. /\ Waiting = {Head(events)} \cup Waiting' /\ events' \in Seq(Events)
    BY <1>1, Taken
  <1>3. Structure'
    BY <1>1, StructureTaken DEF linkVars, timerVars, readyVars, IInv, Structure, EventsOfLink
  <1>4. TypeOK'
    BY <1>1, <1>2 DEF IInv, TypeOK, linkVars, timerVars, itvlVars, readyVars
  <1>5. TimeoutOfLink' /\ Negotiation' /\ ReadyTold'
    BY <1>1, <1>2, TimeoutSame, NegotiationSame, ReadySame DEF linkVars, timerVars, readyVars
  <1> QED
    BY <1>3, <1>4, <1>5 DEF IInv

\* The heartbeat timeout.
LEMMA ReadyTimeoutInv ==
    ASSUME IInv, ready_timeout_callout_cb
    PROVE  IInv'
  <1>1. /\ Handle("readyTimeout")
        /\ UNCHANGED <<link, links, adv, timerVars, itvlVars, gateVars, readyVars>>
    BY DEF ready_timeout_callout_cb
  <1>2. /\ Waiting = {Head(events)} \cup Waiting' /\ events' \in Seq(Events)
    BY <1>1, Taken
  <1>3. /\ cutting' \in {0, link} /\ failed \subseteq failed'
        /\ failed' \subseteq Failures
    BY DEF ready_timeout_callout_cb, Terminate, IInv, TypeOK, Structure, EventsOfLink, Failures
  <1>4. Structure'
    BY <1>1, <1>3, StructureTaken DEF timerVars, readyVars, gateVars
  <1>5. cutting' \in 0..MaxLinks
    BY <1>3, BoundsAssumption DEF IInv, TypeOK
  <1>6. TypeOK'
    BY <1>1, <1>2, <1>3, <1>5 DEF IInv, TypeOK, timerVars, itvlVars, gateVars, readyVars
  <1>7. TimeoutOfLink' /\ Negotiation' /\ ReadyTold'
    BY <1>1, <1>2, <1>3, TimeoutSame, NegotiationSame, ReadySame DEF timerVars, readyVars, Excused
  <1> QED
    BY <1>4, <1>6, <1>7 DEF IInv

\* A request begins, or ends without a link to ask for.
LEMMA AsksIs ==
    ASSUME IInv, NEW k \in Tasks, NEW t \in Targets, Asks(k, t)
    PROVE  /\ request' \in [Tasks -> Steps] /\ asked' \in [Tasks -> Targets]
           /\ request'[k] = (IF conn = 0 THEN "idle" ELSE "set")
           /\ \A j \in Tasks : j # k => request'[j] = request[j]
  BY DEF Asks, Done, IInv, TypeOK, Steps, Targets

\* An OTA write.
LEMMA OtaInv ==
    ASSUME IInv, ota_access_cb
    PROVE  IInv'
  <1> DEFINE t == Head(events).target
  <1>1. /\ Handle("ota") /\ Asks("host", t)
        /\ UNCHANGED <<linkVars, timerVars, updating, itvl, s_itvl_target,
                       s_itvl_update_pending, gateVars, readyVars, failed>>
    BY DEF ota_access_cb
  <1>2. /\ Waiting = {Head(events)} \cup Waiting' /\ events' \in Seq(Events)
        /\ Head(events).type = "ota"
    BY <1>1, Taken
  <1>3. t \in Targets /\ conn # 0
    BY <1>1, <1>2, HeadOfLink DEF IInv, Structure, EventsOfLink, Targets, LinkEvents
  <1> HIDE DEF t
  <1>4. /\ request' \in [Tasks -> Steps] /\ asked' \in [Tasks -> Targets]
        /\ request'["host"] = "set"
    BY <1>1, <1>3, AsksIs DEF Tasks
  <1>5. Structure'
    BY <1>1, StructureTaken
    DEF linkVars, timerVars, gateVars, readyVars, IInv, Structure, EventsOfLink
  <1>6. TypeOK'
    BY <1>1, <1>2, <1>4 DEF IInv, TypeOK, linkVars, timerVars, gateVars, readyVars
  <1>7. TimeoutOfLink' /\ ReadyTold'
    BY <1>1, <1>2, TimeoutSame, ReadySame DEF linkVars, timerVars, readyVars
  <1>8. Negotiation'
    BY <1>1, <1>2, <1>3, <1>4
    DEF IInv, Negotiation, TargetOfLink, UpdateOfLink, TargetReached, Underway, Excused,
        linkVars, readyVars
  <1> QED
    BY <1>5, <1>6, <1>7, <1>8 DEF IInv

\* The stack has finished an update, or was refused it.
LEMMA ConnUpdateInv ==
    ASSUME IInv, OnConnUpdate
    PROVE  IInv'
  <1>1. /\ Handle("connUpdate") /\ updating' = "none" /\ Goes("host", "check")
        /\ UNCHANGED <<linkVars, timerVars, itvl, s_itvl_target, s_itvl_update_pending,
                       gateVars, readyVars, failed>>
    BY DEF OnConnUpdate
  <1>2. /\ Waiting = {Head(events)} \cup Waiting' /\ events' \in Seq(Events)
        /\ Head(events).type = "connUpdate" /\ \A f \in Waiting' : Before(Head(events), f)
        /\ request["host"] = "idle"
    BY <1>1, Taken DEF Handle
  <1>3. conn = links /\ links # 0
    BY <1>1, HeadOfLink DEF LinkEvents
  <1>4. \A e \in Waiting' : e.type # "connUpdate"
    BY <1>2 DEF Before
  <1>5. link # 0 => updating # "none" /\ (itvl = updating \/ Excused)
    BY <1>2 DEF IInv, Negotiation, UpdateOfLink
  <1>6. /\ request' \in [Tasks -> Steps] /\ asked' \in [Tasks -> Targets]
        /\ request'["host"] = "check" /\ request'["app"] = request["app"]
    BY <1>1 DEF Goes, IInv, TypeOK, Steps, Tasks
  <1>7. Structure'
    BY <1>1, StructureTaken
    DEF linkVars, timerVars, gateVars, readyVars, IInv, Structure, EventsOfLink
  <1>8. "none" \in Targets
    BY DEF Targets
  <1>9. TypeOK'
    BY <1>1, <1>2, <1>6, <1>8 DEF IInv, TypeOK, linkVars, timerVars, gateVars, readyVars
  <1>10. TimeoutOfLink' /\ ReadyTold'
    BY <1>1, <1>2, TimeoutSame, ReadySame DEF linkVars, timerVars, readyVars
  <1>11. UNCHANGED <<link, conn, itvl, s_itvl_target, s_itvl_update_pending>> /\ (Excused <=> Excused')
    BY <1>1 DEF linkVars, readyVars, Excused
  <1>12. TargetOfLink' /\ UpdateOfLink'
    BY <1>1, <1>3, <1>4, <1>11 DEF TargetOfLink, UpdateOfLink
  <1>13. TargetReached'
    BY <1>1, <1>2, <1>5, <1>6, <1>11 DEF IInv, Negotiation, TargetReached, Underway
  <1> QED
    BY <1>7, <1>9, <1>10, <1>12, <1>13 DEF IInv, Negotiation

-----------------------------------------------------------------------------
(* Requests for an interval *)

\* A step of a request leaves everything else alone.
LEMMA IntervalStep ==
    ASSUME IInv, UNCHANGED <<events, linkVars, timerVars, itvl, gateVars, readyVars>>,
           updating' \in Targets, s_itvl_target' \in Targets,
           s_itvl_update_pending' \in BOOLEAN, request' \in [Tasks -> Steps],
           asked' \in [Tasks -> Targets], failed' \subseteq Failures,
           "adv" \in failed => "adv" \in failed', Negotiation'
    PROVE  IInv'
  <1>1. Structure' /\ Waiting' = Waiting
    BY StructureSame DEF linkVars, timerVars, gateVars, readyVars, IInv, Structure, EventsOfLink
  <1>2. TypeOK'
    BY DEF IInv, TypeOK, linkVars, timerVars, gateVars, readyVars
  <1>3. TimeoutOfLink' /\ ReadyTold'
    BY <1>1, TimeoutSame, ReadySame DEF linkVars, timerVars, readyVars
  <1> QED
    BY <1>1, <1>2, <1>3 DEF IInv

\* The app task asks for an interval.
LEMMA RequestIntervalInv ==
    ASSUME IInv, RequestInterval
    PROVE  IInv'
  <1>1. /\ conn # 0
        /\ UNCHANGED <<events, linkVars, timerVars, updating, itvl, s_itvl_target,
                       s_itvl_update_pending, gateVars, readyVars, failed>>
    BY DEF RequestInterval
  <1>2. PICK t \in {"fast", "slow"} : Asks("app", t)
    BY DEF RequestInterval
  <1>3. t \in Targets /\ "app" \in Tasks /\ "host" \in Tasks
    BY DEF Targets, Tasks
  <1>4. /\ request' \in [Tasks -> Steps] /\ asked' \in [Tasks -> Targets]
        /\ request'["app"] = "set" /\ request'["host"] = request["host"]
    BY <1>1, <1>2, <1>3, AsksIs
  <1>5. Waiting' = Waiting
    BY <1>1 DEF Waiting
  <1>6. Negotiation'
    BY <1>1, <1>4, <1>5
    DEF IInv, Negotiation, TargetOfLink, UpdateOfLink, TargetReached, Underway, Excused,
        linkVars, readyVars
  <1>7. updating \in Targets /\ s_itvl_target \in Targets
        /\ s_itvl_update_pending \in BOOLEAN /\ failed \subseteq Failures
    BY DEF IInv, TypeOK
  <1> QED
    BY <1>1, <1>4, <1>6, <1>7, IntervalStep

\* The host task makes a deferred request again.
LEMMA RetryDeferralInv ==
    ASSUME IInv, RetryDeferral
    PROVE  IInv'
  <1>1. /\ request["host"] = "check" /\ s_itvl_update_pending' = FALSE
        /\ UNCHANGED <<events, linkVars, timerVars, updating, itvl, s_itvl_target, gateVars,
                       readyVars, failed>>
    BY DEF RetryDeferral
  <1>2. /\ s_itvl_target \in Targets /\ "host" \in Tasks /\ "app" \in Tasks
        /\ "none" \in Targets /\ "idle" \in Steps
    BY DEF IInv, TypeOK, Tasks, Targets, Steps
  <1>3. conn # 0
    BY <1>1 DEF IInv, Negotiation, TargetOfLink
  <1>4. Waiting' = Waiting /\ UNCHANGED <<link, conn>> /\ (Excused <=> Excused')
    BY <1>1 DEF Waiting, linkVars, readyVars, Excused
  <1>5. /\ request' \in [Tasks -> Steps] /\ asked' \in [Tasks -> Targets]
        /\ request'["app"] = request["app"]
        /\ request'["host"] = (IF s_itvl_update_pending /\ s_itvl_target # "none"
                               THEN "set" ELSE "idle")
    <2>1. CASE s_itvl_update_pending /\ s_itvl_target # "none"
      BY <1>2, <1>3, <2>1, AsksIs DEF RetryDeferral
    <2>2. CASE ~(s_itvl_update_pending /\ s_itvl_target # "none")
      BY <1>2, <2>2 DEF RetryDeferral, Done, IInv, TypeOK
    <2> QED
      BY <2>1, <2>2
  <1>6. TargetOfLink' /\ UpdateOfLink'
    BY <1>1, <1>3, <1>4 DEF IInv, Negotiation, TargetOfLink, UpdateOfLink
  <1>7. TargetReached'
    BY <1>1, <1>4, <1>5 DEF IInv, Negotiation, TargetReached, Underway
  <1>8. /\ updating \in Targets /\ s_itvl_update_pending' \in BOOLEAN /\ failed \subseteq Failures
    BY <1>1 DEF IInv, TypeOK
  <1> QED
    BY <1>1, <1>2, <1>5, <1>6, <1>7, <1>8, IntervalStep DEF Negotiation

\* What a step of a request does to the requests.
LEMMA GoesIs ==
    ASSUME IInv, NEW k \in Tasks, NEW to \in Steps,
           Goes(k, to) \/ (to = "idle" /\ Done(k))
    PROVE  /\ request' \in [Tasks -> Steps] /\ asked' \in [Tasks -> Targets]
           /\ request'[k] = to /\ \A j \in Tasks : j # k => request'[j] = request[j]
  <1>1. request \in [Tasks -> Steps] /\ asked \in [Tasks -> Targets] /\ "none" \in Targets
    BY DEF IInv, TypeOK, Targets
  <1>2. CASE Goes(k, to)
    BY <1>1, <1>2 DEF Goes
  <1>3. CASE to = "idle" /\ Done(k)
    BY <1>1, <1>3 DEF Done
  <1> QED
    BY <1>2, <1>3

\* It writes its target.
LEMMA SetTargetInv ==
    ASSUME IInv, NEW k \in Tasks, SetTarget(k)
    PROVE  IInv'
  <1>1. /\ request[k] = "set" /\ s_itvl_target' = asked[k] /\ Goes(k, "call")
        /\ UNCHANGED <<events, linkVars, timerVars, updating, itvl, s_itvl_update_pending,
                       gateVars, readyVars, failed>>
    BY DEF SetTarget
  <1>2. "call" \in Steps /\ k \in {"host", "app"}
    BY DEF Steps, Tasks
  <1>3. /\ request' \in [Tasks -> Steps] /\ asked' \in [Tasks -> Targets]
        /\ request'[k] = "call" /\ \A j \in Tasks : j # k => request'[j] = request[j]
    BY <1>1, <1>2, GoesIs
  <1>4. Waiting' = Waiting /\ UNCHANGED <<link, conn>> /\ (Excused <=> Excused')
    BY <1>1 DEF Waiting, linkVars, readyVars, Excused
  <1>5. TargetOfLink' /\ UpdateOfLink'
    BY <1>1, <1>2, <1>3, <1>4 DEF IInv, Negotiation, TargetOfLink, UpdateOfLink, Tasks
  <1>6. TargetReached'
    BY <1>2, <1>3 DEF TargetReached, Underway
  <1>7. /\ updating \in Targets /\ s_itvl_target' \in Targets
        /\ s_itvl_update_pending \in BOOLEAN /\ failed \subseteq Failures
    BY <1>1 DEF IInv, TypeOK
  <1> QED
    BY <1>1, <1>3, <1>5, <1>6, <1>7, IntervalStep DEF Negotiation

\* The stack takes it, is busy, or fails.
LEMMA CallStackInv ==
    ASSUME IInv, NEW k \in Tasks, CallStack(k)
    PROVE  IInv'
  <1>1. /\ request[k] = "call"
        /\ UNCHANGED <<events, linkVars, timerVars, itvl, s_itvl_target,
                       s_itvl_update_pending, gateVars, readyVars>>
    BY DEF CallStack
  <1>2. {"clear", "defer", "idle"} \subseteq Steps /\ k \in {"host", "app"}
    BY DEF Steps, Tasks
  <1>3. Waiting' = Waiting /\ UNCHANGED <<link, conn>>
    BY <1>1 DEF Waiting, linkVars, readyVars
  <1>4. /\ updating \in Targets /\ s_itvl_target \in Targets /\ asked[k] \in Targets
        /\ s_itvl_update_pending \in BOOLEAN /\ failed \subseteq Failures
    BY DEF IInv, TypeOK
  <1>5. CASE CallTaken(k)
    <2>1. /\ conn # 0 /\ conn = link /\ updating = "none" /\ updating' = asked[k]
          /\ failed' = (IF asked[k] = s_itvl_target THEN failed \ {"itvl", "crossed"}
                        ELSE failed \cup {"crossed"})
          /\ Goes(k, "clear")
      BY <1>5 DEF CallTaken
    <2>2. /\ request' \in [Tasks -> Steps] /\ asked' \in [Tasks -> Targets]
      BY <1>2, <2>1, GoesIs
    <2>3. failed' \subseteq Failures /\ ("adv" \in failed => "adv" \in failed')
          /\ (Excused' \/ updating' = s_itvl_target)
      BY <1>4, <2>1 DEF Failures, Excused
    <2>4. \A e \in Waiting : e.type # "connUpdate"
      BY <2>1 DEF IInv, Negotiation, UpdateOfLink
    <2>5. Negotiation'
      BY <1>1, <1>3, <2>1, <2>3, <2>4
      DEF Negotiation, TargetOfLink, UpdateOfLink, TargetReached
    <2> QED
      BY <1>1, <1>4, <2>1, <2>2, <2>3, <2>5, IntervalStep
  <1>6. CASE CallBusy(k)
    <2>1. conn # 0 /\ UNCHANGED <<updating, failed>> /\ Goes(k, "defer")
      BY <1>6 DEF CallBusy
    <2>2. /\ request' \in [Tasks -> Steps] /\ asked' \in [Tasks -> Targets]
          /\ request'[k] = "defer" /\ \A j \in Tasks : j # k => request'[j] = request[j]
      BY <1>2, <2>1, GoesIs
    <2>3. TargetOfLink' /\ UpdateOfLink'
      BY <1>1, <1>3, <2>1 DEF IInv, Negotiation, TargetOfLink, UpdateOfLink, Excused
    <2>4. TargetReached'
      BY <1>2, <2>2 DEF TargetReached, Underway
    <2> QED
      BY <1>1, <1>4, <2>1, <2>2, <2>3, <2>4, IntervalStep DEF Negotiation
  <1>7. CASE CallFails(k)
    <2>1. failed' = failed \cup {"itvl"} /\ UNCHANGED updating /\ Done(k)
      BY <1>7 DEF CallFails
    <2>2. /\ request' \in [Tasks -> Steps] /\ asked' \in [Tasks -> Targets]
          /\ request'[k] = "idle" /\ \A j \in Tasks : j # k => request'[j] = request[j]
      BY <1>2, <2>1, GoesIs
    <2>3. failed' \subseteq Failures /\ ("adv" \in failed => "adv" \in failed') /\ Excused'
      BY <1>4, <2>1 DEF Failures, Excused
    <2>4. TargetOfLink' /\ UpdateOfLink' /\ TargetReached'
      BY <1>1, <1>2, <1>3, <2>1, <2>2, <2>3
      DEF IInv, Negotiation, TargetOfLink, UpdateOfLink, TargetReached, Tasks
    <2> QED
      BY <1>1, <1>4, <2>1, <2>2, <2>3, <2>4, IntervalStep DEF Negotiation
  <1> QED
    BY <1>5, <1>6, <1>7 DEF CallStack

\* The request the stack was busy for is marked as deferred.
LEMMA DeferRequestInv ==
    ASSUME IInv, NEW k \in Tasks, DeferRequest(k)
    PROVE  IInv'
  <1>1. /\ request[k] = "defer" /\ s_itvl_update_pending' = TRUE
        /\ failed' = (IF updating = "none" THEN failed \cup {"crossed"} ELSE failed) /\ Done(k)
        /\ UNCHANGED <<events, linkVars, timerVars, updating, itvl, s_itvl_target, gateVars,
                       readyVars>>
    BY DEF DeferRequest
  <1>2. "idle" \in Steps /\ k \in {"host", "app"}
    BY DEF Steps, Tasks
  <1>3. /\ request' \in [Tasks -> Steps] /\ asked' \in [Tasks -> Targets]
        /\ request'[k] = "idle" /\ \A j \in Tasks : j # k => request'[j] = request[j]
    BY <1>1, <1>2, GoesIs
  <1>4. Waiting' = Waiting /\ UNCHANGED <<link, conn>>
    BY <1>1 DEF Waiting, linkVars, readyVars
  <1>5. /\ updating \in Targets /\ s_itvl_target \in Targets
        /\ s_itvl_update_pending' \in BOOLEAN /\ failed \subseteq Failures
    BY <1>1 DEF IInv, TypeOK
  <1>6. /\ failed' \subseteq Failures /\ ("adv" \in failed => "adv" \in failed')
        /\ (Excused => Excused') /\ (updating = "none" => Excused')
    BY <1>1, <1>5 DEF Failures, Excused
  <1>7. TargetOfLink' /\ UpdateOfLink'
    BY <1>1, <1>2, <1>3, <1>4, <1>6 DEF IInv, Negotiation, TargetOfLink, UpdateOfLink, Tasks
  <1>8. TargetReached'
    BY <1>1, <1>6 DEF TargetReached
  <1> QED
    BY <1>1, <1>3, <1>5, <1>6, <1>7, <1>8, IntervalStep DEF Negotiation

\* The deferral is cleared after a request that was taken.
LEMMA ClearDeferralInv ==
    ASSUME IInv, NEW k \in Tasks, ClearDeferral(k)
    PROVE  IInv'
  <1>1. /\ request[k] = "clear" /\ s_itvl_update_pending' = FALSE
        /\ failed' = (IF s_itvl_update_pending /\ updating # s_itvl_target
                      THEN failed \cup {"crossed"} ELSE failed) /\ Done(k)
        /\ UNCHANGED <<events, linkVars, timerVars, updating, itvl, s_itvl_target, gateVars,
                       readyVars>>
    BY DEF ClearDeferral
  <1>2. "idle" \in Steps /\ k \in {"host", "app"}
    BY DEF Steps, Tasks
  <1>3. /\ request' \in [Tasks -> Steps] /\ asked' \in [Tasks -> Targets]
        /\ request'[k] = "idle" /\ \A j \in Tasks : j # k => request'[j] = request[j]
    BY <1>1, <1>2, GoesIs
  <1>4. Waiting' = Waiting /\ UNCHANGED <<link, conn>>
    BY <1>1 DEF Waiting, linkVars, readyVars
  <1>5. /\ updating \in Targets /\ s_itvl_target \in Targets
        /\ s_itvl_update_pending' \in BOOLEAN /\ failed \subseteq Failures
    BY <1>1 DEF IInv, TypeOK
  <1>6. /\ failed' \subseteq Failures /\ ("adv" \in failed => "adv" \in failed')
        /\ (Excused => Excused')
        /\ (s_itvl_update_pending /\ updating # s_itvl_target => Excused')
    BY <1>1, <1>5 DEF Failures, Excused
  <1>7. TargetOfLink' /\ UpdateOfLink'
    BY <1>1, <1>2, <1>3, <1>4, <1>6 DEF IInv, Negotiation, TargetOfLink, UpdateOfLink, Tasks
  <1>8. TargetReached'
    BY <1>1, <1>2, <1>3, <1>4, <1>6 DEF IInv, Negotiation, TargetReached, Underway, Tasks
  <1> QED
    BY <1>1, <1>3, <1>5, <1>6, <1>7, <1>8, IntervalStep DEF Negotiation

\* Any step of a request.
LEMMA RequestStepInv ==
    ASSUME IInv, NEW k \in Tasks, RequestStep(k)
    PROVE  IInv'
  BY SetTargetInv, CallStackInv, DeferRequestInv, ClearDeferralInv DEF RequestStep

-----------------------------------------------------------------------------
(* The stack and the central *)

\* A central connects, or tries to, while the device advertises.
LEMMA CentralConnectsInv ==
    ASSUME IInv, CentralConnects
    PROVE  IInv'
  <1>1. /\ adv /\ link = 0 /\ links < MaxLinks /\ adv' = FALSE
        /\ UNCHANGED <<cutting, timerVars, updating, itvl, s_itvl_target, s_itvl_update_pending,
                       request, asked, gateVars, readyVars, failed>>
    BY DEF CentralConnects
  <1>2. /\ ~retryTimer /\ Quiet /\ conn = 0 /\ \A e \in Waiting : e.type = "readyTimeout"
    BY <1>1 DEF IInv, Structure, QuietLink, Quiet
  <1>3. readyTimer = 0 /\ updating = "none" /\ cutting = 0
    BY <1>1, <1>2 DEF IInv, TimeoutOfLink, Negotiation, UpdateOfLink, Structure, EventsOfLink
  <1>4. /\ adv' \in BOOLEAN /\ links + 1 \in 0..MaxLinks /\ 0 \in 0..MaxLinks
        /\ links \in 0..MaxLinks /\ links + 1 # 0 /\ "none" \in Targets
    <2>1. adv' \in BOOLEAN
      BY <1>1
    <2>2. links \in 0..MaxLinks
      BY DEF IInv, TypeOK
    <2> QED
      BY <1>1, <2>1, <2>2, BoundsAssumption DEF Targets
  <1>5. ReadyTold'
    BY <1>1, ReadySame DEF readyVars
  <1>6. CASE /\ links' = links + 1 /\ link' = links'
             /\ Queue(Event("connect", link'))
    <2>1. PICK l \in 0..MaxLinks : l = links + 1
      BY <1>4
    <2>2. PICK e \in Events : e = Event("connect", l) /\ e.type = "connect" /\ e.link = l
      BY EventIs DEF EventTypes
    <2>3. Queue(e) /\ links' = l /\ link' = l
      BY <1>6, <2>1, <2>2
    <2>4. \A f \in Waiting : Before(f, e)
      BY <1>2, <2>2 DEF Before, Starters
    <2>5. events' \in Seq(Events) /\ Ordered(events)' /\ Waiting' = Waiting \cup {e}
      BY <2>3, <2>4, Added
    <2>6. ~Quiet' /\ l # 0
      BY <1>4, <2>1, <2>3 DEF Quiet
    <2>7. EventsOfLink'
      BY <1>1, <1>2, <1>3, <2>2, <2>3, <2>5, <2>6 DEF EventsOfLink, LinkEvents
    <2>8. QuietLink' /\ BusyLink'
      BY <1>1, <1>2, <2>2, <2>5, <2>6 DEF QuietLink, BusyLink, Starters, timerVars, readyVars
    <2>9. CanBeFound'
      BY <2>3, <2>6, FoundIsNext
    <2>10. TypeOK'
      BY <1>1, <1>4, <1>6, <2>3, <2>5 DEF IInv, TypeOK, timerVars, gateVars, readyVars
    <2>11. TimeoutOfLink' /\ Negotiation'
      BY <1>1, <1>2, <1>3, <2>2, <2>5
      DEF TimeoutOfLink, IInv, Negotiation, TargetOfLink, UpdateOfLink, TargetReached, Excused,
          timerVars, readyVars
    <2> QED
      BY <1>5, <2>5, <2>7, <2>8, <2>9, <2>10, <2>11 DEF IInv, Structure
  <1>7. CASE UNCHANGED <<link, links>> /\ Queue(Event("connectFailed", 0))
    <2>1. PICK e \in Events : e = Event("connectFailed", 0) /\ e.type = "connectFailed"
      BY <1>4, EventIs DEF EventTypes
    <2>2. \A f \in Waiting : Before(f, e)
      BY <1>2, <2>1 DEF Before, Starters
    <2>3. events' \in Seq(Events) /\ Ordered(events)' /\ Waiting' = Waiting \cup {e}
      BY <1>7, <2>1, <2>2, Added
    <2>4. Quiet' /\ conn' = 0 /\ ~adv' /\ ~retryTimer'
      BY <1>1, <1>2, <1>7, <2>1, <2>3 DEF Quiet, readyVars, timerVars
    <2>5. EventsOfLink' /\ QuietLink' /\ BusyLink'
      BY <1>1, <1>2, <1>7, <2>1, <2>3, <2>4
      DEF IInv, Structure, EventsOfLink, QuietLink, BusyLink, LinkEvents, Starters, gateVars
    <2>6. CanBeFound'
      BY <2>1, <2>3, FoundIsNext DEF Starters
    <2>7. TypeOK'
      BY <1>1, <1>4, <1>7, <2>3 DEF IInv, TypeOK, timerVars, gateVars, readyVars
    <2>8. TimeoutOfLink'
      BY <1>1, <1>3, <2>4 DEF TimeoutOfLink, timerVars
    <2>9. Negotiation'
      BY <1>1, <1>2, <1>3, <1>7, <2>4
      DEF IInv, Negotiation, TargetOfLink, UpdateOfLink, TargetReached, Excused
    <2> QED
      BY <1>5, <2>3, <2>5, <2>6, <2>7, <2>8, <2>9 DEF IInv, Structure
  <1> QED
    BY <1>6, <1>7 DEF CentralConnects

\* A link ends.
LEMMA LinkEndsInv ==
    ASSUME IInv, LinkLost \/ LinkCut
    PROVE  IInv'
  <1>1. /\ link # 0
        /\ link' = 0 /\ cutting' = 0 /\ updating' = "none" /\ itvl' = "none" /\ onAir' = 0
        /\ Queue(Event("disconnect", link))
        /\ UNCHANGED <<links, adv, timerVars, s_itvl_target, s_itvl_update_pending,
                       request, asked, gate, tx, readyVars, failed>>
    BY DEF LinkLost, LinkCut, LinkEnds, IInv, Structure, EventsOfLink
  <1>2. link = links /\ \A e \in Waiting : e.type # "disconnect"
    BY <1>1 DEF IInv, Structure, EventsOfLink
  <1>3. /\ ~Quiet /\ ~adv /\ ~retryTimer /\ \A e \in Waiting : e.type \notin Starters
    BY <1>1 DEF IInv, Structure, BusyLink, Quiet
  <1>4. links \in 0..MaxLinks /\ 0 \in 0..MaxLinks /\ "none" \in Targets
    BY BoundsAssumption DEF IInv, TypeOK, Targets
  <1>5. PICK e \in Events : e = Event("disconnect", links) /\ e.type = "disconnect" /\ e.link = links
    BY <1>4, EventIs DEF EventTypes
  <1>6. \A f \in Waiting : Before(f, e)
    BY <1>2, <1>3, <1>5 DEF Before, Starters
  <1>7. events' \in Seq(Events) /\ Ordered(events)' /\ Waiting' = Waiting \cup {e}
    BY <1>1, <1>2, <1>5, <1>6, Added
  <1>8. ~Quiet'
    BY <1>5, <1>7 DEF Quiet
  <1>9. EventsOfLink'
    BY <1>1, <1>2, <1>5, <1>7 DEF IInv, Structure, EventsOfLink
  <1>10. QuietLink' /\ BusyLink'
    BY <1>1, <1>3, <1>5, <1>7, <1>8
    DEF IInv, Structure, QuietLink, BusyLink, Starters, timerVars, readyVars
  <1>11. CanBeFound'
    BY <1>5, <1>7, FoundIsNext
  <1>12. TypeOK'
    BY <1>1, <1>4, <1>7 DEF IInv, TypeOK, timerVars, readyVars
  <1>13. TimeoutOfLink'
    BY <1>1, <1>5, <1>7, TimeoutSame DEF timerVars, readyVars
  <1>14. Negotiation'
    BY <1>1, <1>2
    DEF IInv, Negotiation, TargetOfLink, UpdateOfLink, TargetReached, Excused, readyVars
  <1>15. ReadyTold'
    BY <1>1, ReadySame DEF readyVars
  <1> QED
    BY <1>7, <1>9, <1>10, <1>11, <1>12, <1>13, <1>14, <1>15 DEF IInv, Structure

\* The central subscribes, writes the control characteristic, or begins or ends
\* an update of the firmware.
LEMMA CentralWritesInv ==
    ASSUME IInv, CentralWrites
    PROVE  IInv'
  <1>1. /\ link # 0
        /\ UNCHANGED <<linkVars, timerVars, itvlVars, gateVars, readyVars, failed>>
    BY DEF CentralWrites
  <1>2. link \in 0..MaxLinks /\ onAir \in Nat
    BY DEF IInv, TypeOK
  <1>3. PICK e \in Events :
           /\ Queue(e) /\ e.link = link /\ e.type \in {"subscribe", "control", "ota"}
           /\ e.type = "ota" => e.target \in {"fast", "slow"}
    <2>1. ASSUME NEW a \in Attributes, NEW on \in BOOLEAN,
                 Queue([Event("subscribe", link) EXCEPT !.attr = a, !.on = on])
          PROVE  \E e \in Events :
                    /\ Queue(e) /\ e.link = link /\ e.type \in {"subscribe", "control", "ota"}
                    /\ e.type = "ota" => e.target \in {"fast", "slow"}
      <3> DEFINE s == Event("subscribe", link)
                 e == [s EXCEPT !.attr = a, !.on = on]
      <3>1. s \in Events /\ s.type = "subscribe" /\ s.link = link
        BY <1>2, EventIs DEF EventTypes
      <3> HIDE DEF s
      <3>2. e \in Events /\ e.type = "subscribe" /\ e.link = link
        BY <3>1 DEF Events
      <3>3. Queue(e)
        BY <2>1 DEF s
      <3> QED
        BY <3>2, <3>3
    <2>2. ASSUME Queue(Event("control", link))
          PROVE  \E e \in Events :
                    /\ Queue(e) /\ e.link = link /\ e.type \in {"subscribe", "control", "ota"}
                    /\ e.type = "ota" => e.target \in {"fast", "slow"}
      BY <1>2, <2>2, EventIs DEF EventTypes
    <2>3. ASSUME NEW t \in {"fast", "slow"}, Queue([Event("ota", link) EXCEPT !.target = t])
          PROVE  \E e \in Events :
                    /\ Queue(e) /\ e.link = link /\ e.type \in {"subscribe", "control", "ota"}
                    /\ e.type = "ota" => e.target \in {"fast", "slow"}
      <3> DEFINE s == Event("ota", link)
                 e == [s EXCEPT !.target = t]
      <3>1. s \in Events /\ s.type = "ota" /\ s.link = link /\ t \in Targets
        BY <1>2, EventIs DEF EventTypes, Targets
      <3> HIDE DEF s
      <3>2. e \in Events /\ e.type = "ota" /\ e.link = link /\ e.target = t
        BY <3>1 DEF Events
      <3>3. Queue(e)
        BY <2>3 DEF s
      <3> QED
        BY <3>2, <3>3
    <2> QED
      BY <2>1, <2>2, <2>3 DEF CentralWrites
  <1>4. Structure' /\ Waiting' = Waiting \cup {e} /\ events' \in Seq(Events)
    BY <1>1, <1>2, <1>3, StructureAdded DEF linkVars, timerVars, gateVars, readyVars
  <1>5. TypeOK'
    BY <1>1, <1>4 DEF IInv, TypeOK, linkVars, timerVars, itvlVars, gateVars, readyVars
  <1>6. TimeoutOfLink' /\ Negotiation' /\ ReadyTold'
    BY <1>1, <1>3, <1>4, TimeoutSame, NegotiationSame, ReadySame DEF linkVars, timerVars, readyVars
  <1> QED
    BY <1>4, <1>5, <1>6 DEF IInv

\* The heartbeat timer expires: its event is queued behind what its link sent.
LEMMA ReadyTimerInv ==
    ASSUME IInv, ReadyTimerFires
    PROVE  IInv'
  <1>1. /\ readyTimer # 0 /\ readyTimer' = 0
        /\ UNCHANGED <<linkVars, retryTimer, itvlVars, gateVars, readyVars, failed>>
    BY DEF ReadyTimerFires
  <1>2. readyTimer = links /\ conn # 0 /\ ~Quiet /\ links \in 0..MaxLinks /\ 0 \in 0..MaxLinks
    BY <1>1, BoundsAssumption DEF IInv, TypeOK, TimeoutOfLink, Structure, QuietLink
  <1>3. CASE UNCHANGED events
    <2>1. Structure' /\ Waiting' = Waiting
      BY <1>1, <1>3, StructureSame DEF linkVars, gateVars, readyVars, IInv, Structure, EventsOfLink
    <2>2. TypeOK'
      BY <1>1, <1>2, <1>3 DEF IInv, TypeOK, linkVars, itvlVars, gateVars, readyVars
    <2>3. TimeoutOfLink' /\ Negotiation' /\ ReadyTold'
      BY <1>1, <2>1, TimeoutSame, NegotiationSame, ReadySame DEF linkVars, readyVars
    <2> QED
      BY <2>1, <2>2, <2>3 DEF IInv
  <1>4. CASE Queue(Event("readyTimeout", readyTimer))
    <2>1. PICK e \in Events : e = Event("readyTimeout", links) /\ e.type = "readyTimeout"
                              /\ e.link = links
      BY <1>2, EventIs DEF EventTypes
    <2>2. /\ \A f \in Waiting : f.type # "connect" /\ f.type \notin Starters
          /\ ~adv /\ ~retryTimer
      BY <1>2 DEF IInv, Structure, BusyLink
    <2>3. \A f \in Waiting : Before(f, e)
      BY <2>1, <2>2 DEF Before, Starters
    <2>4. events' \in Seq(Events) /\ Ordered(events)' /\ Waiting' = Waiting \cup {e}
      BY <1>2, <1>4, <2>1, <2>3, Added
    <2>5. ~Quiet'
      BY <1>1, <1>2, <2>4 DEF Quiet, linkVars
    <2>6. EventsOfLink'
      BY <1>1, <2>1, <2>4 DEF IInv, Structure, EventsOfLink, LinkEvents, linkVars, gateVars
    <2>7. QuietLink' /\ BusyLink'
      BY <1>1, <1>2, <2>1, <2>2, <2>4, <2>5
      DEF IInv, Structure, QuietLink, BusyLink, Starters, linkVars, readyVars
    <2>8. CanBeFound'
      BY <1>1, <2>4, FoundIs, FoundIsNext DEF IInv, Structure, linkVars
    <2>9. TypeOK'
      BY <1>1, <1>2, <2>4 DEF IInv, TypeOK, linkVars, itvlVars, gateVars, readyVars
    <2>10. TimeoutOfLink'
      BY <1>1, <2>1, <2>4 DEF IInv, TimeoutOfLink, linkVars, readyVars
    <2>11. Negotiation' /\ ReadyTold'
      BY <1>1, <2>1, <2>4, NegotiationSame, ReadySame DEF linkVars, readyVars
    <2> QED
      BY <2>4, <2>6, <2>7, <2>8, <2>9, <2>10, <2>11 DEF IInv, Structure
  <1> QED
    BY <1>3, <1>4 DEF ReadyTimerFires

\* The retry timer expires.
LEMMA RetryTimerInv ==
    ASSUME IInv, RetryTimerFires
    PROVE  IInv'
  <1>1. /\ retryTimer /\ retryTimer' = FALSE
        /\ UNCHANGED <<linkVars, readyTimer, itvlVars, gateVars, readyVars, failed>>
    BY DEF RetryTimerFires
  <1>2. Quiet /\ ~adv /\ conn = 0 /\ \A e \in Waiting : e.type = "readyTimeout"
    BY <1>1 DEF IInv, Structure, QuietLink, BusyLink
  <1>3. Queue(Event("advRetry", 0))
    BY <1>2, QueuedIs DEF RetryTimerFires
  <1>4. retryTimer' \in BOOLEAN
    BY <1>1
  <1>5. 0 \in 0..MaxLinks
    BY BoundsAssumption
  <1>6. PICK e \in Events : e = Event("advRetry", 0) /\ e.type = "advRetry"
    BY <1>5, EventIs DEF EventTypes
  <1>7. \A f \in Waiting : Before(f, e)
    BY <1>2, <1>6 DEF Before, Starters
  <1>8. events' \in Seq(Events) /\ Ordered(events)' /\ Waiting' = Waiting \cup {e}
    BY <1>3, <1>6, <1>7, Added
  <1>9. Quiet' /\ conn' = 0 /\ ~adv' /\ ~retryTimer'
    BY <1>1, <1>2, <1>6, <1>8 DEF Quiet, linkVars, readyVars
  <1>10. EventsOfLink'
    BY <1>1, <1>6, <1>8 DEF IInv, Structure, EventsOfLink, LinkEvents, linkVars, gateVars
  <1>11. QuietLink' /\ BusyLink'
    BY <1>2, <1>6, <1>8, <1>9 DEF QuietLink, BusyLink, Starters
  <1>12. CanBeFound'
    BY <1>6, <1>8, FoundIsNext DEF Starters
  <1>13. TypeOK'
    BY <1>1, <1>4, <1>8 DEF IInv, TypeOK, linkVars, itvlVars, gateVars, readyVars
  <1>14. TimeoutOfLink' /\ Negotiation' /\ ReadyTold'
    BY <1>1, <1>6, <1>8, TimeoutSame, NegotiationSame, ReadySame DEF linkVars, readyVars
  <1> QED
    BY <1>8, <1>10, <1>11, <1>12, <1>13, <1>14 DEF IInv, Structure

\* A notification is transmitted.
LEMMA TransmittedInv ==
    ASSUME IInv, Transmitted
    PROVE  IInv'
  <1>1. /\ onAir > 0 /\ onAir' = onAir - 1 /\ Queue(Event("notifyTx", link))
        /\ UNCHANGED <<linkVars, timerVars, itvlVars, gate, tx, readyVars, failed>>
    BY DEF Transmitted
  <1>2. link # 0 /\ link \in 0..MaxLinks /\ onAir' \in Nat
    BY <1>1 DEF IInv, TypeOK, Structure, EventsOfLink
  <1>3. PICK e \in Events : Queue(e) /\ e.type = "notifyTx" /\ e.link = link
    BY <1>1, <1>2, EventIs DEF EventTypes
  <1>4. Structure' /\ Waiting' = Waiting \cup {e} /\ events' \in Seq(Events)
    BY <1>1, <1>2, <1>3, StructureAdded DEF linkVars, timerVars, readyVars
  <1>5. TypeOK'
    BY <1>1, <1>2, <1>4 DEF IInv, TypeOK, linkVars, timerVars, itvlVars, readyVars
  <1>6. TimeoutOfLink' /\ Negotiation' /\ ReadyTold'
    BY <1>1, <1>3, <1>4, TimeoutSame, NegotiationSame, ReadySame DEF linkVars, timerVars, readyVars
  <1> QED
    BY <1>4, <1>5, <1>6 DEF IInv

\* An update ends, with the new interval or refused.
LEMMA NegotiatedInv ==
    ASSUME IInv, Negotiated
    PROVE  IInv'
  <1>1. /\ updating # "none" /\ ~Queued("connUpdate")
        /\ Queue(Event("connUpdate", link))
        /\ UNCHANGED <<linkVars, timerVars, updating, s_itvl_target, s_itvl_update_pending,
                       request, asked, gateVars, readyVars>>
    BY DEF Negotiated
  <1>2. link # 0 /\ conn = link /\ link \in 0..MaxLinks /\ onAir \in Nat
    BY <1>1 DEF IInv, TypeOK, Negotiation, UpdateOfLink
  <1>3. PICK e \in Events : Queue(e) /\ e.type = "connUpdate" /\ e.link = link
    BY <1>1, <1>2, EventIs DEF EventTypes
  <1>4. /\ itvl' \in Targets /\ failed' \subseteq Failures /\ failed \subseteq failed'
        /\ (itvl' = updating \/ Excused') /\ (Excused => Excused')
    BY DEF Negotiated, IInv, TypeOK, Failures, Excused
  <1>5. Structure' /\ Waiting' = Waiting \cup {e} /\ events' \in Seq(Events)
    BY <1>1, <1>2, <1>3, <1>4, StructureAdded DEF linkVars, timerVars, gateVars, readyVars
  <1>6. TypeOK'
    BY <1>1, <1>4, <1>5 DEF IInv, TypeOK, linkVars, timerVars, gateVars, readyVars
  <1>7. TimeoutOfLink' /\ ReadyTold'
    BY <1>1, <1>3, <1>5, TimeoutSame, ReadySame DEF linkVars, timerVars, readyVars
  <1>8. Negotiation'
    BY <1>1, <1>2, <1>4
    DEF IInv, Negotiation, TargetOfLink, UpdateOfLink, TargetReached, Underway, linkVars, readyVars
  <1> QED
    BY <1>5, <1>6, <1>7, <1>8 DEF IInv

-----------------------------------------------------------------------------
(* Other tasks *)

\* The audio task takes the gate, hands the stack a notification, or gives up.
LEMMA AudioInv ==
    ASSUME IInv, SendAudio \/ TakeGate \/ NotifyAudio
    PROVE  IInv'
  <1>1. UNCHANGED <<events, linkVars, timerVars, itvlVars, readyVars, failed>>
    BY DEF SendAudio, TakeGate, NotifyAudio
  <1>2. onAir' \in Nat /\ (onAir' > 0 => link # 0)
    BY DEF SendAudio, TakeGate, NotifyAudio, IInv, TypeOK, Structure, EventsOfLink
  <1>3. gate' \in 0..1 /\ tx' \in {"idle", "wait", "notify"}
    BY DEF SendAudio, TakeGate, NotifyAudio, IInv, TypeOK
  <1>4. Structure' /\ Waiting' = Waiting
    BY <1>1, <1>2, StructureSame DEF linkVars, timerVars, readyVars, IInv, Structure, EventsOfLink
  <1>5. TypeOK'
    BY <1>1, <1>2, <1>3 DEF IInv, TypeOK, linkVars, timerVars, itvlVars, readyVars
  <1>6. TimeoutOfLink' /\ Negotiation' /\ ReadyTold'
    BY <1>1, <1>4, TimeoutSame, NegotiationSame, ReadySame DEF linkVars, timerVars, readyVars
  <1> QED
    BY <1>4, <1>5, <1>6 DEF IInv

\* The app task ends the link.
LEMMA AppDisconnectInv ==
    ASSUME IInv, voice_ble_disconnect
    PROVE  IInv'
  <1>1. UNCHANGED <<events, link, links, adv, timerVars, itvlVars, gateVars, readyVars>>
    BY DEF voice_ble_disconnect
  <1>2. /\ cutting' \in {0, link} /\ failed \subseteq failed'
        /\ failed' \subseteq Failures
    BY DEF voice_ble_disconnect, Terminate, IInv, TypeOK, Structure, EventsOfLink, Failures
  <1>3. Structure' /\ Waiting' = Waiting
    BY <1>1, <1>2, StructureSame DEF timerVars, gateVars, readyVars, IInv, Structure, EventsOfLink
  <1>4. cutting' \in 0..MaxLinks
    BY <1>2, BoundsAssumption DEF IInv, TypeOK
  <1>5. TypeOK'
    BY <1>1, <1>2, <1>4 DEF IInv, TypeOK, timerVars, itvlVars, gateVars, readyVars
  <1>6. TimeoutOfLink' /\ Negotiation' /\ ReadyTold'
    BY <1>1, <1>2, <1>3, TimeoutSame, NegotiationSame, ReadySame DEF timerVars, readyVars, Excused
  <1> QED
    BY <1>3, <1>5, <1>6 DEF IInv

-----------------------------------------------------------------------------
(* The invariant *)

\* At the start only the synchronisation of the stack is queued.
LEMMA InitInv == Init => IInv
  <1> SUFFICES ASSUME Init PROVE IInv
    OBVIOUS
  <1>1. 0 \in 0..MaxLinks
    BY BoundsAssumption
  <1>2. PICK e \in Events : e = Event("sync", 0) /\ e.type = "sync"
    BY <1>1, EventIs DEF EventTypes
  <1>3. events = <<e>>
    BY <1>2 DEF Init
  <1>4. events \in Seq(Events) /\ Len(events) = 1 /\ events[1] = e
    BY <1>3
  <1>5. Waiting = {e} /\ Ordered(events)
    BY <1>4 DEF Waiting, Entries, Ordered
  <1>6. FALSE \in BOOLEAN /\ 0 \in Nat /\ 1 \in 0..1 /\ "none" \in Targets /\ "idle" \in Steps
    BY DEF Targets, Steps
  <1>7. TypeOK
    BY <1>1, <1>4, <1>6 DEF Init, TypeOK
  <1>8. Quiet
    BY <1>2, <1>5 DEF Init, Quiet
  <1>9. EventsOfLink /\ QuietLink /\ BusyLink
    BY <1>2, <1>5, <1>8 DEF Init, EventsOfLink, QuietLink, BusyLink, LinkEvents, Starters
  <1>10. CanBeFound
    BY <1>2, <1>5, FoundIs DEF Starters
  <1>11. TimeoutOfLink /\ Negotiation
    BY DEF Init, TimeoutOfLink, Negotiation, TargetOfLink, UpdateOfLink, TargetReached, Tasks
  <1>12. ReadyTold
    BY DEF Init, ReadyTold, voice_ble_is_ready, IsReady
  <1> QED
    BY <1>5, <1>7, <1>9, <1>10, <1>11, <1>12 DEF IInv, Structure

\* Nothing changes.
LEMMA StutterInv ==
    ASSUME IInv, UNCHANGED vars
    PROVE  IInv'
  <1> USE DEF vars, linkVars, timerVars, itvlVars, gateVars, readyVars
  <1>1. Structure' /\ Waiting' = Waiting
    BY StructureSame DEF IInv, Structure, EventsOfLink
  <1>2. TypeOK'
    BY DEF IInv, TypeOK
  <1>3. TimeoutOfLink' /\ Negotiation' /\ ReadyTold'
    BY <1>1, TimeoutSame, NegotiationSame, ReadySame DEF Excused
  <1> QED
    BY <1>1, <1>2, <1>3 DEF IInv

\* Every step keeps the inductive invariant.
LEMMA NextInv == IInv /\ [Next]_vars => IInv'
  BY StartInv, ReadyTimeoutInv, ConnectInv, ConnectFailedInv, DisconnectInv, SubscribeInv,
     ControlInv, OtaInv, NotifyTxInv, ConnUpdateInv, CentralConnectsInv, LinkEndsInv,
     CentralWritesInv, ReadyTimerInv, RetryTimerInv, TransmittedInv, NegotiatedInv, AudioInv,
     RequestIntervalInv, RetryDeferralInv, RequestStepInv, AppDisconnectInv, StutterInv
  DEF Next, HostTask, Tasks

\* A handler that makes the stack cut a link does it to the link of its event.
LEMMA CutsItsLink ==
    ASSUME IInv, Next, cutting' # cutting, events # <<>>, events' = Tail(events)
    PROVE  cutting' \in {0, Head(events).link}
  <1>1. Tail(events) # events
    BY QueueTail DEF IInv, TypeOK, Structure
  <1>2. CASE ready_timeout_callout_cb
    <2>1. conn # 0 /\ Terminate(conn)
      BY <1>2 DEF ready_timeout_callout_cb
    <2>2. cutting' = link /\ conn = link
      BY <2>1 DEF Terminate
    <2>3. link = links
      BY <2>1, <2>2 DEF IInv, Structure, EventsOfLink
    <2>4. Head(events) \in Waiting /\ Head(events).type = "readyTimeout"
      BY <1>2, Taken DEF ready_timeout_callout_cb
    <2> QED
      BY <2>1, <2>2, <2>3, <2>4 DEF IInv, TimeoutOfLink
  <1>3. CASE LinkLost \/ LinkCut
    BY <1>3 DEF LinkLost, LinkCut, LinkEnds
  <1>4. ~voice_ble_disconnect
    BY <1>1 DEF voice_ble_disconnect
  <1>5. CASE HostTask /\ ~ready_timeout_callout_cb
    BY <1>5 DEF HostTask, on_sync, adv_retry_callout_cb, OnConnect, OnConnectFailed, OnDisconnect,
       OnSubscribe, control_access_cb, ota_access_cb, OnNotifyTx, OnConnUpdate, RetryDeferral, RequestStep,
       SetTarget, CallStack, DeferRequest, ClearDeferral, linkVars
  <1>6. CASE CentralConnects \/ CentralWrites \/ ReadyTimerFires \/ RetryTimerFires
             \/ Transmitted \/ Negotiated
    BY <1>6 DEF CentralConnects, CentralWrites, ReadyTimerFires, RetryTimerFires, Transmitted,
       Negotiated, linkVars
  <1>7. CASE SendAudio \/ TakeGate \/ NotifyAudio \/ RequestInterval \/ RequestStep("app")
    BY <1>7 DEF SendAudio, TakeGate, NotifyAudio, RequestInterval, RequestStep, SetTarget,
       CallStack, DeferRequest, ClearDeferral, linkVars
  <1> QED
    BY <1>2, <1>3, <1>4, <1>5, <1>6, <1>7 DEF Next

-----------------------------------------------------------------------------
(* The theorems *)

\* The inductive invariant holds of the link.
THEOREM Invariant == Spec => []IInv
  BY InitInv, NextInv, PTL DEF Spec

\* Every variable keeps its type, and every queued event.
THEOREM TypeCorrect == Spec => []TypeOK
  <1>1. IInv => TypeOK
    BY DEF IInv
  <1> QED
    BY <1>1, Invariant, PTL

\* The device can be found again whenever it has no link, unless setting the
\* advertising data failed (start_advertising and its retry).
THEOREM FoundAgain == Spec => []CanBeFound
  <1>1. IInv => CanBeFound
    BY DEF IInv, Structure
  <1> QED
    BY <1>1, Invariant, PTL

\* The application was last told what voice_ble_is_ready returns
\* (s_connection_cb).
THEOREM ApplicationKnows == Spec => []ReadyTold
  <1>1. IInv => ReadyTold
    BY DEF IInv
  <1> QED
    BY <1>1, Invariant, PTL

\* Once nothing is being asked or negotiated the link runs at the interval asked
\* for last, unless the stack or the central refused it or requests of the two
\* tasks crossed (voice_ble_request_fast_interval, BLE_GAP_EVENT_CONN_UPDATE).
THEOREM IntervalReached == Spec => []IntervalSettles
  <1>1. IInv => IntervalSettles
    BY DEF IInv, Negotiation, TargetReached, Underway, IntervalSettles, NobodyAsks, Tasks
  <1> QED
    BY <1>1, Invariant, PTL

\* A heartbeat timeout that was handled late never cuts a newer link
\* (ready_timeout_callout_cb).
THEOREM TimeoutCutsItsLink == Spec => TimeoutHitsItsLink
  <1>1. IInv /\ [Next]_vars =>
           [cutting' # cutting /\ events # <<>> /\ events' = Tail(events)
               => cutting' \in {0, Head(events).link}]_vars
    BY CutsItsLink
  <1> QED
    BY <1>1, Invariant, PTL DEF Spec, TimeoutHitsItsLink
=============================================================================
