------------------------------ MODULE VoiceBle ------------------------------
(***************************************************************************)
(* The BLE link of the device                                              *)
(* (src/firmware/components/voice_ble/voice_ble.c): advertising, the       *)
(* handshake and heartbeat timeout, readiness, the gate that keeps one     *)
(* audio notification in the stack, and the connection interval.           *)
(*                                                                         *)
(* GAP events, GATT writes and callouts run one at a time, in the order    *)
(* they were queued, on the NimBLE host task.  voice_ble_send_audio runs   *)
(* on the audio tx task and the interval requests also on the app task,    *)
(* both without a lock.                                                    *)
(*                                                                         *)
(* The NimBLE stack is external: a callout that expires queues its event,  *)
(* which stopping or resetting the callout does not take back; terminate   *)
(* and parameter updates complete later, with an event; a notification     *)
(* that was accepted is reported when it is transmitted.  A parameter      *)
(* update ends as it was asked for, or is refused and leaves the interval  *)
(* as it is; no other interval comes from the central.                     *)
(***************************************************************************)
EXTENDS Naturals, Sequences

CONSTANTS
    MaxLinks,     \* bound on how often a central connects
    MaxEvents,    \* bound on what the central queues, by load
    Loads         \* what the link is used for, one of these in a behaviour

\* Use by other tasks, by the OTA service and for handshakes; advertising and
\* connections happen under every load.
Uses == {"audio", "control", "interval"}

ASSUME LoadsAssumption == Loads \subseteq SUBSET Uses
ASSUME BoundsAssumption == MaxLinks \in Nat \ {0} /\ MaxEvents \in [Loads -> Nat \ {0}]

VARIABLES
    \* the stack
    events,       \* the default event queue of the host task
    link, links,  \* the link that is up, or 0, and how many there were
    adv,          \* ble_gap_adv_active()
    readyTimer,   \* s_ready_timeout_callout: the link it was reset for, or 0
    retryTimer,   \* s_adv_retry_callout is armed
    cutting,      \* the link ble_gap_terminate ends, or 0
    updating,     \* the connection interval being negotiated, or "none"
    itvl,         \* the connection interval in use
    onAir,        \* audio notifications accepted and not transmitted
    \* voice_ble.c
    conn,         \* s_conn_handle while s_connected, or 0
    subs,         \* the attributes of s_audio_subscribed and s_state_subscribed
    s_control_seen,
    gate,         \* s_audio_notify_gate
    s_itvl_target, s_itvl_update_pending,
    tx,           \* where voice_ble_send_audio is
    request,      \* how far the interval request of each task has come
    asked,        \* the interval it asks for
    load,         \* what this behaviour exercises
    \* history
    told,         \* what s_connection_cb was last told
    failed        \* what failed and nothing tries again, and requests that crossed

linkVars  == <<link, links, adv, cutting>>
timerVars == <<readyTimer, retryTimer>>
itvlVars  == <<updating, itvl, s_itvl_target, s_itvl_update_pending, request, asked>>
gateVars  == <<gate, tx, onAir>>
readyVars == <<conn, subs, s_control_seen, told, load>>
vars == <<events, linkVars, timerVars, itvlVars, gateVars, readyVars, failed>>

Failures   == {"adv", "cut", "itvl", "crossed"}
Attributes == {"audio", "state"}
Targets    == {"none", "fast", "slow"}

\* The tasks that ask for an interval, and the steps of a request: the deferral
\* is looked at, the target written, the stack called, the deferral set or
\* cleared.
Tasks == {"host", "app"}
Steps == {"idle", "check", "set", "call", "defer", "clear"}

Event(type, l) == [type |-> type, link |-> l, attr |-> "audio", on |-> FALSE, target |-> "none"]

EventTypes == {"sync", "connect", "connectFailed", "disconnect", "subscribe", "control",
               "ota", "notifyTx", "connUpdate", "readyTimeout", "advRetry"}

Events == [type : EventTypes, link : 0..MaxLinks, attr : Attributes, on : BOOLEAN,
           target : Targets]

\* The type of every variable.
TypeOK ==
    /\ events \in Seq(Events)
    /\ link \in 0..MaxLinks /\ links \in 0..MaxLinks
    /\ adv \in BOOLEAN
    /\ readyTimer \in 0..MaxLinks /\ retryTimer \in BOOLEAN
    /\ cutting \in 0..MaxLinks
    /\ updating \in Targets /\ itvl \in Targets
    /\ onAir \in Nat
    /\ conn \in 0..MaxLinks
    /\ subs \subseteq Attributes
    /\ s_control_seen \in BOOLEAN
    /\ gate \in 0..1
    /\ s_itvl_target \in Targets /\ s_itvl_update_pending \in BOOLEAN
    /\ tx \in {"idle", "wait", "notify"}
    /\ request \in [Tasks -> Steps] /\ asked \in [Tasks -> Targets]
    /\ load \in Loads
    /\ told \in BOOLEAN
    /\ failed \subseteq Failures

\* voice_ble_init; the stack synchronises later.
Init ==
    /\ events = <<Event("sync", 0)>>
    /\ link = 0 /\ links = 0 /\ adv = FALSE
    /\ readyTimer = 0 /\ retryTimer = FALSE /\ cutting = 0
    /\ updating = "none" /\ itvl = "none" /\ onAir = 0
    /\ conn = 0 /\ subs = {} /\ s_control_seen = FALSE
    /\ gate = 1 /\ tx = "idle"
    /\ s_itvl_target = "none" /\ s_itvl_update_pending = FALSE
    /\ request = [k \in Tasks |-> "idle"] /\ asked = [k \in Tasks |-> "none"]
    /\ told = FALSE /\ failed = {}
    /\ load \in Loads

-----------------------------------------------------------------------------
(* The stack and the central. *)

Queue(e) == events' = Append(events, e)
Queued(type) == \E i \in 1..Len(events) : events[i].type = type

\* A connection ends advertising; an attempt that fails does too.  A new link
\* runs at an interval of the central's ("none").
CentralConnects ==
    /\ adv /\ link = 0 /\ links < MaxLinks
    /\ adv' = FALSE
    /\ \/ /\ links' = links + 1 /\ link' = links'
          /\ Queue(Event("connect", link'))
       \/ /\ UNCHANGED <<link, links>>
          /\ Queue(Event("connectFailed", 0))
    /\ UNCHANGED <<cutting, timerVars, updating, itvl, s_itvl_target, s_itvl_update_pending,
                   request, asked, gateVars, readyVars, failed>>

\* The link ends: out of range, by the central, or by ble_gap_terminate.
LinkEnds ==
    /\ link' = 0 /\ cutting' = 0 /\ updating' = "none" /\ itvl' = "none" /\ onAir' = 0
    /\ Queue(Event("disconnect", link))
    /\ UNCHANGED <<links, adv, timerVars, s_itvl_target, s_itvl_update_pending,
                   request, asked, gate, tx, readyVars, failed>>

LinkLost == link # 0 /\ LinkEnds
LinkCut  == cutting # 0 /\ LinkEnds

\* Subscriptions, control writes, and OTA writes, which ask for an interval.
CentralWrites ==
    /\ link # 0 /\ Len(events) < MaxEvents[load]
    /\ \/ \E a \in Attributes, on \in BOOLEAN :
             "audio" \in load /\ Queue([Event("subscribe", link) EXCEPT !.attr = a, !.on = on])
       \/ "control" \in load /\ Queue(Event("control", link))
       \/ \E t \in {"fast", "slow"} : "interval" \in load /\ Queue([Event("ota", link) EXCEPT !.target = t])
    /\ UNCHANGED <<linkVars, timerVars, itvlVars, gateVars, readyVars, failed>>

\* An expired callout queues its event, unless it still is in the queue.
ReadyTimerFires ==
    /\ readyTimer # 0
    /\ readyTimer' = 0
    /\ IF Queued("readyTimeout") THEN UNCHANGED events
       ELSE Queue(Event("readyTimeout", readyTimer))
    /\ UNCHANGED <<linkVars, retryTimer, itvlVars, gateVars, readyVars, failed>>

RetryTimerFires ==
    /\ retryTimer
    /\ retryTimer' = FALSE
    /\ IF Queued("advRetry") THEN UNCHANGED events ELSE Queue(Event("advRetry", 0))
    /\ UNCHANGED <<linkVars, readyTimer, itvlVars, gateVars, readyVars, failed>>

Transmitted ==
    /\ onAir > 0
    /\ onAir' = onAir - 1
    /\ Queue(Event("notifyTx", link))
    /\ UNCHANGED <<linkVars, timerVars, itvlVars, gate, tx, readyVars, failed>>

\* The update that was asked for ends: the interval is the new one, or it was
\* refused and the event has a status that OnConnUpdate only logs.
Negotiated ==
    /\ updating # "none" /\ ~Queued("connUpdate")
    /\ \/ itvl' = updating /\ UNCHANGED failed
       \/ failed' = failed \cup {"itvl"} /\ UNCHANGED itvl
    /\ Queue(Event("connUpdate", link))
    /\ UNCHANGED <<linkVars, timerVars, updating, s_itvl_target, s_itvl_update_pending,
                   request, asked, gateVars, readyVars>>

-----------------------------------------------------------------------------
(* Functions of voice_ble.c that the host task calls. *)

IsReady(c, s, seen) == c # 0 /\ s = Attributes /\ seen
voice_ble_is_ready == IsReady(conn, subs, s_control_seen)

\* s_connection_cb is called when readiness changes.
TellIfChanged == told' = IF IsReady(conn', subs', s_control_seen') # voice_ble_is_ready
                         THEN IsReady(conn', subs', s_control_seen') ELSE told

\* Mutant: a failure to start is not tried again.
start_advertising_once(connected) ==
    IF connected \/ adv
    THEN UNCHANGED <<adv, retryTimer, failed>>
    ELSE adv' \in BOOLEAN /\ UNCHANGED <<retryTimer, failed>>

\* Only a failure of ble_gap_adv_start is tried again; one to set the fields
\* is not.
start_advertising(connected) ==
    IF connected \/ adv
    THEN UNCHANGED <<adv, retryTimer, failed>>
    ELSE \/ adv' = TRUE /\ failed' = failed \ {"adv"} /\ UNCHANGED retryTimer
         \/ retryTimer' = TRUE /\ UNCHANGED <<adv, failed>>
         \/ failed' = failed \cup {"adv"} /\ UNCHANGED <<adv, retryTimer>>

\* ble_gap_terminate: an unknown link is no error; it may fail.
Terminate(c) ==
    \/ cutting' = (IF c = link THEN link ELSE cutting) /\ UNCHANGED failed
    \/ failed' = failed \cup {"cut"} /\ UNCHANGED cutting

-----------------------------------------------------------------------------
(* voice_ble_request_fast_interval and voice_ble_request_slow_interval, step by *)
(* step: the host task and the app task share what they write, without a lock. *)

Goes(k, to) == request' = [request EXCEPT ![k] = to] /\ UNCHANGED asked
Done(k)     == /\ request' = [request EXCEPT ![k] = "idle"]
               /\ asked' = [asked EXCEPT ![k] = "none"]

\* Only a connected device asks.
Asks(k, t) ==
    IF conn = 0 THEN Done(k)
    ELSE /\ request' = [request EXCEPT ![k] = "set"]
         /\ asked' = [asked EXCEPT ![k] = t]

SetTarget(k) ==
    /\ request[k] = "set"
    /\ s_itvl_target' = asked[k]
    /\ Goes(k, "call")
    /\ UNCHANGED <<events, linkVars, timerVars, updating, itvl, s_itvl_update_pending,
                   gateVars, readyVars, failed>>

\* ble_gap_update_params takes the request.  When another task has written its
\* target since, the two have crossed.
CallTaken(k) ==
    /\ conn # 0 /\ conn = link /\ updating = "none"
    /\ updating' = asked[k]
    /\ failed' = IF asked[k] = s_itvl_target THEN failed \ {"itvl", "crossed"}
                 ELSE failed \cup {"crossed"}
    /\ Goes(k, "clear")

\* It returns BLE_HS_EALREADY during an update.
CallBusy(k) ==
    /\ conn # 0 /\ conn = link /\ updating # "none"
    /\ UNCHANGED <<updating, failed>>
    /\ Goes(k, "defer")

\* It fails: without its link, or without memory.
CallFails(k) ==
    /\ conn = 0 \/ conn # link \/ updating = "none"
    /\ failed' = failed \cup {"itvl"}
    /\ UNCHANGED updating
    /\ Done(k)

CallStack(k) ==
    /\ request[k] = "call"
    /\ CallTaken(k) \/ CallBusy(k) \/ CallFails(k)
    /\ UNCHANGED <<events, linkVars, timerVars, itvl, s_itvl_target, s_itvl_update_pending,
                   gateVars, readyVars>>

\* The update may have ended since the call: nothing makes this request again.
DeferRequest(k) ==
    /\ request[k] = "defer"
    /\ s_itvl_update_pending' = TRUE
    /\ failed' = IF updating = "none" THEN failed \cup {"crossed"} ELSE failed
    /\ Done(k)
    /\ UNCHANGED <<events, linkVars, timerVars, updating, itvl, s_itvl_target, gateVars,
                   readyVars>>

\* The deferral cleared may be one that the other task has set since the call.
ClearDeferral(k) ==
    /\ request[k] = "clear"
    /\ s_itvl_update_pending' = FALSE
    /\ failed' = IF s_itvl_update_pending /\ updating # s_itvl_target
                 THEN failed \cup {"crossed"} ELSE failed
    /\ Done(k)
    /\ UNCHANGED <<events, linkVars, timerVars, updating, itvl, s_itvl_target, gateVars,
                   readyVars>>

RequestStep(k) == SetTarget(k) \/ CallStack(k) \/ DeferRequest(k) \/ ClearDeferral(k)

-----------------------------------------------------------------------------
(* The host task. *)

\* It takes an event when it is done with the last one.
Handle(type) ==
    /\ request["host"] = "idle"
    /\ events # <<>> /\ Head(events).type = type /\ events' = Tail(events)

on_sync ==
    /\ Handle("sync")
    /\ start_advertising(conn # 0)
    /\ UNCHANGED <<link, links, cutting, readyTimer, itvlVars, gateVars, readyVars>>

adv_retry_callout_cb ==
    /\ Handle("advRetry")
    /\ start_advertising(conn # 0)
    /\ UNCHANGED <<link, links, cutting, readyTimer, itvlVars, gateVars, readyVars>>

ready_timeout_callout_cb ==
    /\ Handle("readyTimeout")
    /\ IF conn # 0 THEN Terminate(conn) ELSE UNCHANGED <<cutting, failed>>
    /\ UNCHANGED <<link, links, adv, timerVars, itvlVars, gateVars, readyVars>>

\* It may fail, which is only logged.
stop_advertising == adv' \in {FALSE, adv}

\* BLE_GAP_EVENT_CONNECT
OnConnect ==
    /\ Handle("connect")
    /\ conn' = Head(events).link
    /\ subs' = {} /\ s_control_seen' = FALSE
    /\ stop_advertising
    /\ readyTimer' = Head(events).link
    /\ failed' = failed \ {"cut", "adv"}
    /\ UNCHANGED <<link, links, cutting, retryTimer, itvlVars, gateVars, told, load>>

OnConnectFailed ==
    /\ Handle("connectFailed")
    /\ start_advertising(conn # 0)
    /\ told' = FALSE
    /\ UNCHANGED <<link, links, cutting, readyTimer, itvlVars, gateVars, conn, subs,
                   s_control_seen, load>>

\* Mutant: the timeout is not stopped.
OnDisconnectTimed ==
    /\ Handle("disconnect")
    /\ conn' = 0 /\ subs' = {} /\ s_control_seen' = FALSE
    /\ s_itvl_target' = "none" /\ s_itvl_update_pending' = FALSE
    /\ gate' = 1
    /\ start_advertising(FALSE)
    /\ told' = FALSE
    /\ UNCHANGED <<link, links, cutting, readyTimer, updating, itvl, request, asked, tx, onAir, load>>

\* BLE_GAP_EVENT_DISCONNECT
OnDisconnect ==
    /\ Handle("disconnect")
    /\ readyTimer' = 0
    /\ conn' = 0 /\ subs' = {} /\ s_control_seen' = FALSE
    /\ s_itvl_target' = "none" /\ s_itvl_update_pending' = FALSE
    /\ gate' = 1
    /\ start_advertising(FALSE)
    /\ told' = FALSE
    /\ UNCHANGED <<link, links, cutting, updating, itvl, request, asked, tx, onAir, load>>

\* BLE_GAP_EVENT_SUBSCRIBE synchronises the connection first.
OnSubscribe ==
    /\ Handle("subscribe")
    /\ conn' = Head(events).link
    /\ subs' = IF Head(events).on THEN subs \cup {Head(events).attr}
               ELSE subs \ {Head(events).attr}
    /\ UNCHANGED <<s_control_seen, load>>
    /\ TellIfChanged
    /\ UNCHANGED <<linkVars, timerVars, itvlVars, gateVars, failed>>

\* Mutant: the handshake does not tell that the link became ready.
control_access_cb_silent ==
    /\ Handle("control")
    /\ conn' = Head(events).link
    /\ s_control_seen' = TRUE
    /\ readyTimer' = Head(events).link
    /\ UNCHANGED <<subs, load, told>>
    /\ UNCHANGED <<linkVars, retryTimer, itvlVars, gateVars, failed>>

control_access_cb ==
    /\ Handle("control")
    /\ conn' = Head(events).link
    /\ s_control_seen' = TRUE
    /\ readyTimer' = Head(events).link
    /\ UNCHANGED <<subs, load>>
    /\ TellIfChanged
    /\ UNCHANGED <<linkVars, retryTimer, itvlVars, gateVars, failed>>

\* The OTA handlers ask for a fast interval to begin and a slow one to end.
ota_access_cb ==
    /\ Handle("ota")
    /\ Asks("host", Head(events).target)
    /\ UNCHANGED <<linkVars, timerVars, updating, itvl, s_itvl_target, s_itvl_update_pending,
                   gateVars, readyVars, failed>>

\* BLE_GAP_EVENT_NOTIFY_TX
OnNotifyTx ==
    /\ Handle("notifyTx")
    /\ gate' = 1
    /\ UNCHANGED <<linkVars, timerVars, itvlVars, tx, onAir, readyVars, failed>>

\* BLE_GAP_EVENT_CONN_UPDATE: the stack has finished its update.
OnConnUpdate ==
    /\ Handle("connUpdate")
    /\ updating' = "none"
    /\ Goes("host", "check")
    /\ UNCHANGED <<linkVars, timerVars, itvl, s_itvl_target, s_itvl_update_pending, gateVars,
                   readyVars, failed>>

\* Mutant: a deferred request is forgotten.
ForgetDeferral ==
    /\ request["host"] = "check"
    /\ s_itvl_update_pending' = FALSE
    /\ Done("host")
    /\ UNCHANGED <<events, linkVars, timerVars, updating, itvl, s_itvl_target, gateVars,
                   readyVars, failed>>

\* Then a deferred request is made again, for the target as it is now.
RetryDeferral ==
    /\ request["host"] = "check"
    /\ s_itvl_update_pending' = FALSE
    /\ IF s_itvl_update_pending /\ s_itvl_target # "none"
       THEN Asks("host", s_itvl_target)
       ELSE Done("host")
    /\ UNCHANGED <<events, linkVars, timerVars, updating, itvl, s_itvl_target, gateVars,
                   readyVars, failed>>

-----------------------------------------------------------------------------
(* Other tasks. *)

\* voice_ble_send_audio: ready, then the gate for 250 ms, then the stack.
SendAudio ==
    /\ tx = "idle" /\ voice_ble_is_ready
    /\ tx' = "wait"
    /\ UNCHANGED <<events, linkVars, timerVars, itvlVars, gate, onAir, readyVars, failed>>

TakeGate ==
    /\ tx = "wait"
    /\ \/ gate = 1 /\ gate' = 0 /\ tx' = "notify"
       \/ gate = 0 /\ tx' = "idle" /\ UNCHANGED gate
    /\ UNCHANGED <<events, linkVars, timerVars, itvlVars, onAir, readyVars, failed>>

\* Mutant: an error keeps the gate.
NotifyAudioKeepsGate ==
    /\ tx = "notify"
    /\ tx' = "idle"
    /\ \/ UNCHANGED onAir
       \/ conn # 0 /\ conn = link /\ onAir' = onAir + 1
    /\ UNCHANGED <<events, linkVars, timerVars, itvlVars, gate, readyVars, failed>>

\* Without memory, or on a link that is gone, the gate is given back.
NotifyAudio ==
    /\ tx = "notify"
    /\ tx' = "idle"
    /\ \/ gate' = 1 /\ UNCHANGED onAir
       \/ conn # 0 /\ conn = link /\ onAir' = onAir + 1 /\ UNCHANGED gate
    /\ UNCHANGED <<events, linkVars, timerVars, itvlVars, readyVars, failed>>

\* The app task asks, for a recording or to save power.
RequestInterval ==
    /\ "interval" \in load /\ request["app"] = "idle" /\ conn # 0
    /\ \E t \in {"fast", "slow"} : Asks("app", t)
    /\ UNCHANGED <<events, linkVars, timerVars, updating, itvl, s_itvl_target,
                   s_itvl_update_pending, gateVars, readyVars, failed>>

\* The app task, after a request to disconnect or before it sleeps.
voice_ble_disconnect ==
    /\ conn # 0 /\ cutting = 0
    /\ Terminate(conn)
    /\ UNCHANGED <<events, link, links, adv, timerVars, itvlVars, gateVars, readyVars>>

-----------------------------------------------------------------------------

HostTask ==
    \/ on_sync \/ adv_retry_callout_cb \/ ready_timeout_callout_cb
    \/ OnConnect \/ OnConnectFailed \/ OnDisconnect \/ OnSubscribe
    \/ control_access_cb \/ ota_access_cb \/ OnNotifyTx \/ OnConnUpdate
    \/ RetryDeferral \/ RequestStep("host")

Next ==
    \/ HostTask
    \/ CentralConnects \/ LinkLost \/ LinkCut \/ CentralWrites
    \/ ReadyTimerFires \/ RetryTimerFires \/ Transmitted \/ Negotiated
    \/ SendAudio \/ TakeGate \/ NotifyAudio
    \/ RequestInterval \/ RequestStep("app") \/ voice_ble_disconnect

\* Tasks run, timers expire, and the stack completes what it accepted.
Spec ==
    /\ Init /\ [][Next]_vars
    /\ WF_vars(HostTask) /\ WF_vars(NotifyAudio)
    /\ WF_vars(ReadyTimerFires) /\ WF_vars(RetryTimerFires)
    /\ WF_vars(Transmitted) /\ WF_vars(LinkCut)

-----------------------------------------------------------------------------
(* Properties. *)

\* The gate is always given back, by whichever of transmission, error and
\* disconnection comes: audio never stops for good (voice_ble_send_audio,
\* BLE_GAP_EVENT_NOTIFY_TX, BLE_GAP_EVENT_DISCONNECT).
GateReturns == (gate = 0) ~> (gate = 1)

\* A timeout that was queued late never cuts a newer link than the one whose
\* silence it measured (ready_timeout_callout_cb).
TimeoutHitsItsLink ==
    [][cutting' # cutting /\ events # <<>> /\ events' = Tail(events)
          => cutting' \in {0, Head(events).link}]_vars

\* The device can be found again: without a link it advertises, is about to,
\* or has a retry armed, unless setting the advertising data failed
\* (start_advertising, adv_retry_callout_cb).
CanBeFound ==
    link = 0 => \/ adv \/ retryTimer \/ "adv" \in failed
                \/ \E type \in {"sync", "connectFailed", "disconnect", "advRetry"} : Queued(type)

\* The application knows whether the link is ready (s_connection_cb).
ReadyTold == told = voice_ble_is_ready

Excused == "itvl" \in failed \/ "crossed" \in failed

NobodyAsks == \A k \in Tasks : request[k] = "idle"

\* Once nothing is being asked or negotiated the link runs at the interval asked
\* for last, unless the stack or the central refused it or requests of the two
\* tasks crossed, and no request was taken since (voice_ble_request_fast_interval,
\* voice_ble_request_slow_interval, BLE_GAP_EVENT_CONN_UPDATE).
IntervalSettles ==
    conn # 0 /\ conn = link /\ s_itvl_target # "none" /\ updating = "none" /\ NobodyAsks
        => itvl = s_itvl_target \/ Excused
=============================================================================
