-------------------------- MODULE FirmwareAppProofs --------------------------
(***************************************************************************)
(* Theorems about FirmwareApp, for any depth of the event queue, any        *)
(* control messages of the host, any results of the display and the locks,  *)
(* and any inputs.                                                          *)
(***************************************************************************)
EXTENDS FirmwareApp, TLAPS, SequenceTheorems

-----------------------------------------------------------------------------
(* The inductive invariant *)

\* A recording keeps the display lit, and no press of it only woke the display.
RecordingLit == app.recording => ~app.off /\ ~app.frontWake

\* Between the start of a recording and the message that tells the host.
Telling ==
    step = "tell" => /\ app.recording /\ app.primarySid = app.audioSid
                     /\ host = 0 \/ terminating \/ host = uncut

\* Without a link the host knows of no recording.
HostUntold == link = "down" \/ step = "asleep" => host = 0

\* Every queued event of type a has one of type b behind it.
Followed(a, b) ==
    \A i \in 1..Len(queue) : queue[i].type = a =>
        \E j \in 1..Len(queue) : i < j /\ queue[j].type = b

\* A queued press is not let go yet, or its release is queued behind it, or lost.
PressesFollowed == frontHeld \/ "frontUp" \in lost \/ Followed("frontDown", "frontUp")

\* Progress of an update that is no longer active has its end behind it.
ProgressFollowed ==
    rebooting \/ linkOta \/ "otaEnd" \in lost \/ Followed("otaProgress", "otaEnd")

IInv ==
    /\ TypeOK /\ LocksHeld /\ RecordingLit
    /\ Telling /\ HostUntold /\ HostInStep
    /\ RecordingOnLink /\ HoldToTalk /\ PressesFollowed
    /\ OtaStopsRecording /\ ProgressFollowed /\ SleepScheduled

-----------------------------------------------------------------------------
(* What the functions of the handlers leave *)

\* With nothing going on, on battery, the deep sleep timer runs.
SleepArmed(s) == ~s.recording /\ ~s.otaUpdating /\ ~s.powered => "sleep" \in s.armed

\* The same recording, update and locks, and the display not switched off.
SameWork(s, t) ==
    /\ t \in AppState
    /\ t.recording = s.recording /\ t.otaUpdating = s.otaUpdating
    /\ t.recLock = s.recLock /\ t.otaLock = s.otaLock /\ t.frontWake = s.frontWake
    /\ t.primarySid = s.primarySid /\ t.audioSid = s.audioSid /\ t.nextSid = s.nextSid
    /\ t.powered = s.powered /\ (t.off => s.off)

\* Only the timers differ.
LEMMA ArmedChanged ==
    ASSUME NEW s \in AppState, NEW A \in SUBSET Timers
    PROVE  /\ SameWork(s, [s EXCEPT !.armed = A])
           /\ [s EXCEPT !.armed = A].armed = A
           /\ [s EXCEPT !.armed = A].off = s.off
           /\ [s EXCEPT !.armed = A].ui = s.ui
  BY DEF AppState, SameWork

\* restart_display_dim_timer and its like: a timer is stopped, or set anew.
LEMMA RestartedTimers ==
    ASSUME NEW s \in AppState, NEW kinds \in SUBSET Timers
    PROVE  /\ SameWork(s, RestartTimers(s, kinds))
           /\ RestartTimers(s, kinds).off = s.off
           /\ "sleep" \in kinds => SleepArmed(RestartTimers(s, kinds))
           /\ "sleep" \notin kinds => (SleepArmed(s) => SleepArmed(RestartTimers(s, kinds)))
  <1> DEFINE idle == ~s.recording /\ ~s.otaUpdating
             A == (s.armed \ kinds) \cup {k \in kinds : idle /\ (k = "sleep" => ~s.powered)}
             t == [s EXCEPT !.armed = A]
  <1>1. A \in SUBSET Timers
    BY DEF AppState
  <1>2. RestartTimers(s, kinds) = t
    BY DEF RestartTimers
  <1>3. SameWork(s, t) /\ t.armed = A /\ t.off = s.off
    BY <1>1, ArmedChanged
  <1> HIDE DEF t
  <1>4. t.recording = s.recording /\ t.otaUpdating = s.otaUpdating /\ t.powered = s.powered
    BY <1>3 DEF SameWork
  <1>5. "sleep" \in kinds => SleepArmed(t)
    BY <1>3, <1>4 DEF SleepArmed
  <1>6. "sleep" \notin kinds => (SleepArmed(s) => SleepArmed(t))
    BY <1>3, <1>4 DEF SleepArmed
  <1> QED
    BY <1>2, <1>3, <1>5, <1>6

\* What is kept twice is kept.
LEMMA SameWorkTwice ==
    ASSUME NEW s, NEW t, NEW u, SameWork(s, t), SameWork(t, u)
    PROVE  SameWork(s, u)
  BY DEF SameWork

\* note_activity sets every timer anew, and never switches the display off.
LEMMA ActivityNoted ==
    ASSUME NEW s \in AppState, NEW panel \in BOOLEAN
    PROVE  /\ NoteActivity(s, panel) \in AppState
           /\ SameWork(s, NoteActivity(s, panel))
           /\ SleepArmed(NoteActivity(s, panel))
  <1> DEFINE o == s.off /\ ~panel
             d == s.dimmed /\ ~panel
             t == [s EXCEPT !.recent = Inactivity, !.off = o, !.dimmed = d]
  <1>1. o \in BOOLEAN /\ d \in BOOLEAN /\ (o => s.off)
    BY DEF AppState
  <1>2. NoteActivity(s, panel) = RestartTimers(t, Inactivity)
    BY DEF NoteActivity
  <1> HIDE DEF o, d
  <1>3. t \in AppState
    BY <1>1 DEF AppState
  <1>4. SameWork(s, t)
    BY <1>1, <1>3 DEF AppState, SameWork
  <1> HIDE DEF t
  <1>5. Inactivity \in SUBSET Timers /\ "sleep" \in Inactivity
    BY DEF Inactivity, Timers
  <1>6. SameWork(t, RestartTimers(t, Inactivity)) /\ SleepArmed(RestartTimers(t, Inactivity))
    BY <1>3, <1>5, RestartedTimers
  <1>7. RestartTimers(t, Inactivity) \in AppState
    BY <1>6 DEF SameWork
  <1> QED
    BY <1>2, <1>4, <1>6, <1>7, SameWorkTwice

\* The done timer is not the sleep timer.
LEMMA DoneTimerStopped ==
    ASSUME NEW s \in AppState
    PROVE  /\ StopDoneTimer(s) \in AppState /\ SameWork(s, StopDoneTimer(s))
           /\ StopDoneTimer(s).off = s.off /\ StopDoneTimer(s).ui = s.ui
           /\ SleepArmed(s) => SleepArmed(StopDoneTimer(s))
  <1> DEFINE A == s.armed \ {"done"}
             t == [s EXCEPT !.armed = A]
  <1>1. A \in SUBSET Timers
    BY DEF AppState
  <1>2. StopDoneTimer(s) = t
    BY DEF StopDoneTimer
  <1>3. SameWork(s, t) /\ t.armed = A /\ t.off = s.off /\ t.ui = s.ui
    BY <1>1, ArmedChanged
  <1> HIDE DEF t
  <1>4. t \in AppState /\ t.recording = s.recording /\ t.otaUpdating = s.otaUpdating
        /\ t.powered = s.powered
    BY <1>3 DEF SameWork
  <1>5. SleepArmed(s) => SleepArmed(t)
    BY <1>3, <1>4 DEF SleepArmed
  <1> QED
    BY <1>2, <1>3, <1>4, <1>5

\* stop_recording and cancel_recording give the lock back and set the timers.
LEMMA RecordingStopped ==
    ASSUME NEW s \in AppState
    PROVE  LET t == StopRecording(s) IN
           /\ t \in AppState /\ ~t.recording
           /\ (s.recLock <=> s.recording) => ~t.recLock
           /\ t.otaUpdating = s.otaUpdating /\ t.otaLock = s.otaLock /\ t.frontWake = s.frontWake
           /\ t.powered = s.powered
           /\ SleepArmed(s) => SleepArmed(t)
  <1>1. CASE ~s.recording
    BY <1>1 DEF StopRecording
  <1>2. CASE s.recording
    <2> DEFINE r == [s EXCEPT !.recording = FALSE, !.recLock = FALSE]
    <2>1. StopRecording(s) = RestartTimers(r, Inactivity)
      BY <1>2 DEF StopRecording
    <2>2. FALSE \in BOOLEAN
      OBVIOUS
    <2>3. r \in AppState
      BY <2>2 DEF AppState
    <2>4. /\ ~r.recording /\ ~r.recLock /\ r.otaUpdating = s.otaUpdating /\ r.otaLock = s.otaLock
          /\ r.frontWake = s.frontWake /\ r.powered = s.powered
      BY DEF AppState
    <2> HIDE DEF r
    <2>5. Inactivity \in SUBSET Timers /\ "sleep" \in Inactivity
      BY DEF Inactivity, Timers
    <2>6. SameWork(r, RestartTimers(r, Inactivity)) /\ SleepArmed(RestartTimers(r, Inactivity))
      BY <2>3, <2>5, RestartedTimers
    <2> QED
      BY <2>1, <2>4, <2>6 DEF SameWork
  <1> QED
    BY <1>1, <1>2

\* A screen of the device's own states.
LEMMA ScreenShown ==
    ASSUME NEW s \in AppState, NEW state \in UiStates, NEW bg \in Backgrounds,
           NEW scene \in Scenes
    PROVE  LET t == [s EXCEPT !.ui = state, !.bg = bg, !.scene = scene] IN
           t \in AppState /\ SameWork(s, t) /\ t.armed = s.armed /\ t.off = s.off
  BY DEF AppState, SameWork

\* apply_app_ui_state touches no recording, update or lock; unless a recording
\* goes on, the timers are set anew.
LEMMA UiApplied ==
    ASSUME NEW s \in AppState, NEW state \in UiStates, NEW panel \in BOOLEAN
    PROVE  /\ ApplyUi(s, state, panel) \in AppState
           /\ SameWork(s, ApplyUi(s, state, panel))
           /\ SleepArmed(ApplyUi(s, state, panel))
  <1> DEFINE t == StopDoneTimer(s)
             b == CASE state \in {"working", "approval"} -> state
                    [] state = "done" -> "ready"
                    [] OTHER -> t.bg
             c == IF state = "recording" /\ s.recording THEN t.scene ELSE SceneOf(state)
             shown == [t EXCEPT !.ui = state, !.bg = b, !.scene = c]
             active == NoteActivity(shown, panel)
             A == active.armed \cup {"done"}
             d == [active EXCEPT !.armed = A]
  <1>1. ApplyUi(s, state, panel) = CASE state = "ready" /\ s.recording -> t
                                     [] state = "done" -> d
                                     [] OTHER -> active
    BY DEF ApplyUi
  <1>2. t \in AppState /\ SameWork(s, t)
    BY DoneTimerStopped
  <1> HIDE DEF t
  <1>3. b \in Backgrounds /\ c \in Scenes
    BY <1>2 DEF Backgrounds, Scenes, SceneOf, AppState, UiStates
  <1> HIDE DEF b, c
  <1>4. shown \in AppState /\ SameWork(t, shown)
    BY <1>2, <1>3, ScreenShown
  <1> HIDE DEF shown
  <1>5. active \in AppState /\ SameWork(shown, active) /\ SleepArmed(active)
    BY <1>4, ActivityNoted
  <1> HIDE DEF active
  <1>6. A \in SUBSET Timers /\ active.armed \subseteq A
    BY <1>5 DEF AppState, Timers
  <1>7. SameWork(active, d) /\ d.armed = A
    BY <1>5, <1>6, ArmedChanged
  <1> HIDE DEF A, d
  <1>8. SleepArmed(d)
    BY <1>5, <1>6, <1>7 DEF SleepArmed, SameWork
  <1>9. SameWork(s, active) /\ SameWork(s, d)
    BY <1>2, <1>4, <1>5, <1>7, SameWorkTwice
  <1>10. s.recording => SleepArmed(t)
    BY <1>2 DEF SleepArmed, SameWork
  <1> QED
    BY <1>1, <1>2, <1>5, <1>8, <1>9, <1>10 DEF SameWork

\* start_recording past its test takes the lock and a session, or neither.
LEMMA RecordingStarted ==
    ASSUME NEW s \in AppState, SleepArmed(s)
    PROVE  /\ LET t == StartRecording(s, TRUE) IN
              /\ t \in AppState /\ t.recording /\ t.recLock /\ t.audioSid = s.nextSid
              /\ t.otaUpdating = s.otaUpdating /\ t.otaLock = s.otaLock /\ t.off = s.off
           /\ LET t == StartRecording(s, FALSE) IN
              /\ t \in AppState /\ t.recording = s.recording /\ t.recLock = s.recLock
              /\ t.audioSid = s.audioSid /\ t.off = s.off /\ t.powered = s.powered
              /\ t.otaUpdating = s.otaUpdating /\ t.otaLock = s.otaLock
              /\ SleepArmed(t)
  <1> DEFINE d == StopDoneTimer(s)
             n == s.nextSid + 1
             t == [d EXCEPT !.nextSid = n]
             r == [t EXCEPT !.recording = TRUE, !.recLock = TRUE, !.ui = "recording",
                            !.scene = "recording", !.audioSid = s.nextSid]
             f == [t EXCEPT !.scene = "error"]
  <1>1. d \in AppState /\ SameWork(s, d) /\ d.off = s.off /\ SleepArmed(d)
    BY DoneTimerStopped
  <1>2. d.nextSid = s.nextSid /\ s.nextSid \in Nat \ {0} /\ n \in Nat \ {0}
    BY <1>1 DEF SameWork, AppState
  <1>3. d.nextSid + 1 = n
    BY <1>2
  <1>4. StartRecording(s, TRUE) = RestartTimers(r, Inactivity) /\ StartRecording(s, FALSE) = f
    BY <1>3 DEF StartRecording
  <1> HIDE DEF d, n
  <1>5. /\ t \in AppState /\ t.recording = s.recording /\ t.recLock = s.recLock
        /\ t.audioSid = s.audioSid /\ t.off = s.off /\ t.powered = s.powered
        /\ t.otaUpdating = s.otaUpdating /\ t.otaLock = s.otaLock /\ t.armed = d.armed
    BY <1>1, <1>2 DEF AppState, SameWork
  <1> HIDE DEF t
  <1>6. /\ "recording" \in UiStates /\ "recording" \in Scenes /\ "error" \in Scenes
        /\ TRUE \in BOOLEAN
    BY DEF UiStates, Scenes
  <1>7. r \in AppState
    BY <1>2, <1>5, <1>6 DEF AppState
  <1>8. /\ r.recording /\ r.recLock /\ r.audioSid = s.nextSid
        /\ r.otaUpdating = s.otaUpdating /\ r.otaLock = s.otaLock /\ r.off = s.off
    BY <1>5 DEF AppState
  <1>9. /\ f \in AppState /\ f.recording = s.recording /\ f.recLock = s.recLock
        /\ f.audioSid = s.audioSid /\ f.off = s.off /\ f.powered = s.powered
        /\ f.otaUpdating = s.otaUpdating /\ f.otaLock = s.otaLock /\ f.armed = d.armed
    BY <1>5, <1>6 DEF AppState
  <1> HIDE DEF r, f
  <1>10. Inactivity \in SUBSET Timers
    BY DEF Inactivity, Timers
  <1>11. SameWork(r, RestartTimers(r, Inactivity)) /\ RestartTimers(r, Inactivity).off = r.off
    BY <1>7, <1>10, RestartedTimers
  <1>12. SleepArmed(f)
    BY <1>1, <1>9 DEF SleepArmed, SameWork
  <1> QED
    BY <1>4, <1>8, <1>9, <1>11, <1>12 DEF SameWork

\* update_battery_status sets the sleep timer when the power comes or goes.
LEMMA PowerUpdated ==
    ASSUME NEW s \in AppState, power \in BOOLEAN
    PROVE  LET t == UpdatePower(s) IN
           /\ t \in AppState /\ t.recording = s.recording /\ t.otaUpdating = s.otaUpdating
           /\ t.recLock = s.recLock /\ t.otaLock = s.otaLock /\ t.frontWake = s.frontWake
           /\ t.off = s.off /\ t.audioSid = s.audioSid
           /\ (t = s \/ SleepArmed(t))
  <1>1. CASE s.powered = power
    BY <1>1 DEF UpdatePower
  <1>2. CASE s.powered # power
    <2> DEFINE r == [s EXCEPT !.powered = power]
    <2>1. UpdatePower(s) = RestartTimers(r, {"sleep"})
      BY <1>2 DEF UpdatePower
    <2>2. /\ r \in AppState /\ r.recording = s.recording /\ r.otaUpdating = s.otaUpdating
          /\ r.recLock = s.recLock /\ r.otaLock = s.otaLock /\ r.frontWake = s.frontWake
          /\ r.off = s.off /\ r.audioSid = s.audioSid
      BY DEF AppState
    <2> HIDE DEF r
    <2>3. {"sleep"} \in SUBSET Timers
      BY DEF Inactivity, Timers
    <2>4. /\ SameWork(r, RestartTimers(r, {"sleep"})) /\ SleepArmed(RestartTimers(r, {"sleep"}))
          /\ RestartTimers(r, {"sleep"}).off = r.off
      BY <2>2, <2>3, RestartedTimers
    <2> QED
      BY <2>1, <2>2, <2>4 DEF SameWork
  <1> QED
    BY <1>1, <1>2

\* The record app_main leaves.
LEMMA Booted ==
    ASSUME NEW p \in BOOLEAN
    PROVE  /\ Boot(p) \in AppState
           /\ ~Boot(p).recording /\ ~Boot(p).recLock /\ ~Boot(p).otaLock
           /\ SleepArmed(Boot(p))
  <1> DEFINE A == IF p THEN Inactivity \ {"sleep"} ELSE Inactivity
  <1>1. /\ A \in SUBSET Timers /\ Inactivity \in SUBSET Inactivity
        /\ ~p => "sleep" \in A
    BY DEF Inactivity, Timers
  <1>2. /\ FALSE \in BOOLEAN /\ 0 \in Nat /\ 1 \in Nat \ {0}
        /\ "ready" \in UiStates /\ "ready" \in Backgrounds /\ "pairing" \in Scenes
    BY DEF UiStates, Backgrounds, Scenes
  <1> HIDE DEF A
  <1>3. Boot(p).armed = A
    BY DEF Boot, A
  <1>4. Boot(p) \in AppState
    BY <1>1, <1>2 DEF Boot, AppState, A
  <1>5. ~Boot(p).recording /\ ~Boot(p).recLock /\ ~Boot(p).otaLock /\ Boot(p).powered = p
    BY DEF Boot
  <1> QED
    BY <1>1, <1>3, <1>4, <1>5 DEF SleepArmed

-----------------------------------------------------------------------------
(* The event queue *)

QueueOK == queue \in Seq(Event) /\ Len(queue) <= QueueDepth /\ lost \subseteq EventTypes

\* xQueueSend puts the events that fit behind the others; the rest are lost.
LEMMA Posted ==
    ASSUME QueueOK, NEW es \in Seq(Event), Post(es)
    PROVE  \E n \in 0..Len(es) :
              /\ queue' \in Seq(Event) /\ Len(queue') = Len(queue) + n /\ Len(queue') <= QueueDepth
              /\ \A i \in 1..Len(queue) : queue'[i] = queue[i]
              /\ \A i \in 1..n : queue'[Len(queue) + i] = es[i]
              /\ lost' = (lost \ {es[i].type : i \in 1..n}) \cup {es[i].type : i \in (n + 1)..Len(es)}
  <1> DEFINE n == IF Len(queue) + Len(es) <= QueueDepth THEN Len(es)
                  ELSE IF Len(queue) < QueueDepth THEN QueueDepth - Len(queue) ELSE 0
             r == SubSeq(es, 1, n)
  <1>1. /\ Len(queue) \in Nat /\ Len(es) \in Nat /\ QueueDepth \in Nat
        /\ Len(queue) <= QueueDepth /\ queue \in Seq(Event)
    BY QueueDepthAssumption, LenProperties DEF QueueOK
  <1>2. n \in 0..Len(es) /\ Len(queue) + n <= QueueDepth
    BY <1>1
  <1>3. Room(queue, es) = r
    BY DEF Room
  <1> HIDE DEF n
  <1>4. r \in Seq(Event) /\ Len(r) = n /\ \A i \in 1..n : r[i] = es[i]
    BY <1>1, <1>2, SubSeqProperties, ElementOfSeq
  <1> HIDE DEF r
  <1>5. /\ queue' = queue \o r
        /\ lost' = (lost \ {es[i].type : i \in 1..n}) \cup {es[i].type : i \in (n + 1)..Len(es)}
    BY <1>3, <1>4 DEF Post
  <1>6. queue' \in Seq(Event) /\ Len(queue') = Len(queue) + n
    BY <1>1, <1>4, <1>5, ConcatProperties
  <1>7. \A i \in 1..Len(queue) : queue'[i] = queue[i]
    BY <1>1, <1>2, <1>4, <1>5, ConcatProperties
  <1>8. \A i \in 1..n : queue'[Len(queue) + i] = es[i]
    BY <1>1, <1>2, <1>4, <1>5, ConcatProperties
  <1> QED
    BY <1>2, <1>5, <1>6, <1>7, <1>8

\* What is on its way stays so when more is posted, and so is what is posted.
LEMMA PostedPending ==
    ASSUME QueueOK, NEW es \in Seq(Event), Post(es)
    PROVE  /\ QueueOK'
           /\ \A u : Pending(u) => Pending(u)'
           /\ \A i \in 1..Len(es) : Pending(es[i].type)'
  <1>1. PICK n \in 0..Len(es) :
           /\ queue' \in Seq(Event) /\ Len(queue') = Len(queue) + n /\ Len(queue') <= QueueDepth
           /\ \A i \in 1..Len(queue) : queue'[i] = queue[i]
           /\ \A i \in 1..n : queue'[Len(queue) + i] = es[i]
           /\ lost' = (lost \ {es[i].type : i \in 1..n})
                         \cup {es[i].type : i \in (n + 1)..Len(es)}
    BY Posted
  <1>2. /\ Len(queue) \in Nat /\ Len(es) \in Nat /\ DOMAIN queue = 1..Len(queue)
        /\ DOMAIN queue' = 1..(Len(queue) + n)
    BY <1>1, LenProperties DEF QueueOK
  <1>3. \A i \in 1..Len(queue) : i \in 1..(Len(queue) + n)
    BY <1>1, <1>2
  <1>4. \A i \in 1..n : Len(queue) + i \in 1..(Len(queue) + n)
    BY <1>1, <1>2
  <1>5. \A i \in 1..n : InQueue(es[i].type)'
    BY <1>1, <1>2, <1>4 DEF InQueue
  <1>6. \A i \in 1..Len(es) : i \in 1..n \/ i \in (n + 1)..Len(es)
    BY <1>1, <1>2
  <1>7. \A i \in 1..Len(es) : Pending(es[i].type)'
    BY <1>1, <1>5, <1>6 DEF Pending
  <1>8. ASSUME NEW u, Pending(u) PROVE Pending(u)'
    <2>1. CASE InQueue(u)
      BY <1>1, <1>2, <1>3, <2>1 DEF InQueue, Pending
    <2>2. CASE u \in lost
      BY <1>1, <1>5, <2>2 DEF Pending
    <2> QED
      BY <1>8, <2>1, <2>2 DEF Pending
  <1>9. lost' \subseteq EventTypes
    <2>0. (\A i \in 1..Len(es) : es[i] \in Event) /\ \A e \in Event : e.type \in EventTypes
      <3>1. \A i \in 1..Len(es) : es[i] \in Event
        BY ElementOfSeq
      <3>2. \A e \in Event : e.type \in EventTypes
        BY DEF Event
      <3> QED
        BY <3>1, <3>2
    <2>1. \A i \in 1..Len(es) : es[i].type \in EventTypes
      BY <2>0
    <2>2. (n + 1)..Len(es) \subseteq 1..Len(es)
      BY <1>1, <1>2
    <2> QED
      BY <1>1, <2>1, <2>2 DEF QueueOK
  <1> QED
    BY <1>1, <1>7, <1>8, <1>9 DEF QueueOK

\* Posting leaves events of type a followed by type b, if it posts none of
\* type a; and makes them so if it posts one of type b.
LEMMA PostedFollowed ==
    ASSUME QueueOK, NEW es \in Seq(Event), Post(es), NEW a, NEW b,
           \A i \in 1..Len(es) : es[i].type # a,
           \/ b \in lost \/ Followed(a, b)
           \/ \E i \in 1..Len(es) : es[i].type = b
    PROVE  (b \in lost)' \/ Followed(a, b)'
  <1>1. PICK n \in 0..Len(es) :
           /\ queue' \in Seq(Event) /\ Len(queue') = Len(queue) + n /\ Len(queue') <= QueueDepth
           /\ \A i \in 1..Len(queue) : queue'[i] = queue[i]
           /\ \A i \in 1..n : queue'[Len(queue) + i] = es[i]
           /\ lost' = (lost \ {es[i].type : i \in 1..n})
                         \cup {es[i].type : i \in (n + 1)..Len(es)}
    BY Posted
  <1>2. Len(queue) \in Nat /\ Len(es) \in Nat
    BY LenProperties DEF QueueOK
  <1>3. ASSUME NEW i \in 1..Len(queue'), queue'[i].type = a
        PROVE  i \in 1..Len(queue) /\ queue[i].type = a
    <2>1. CASE i \in 1..Len(queue)
      BY <1>1, <1>3, <2>1
    <2>2. CASE i \notin 1..Len(queue)
      <3>1. i - Len(queue) \in 1..n /\ i = Len(queue) + (i - Len(queue))
        BY <1>1, <1>2, <2>2
      <3>2. queue'[i] = es[i - Len(queue)] /\ i - Len(queue) \in 1..Len(es)
        BY <1>1, <1>2, <3>1
      <3> QED
        BY <1>3, <3>2
    <2> QED
      BY <2>1, <2>2
  <1>4. CASE \E i \in 1..n : es[i].type = b
    <2>1. PICK i \in 1..n : es[i].type = b
      BY <1>4
    <2>2. Len(queue) + i \in 1..Len(queue') /\ queue'[Len(queue) + i].type = b
          /\ \A j \in 1..Len(queue) : j < Len(queue) + i
      BY <1>1, <1>2, <2>1
    <2> QED
      BY <1>3, <2>2 DEF Followed
  <1>5. CASE \E i \in (n + 1)..Len(es) : es[i].type = b
    BY <1>1, <1>5
  <1>6. CASE ~\E i \in 1..Len(es) : es[i].type = b
    <2>1. b \in lost => b \in lost'
      <3>1. \A i \in 1..n : i \in 1..Len(es)
        BY <1>1, <1>2
      <3> QED
        BY <1>1, <1>6, <3>1
    <2>2. ASSUME Followed(a, b) PROVE Followed(a, b)'
      <3> SUFFICES ASSUME NEW i \in 1..Len(queue'), queue'[i].type = a
                   PROVE  \E j \in 1..Len(queue') : i < j /\ queue'[j].type = b
        BY DEF Followed
      <3>1. i \in 1..Len(queue) /\ queue[i].type = a
        BY <1>3
      <3>2. PICK j \in 1..Len(queue) : i < j /\ queue[j].type = b
        BY <2>2, <3>1 DEF Followed
      <3>3. j \in 1..Len(queue') /\ queue'[j] = queue[j]
        BY <1>1, <1>2
      <3> QED
        BY <3>2, <3>3
    <2> QED
      BY <1>6, <2>1, <2>2
  <1>7. \A i \in 1..Len(es) : i \in 1..n \/ i \in (n + 1)..Len(es)
    BY <1>1, <1>2
  <1> QED
    BY <1>4, <1>5, <1>6, <1>7

\* One event.
LEMMA OneEvent ==
    ASSUME NEW e \in Event
    PROVE  <<e>> \in Seq(Event) /\ Len(<<e>>) = 1 /\ <<e>>[1] = e
  OBVIOUS

\* An event without data.
LEMMA EvIs ==
    ASSUME NEW t \in EventTypes
    PROVE  Ev(t) \in Event /\ Ev(t).type = t
  BY DEF Ev, Event, UiStates, Backgrounds

\* app_event_task takes an event: what was behind it is still on its way.
LEMMA Received ==
    ASSUME QueueOK, NEW t, NEW s \in AppState, NEW missed \in SUBSET Inactivity,
           HandleMissing(t, s, missed)
    PROVE  /\ QueueOK' /\ step = "idle" /\ app' = s
           /\ Head(queue) \in Event /\ Head(queue).type = t
           /\ \A u : u \notin Timers /\ u # t /\ Pending(u) => Pending(u)'
           /\ t # "sleep" /\ Pending("sleep") => Pending("sleep")' \/ "sleep" \in s.armed
           /\ \A u : u \notin Timers /\ u \in lost => u \in lost'
           /\ \A a, b : b \notin Timers /\ a # b =>
                  /\ Followed(a, b) => Followed(a, b)'
                  /\ Followed(a, b) /\ t = a => Pending(b)'
  <1>1. /\ step = "idle" /\ queue # <<>> /\ Head(queue).type = t /\ queue' = Tail(queue)
        /\ app' = s /\ lost' = (lost \ s.armed) \cup missed
    BY DEF HandleMissing
  <1>2. /\ Len(queue) \in Nat /\ Len(queue) >= 1 /\ DOMAIN queue = 1..Len(queue)
        /\ queue' \in Seq(Event) /\ Len(queue') = Len(queue) - 1
        /\ DOMAIN queue' = 1..(Len(queue) - 1) /\ Head(queue) = queue[1] /\ Head(queue) \in Event
        /\ \A i \in 1..(Len(queue) - 1) : queue'[i] = queue[i + 1]
    BY <1>1, HeadTailProperties, LenProperties, EmptySeq DEF QueueOK
  <1>3. s.armed \subseteq Timers /\ missed \subseteq Timers /\ Timers \subseteq EventTypes
    BY DEF AppState, Timers, EventTypes
  <1>4. QueueOK'
    BY <1>1, <1>2, <1>3, QueueDepthAssumption DEF QueueOK
  <1>5. ASSUME NEW u, u # t, InQueue(u) PROVE InQueue(u)'
    <2>1. PICK i \in 1..Len(queue) : queue[i].type = u
      BY <1>2, <1>5 DEF InQueue
    <2>2. i # 1
      BY <1>1, <1>2, <1>5, <2>1
    <2>3. i - 1 \in 1..(Len(queue) - 1) /\ (i - 1) + 1 = i
      BY <1>2, <2>2
    <2> QED
      BY <1>2, <2>1, <2>3 DEF InQueue
  <1>6. \A u : u \notin Timers /\ u \in lost => u \in lost'
    BY <1>1, <1>3
  <1>7. \A u : u \notin Timers /\ u # t /\ Pending(u) => Pending(u)'
    BY <1>5, <1>6 DEF Pending
  <1>8. t # "sleep" /\ Pending("sleep") => Pending("sleep")' \/ "sleep" \in s.armed
    BY <1>1, <1>5 DEF Pending
  <1>9. ASSUME NEW a, NEW b, b \notin Timers, a # b, Followed(a, b)
        PROVE  Followed(a, b)' /\ (t = a => Pending(b)')
    <2>1. ASSUME NEW i \in 1..Len(queue'), queue'[i].type = a
          PROVE  \E j \in 1..Len(queue') : i < j /\ queue'[j].type = b
      <3>1. i + 1 \in 1..Len(queue) /\ queue[i + 1].type = a
        BY <1>2, <2>1
      <3>2. PICK j \in 1..Len(queue) : i + 1 < j /\ queue[j].type = b
        BY <1>9, <3>1 DEF Followed
      <3>3. j - 1 \in 1..Len(queue') /\ (j - 1) + 1 = j /\ i < j - 1
        BY <1>2, <3>1, <3>2
      <3> QED
        BY <1>2, <3>2, <3>3
    <2>2. ASSUME t = a PROVE Pending(b)'
      <3>1. 1 \in 1..Len(queue) /\ queue[1].type = a
        BY <1>1, <1>2, <2>2
      <3>2. PICK j \in 1..Len(queue) : 1 < j /\ queue[j].type = b
        BY <1>9, <3>1 DEF Followed
      <3>3. InQueue(b)
        BY <1>2, <3>2 DEF InQueue
      <3> QED
        BY <1>5, <1>9, <2>2, <3>3 DEF Pending
    <2> QED
      BY <2>1, <2>2 DEF Followed
  <1> QED
    BY <1>1, <1>2, <1>4, <1>6, <1>7, <1>8, <1>9


-----------------------------------------------------------------------------
(* What a handler must leave for the invariant to hold *)

\* The record s that the handler of an event of type t leaves has the locks of
\* what goes on in it, and starts neither a recording nor an update of its own
\* accord; a recording does not survive the event that should end it.
Kept(t, s) ==
    /\ (s.recLock <=> s.recording) /\ (s.otaLock => s.otaUpdating)
    /\ s.recording => /\ app.recording /\ ~s.off /\ ~s.frontWake /\ s.audioSid = app.audioSid
                      /\ t \notin {"disconnected", "otaBegin"}
                      /\ (t = "frontUp" => mode # "hold")
    /\ s.recording /\ s.otaUpdating => \/ app.otaUpdating /\ t # "otaEnd"
                                       \/ t = "otaProgress"

\* It leaves the deep sleep timer armed, or as it was.
SleepKept(t, s) ==
    \/ SleepArmed(s)
    \/ /\ t # "sleep" /\ ("sleep" \in app.armed => "sleep" \in s.armed)
       /\ ~s.recording /\ ~s.otaUpdating /\ ~s.powered =>
              ~app.recording /\ ~app.otaUpdating /\ ~app.powered

\* A host that was told of a recording is told of its end, or its link is cut, or
\* not even that works.
HostKept(s) ==
    /\ host' \in {0, host}
    /\ host' # 0 /\ app.recording /\ ~s.recording => terminating' \/ host' = uncut'

\* A handler changes nothing of the other tasks, but it may ask voice_ble to
\* disconnect and enable the PMIC interrupt.
Quiet ==
    /\ UNCHANGED <<modeVars, link, linkOta, rebooting, buttonVars, power, inputs>>
    /\ terminating' \in BOOLEAN /\ (terminating => terminating') /\ irqEnabled' \in BOOLEAN
    /\ uncut' \in Nat /\ (uncut' = uncut \/ uncut' = host)

\* Receiving an event leaves presses and progress followed.
LEMMA StillFollowed ==
    ASSUME QueueOK, NEW t, NEW s \in AppState, NEW missed \in SUBSET Inactivity,
           HandleMissing(t, s, missed), Quiet, PressesFollowed, ProgressFollowed
    PROVE  PressesFollowed' /\ ProgressFollowed'
  <1>1. /\ \A u : u \notin Timers /\ u \in lost => u \in lost'
        /\ \A a, b : b \notin Timers /\ a # b => (Followed(a, b) => Followed(a, b)')
    BY Received
  <1>2. "frontUp" \notin Timers /\ "otaEnd" \notin Timers
    BY DEF Timers, Inactivity
  <1>3. /\ "frontUp" \in lost => "frontUp" \in lost'
        /\ "otaEnd" \in lost => "otaEnd" \in lost'
        /\ Followed("frontDown", "frontUp") => Followed("frontDown", "frontUp")'
        /\ Followed("otaProgress", "otaEnd") => Followed("otaProgress", "otaEnd")'
    BY <1>1, <1>2
  <1>4. UNCHANGED <<frontHeld, linkOta, rebooting>>
    BY DEF Quiet, buttonVars
  <1> QED
    BY <1>3, <1>4 DEF PressesFollowed, ProgressFollowed

\* The types after an event was handled.
LEMMA HandledTypes ==
    ASSUME TypeOK, NEW t, NEW s \in AppState, NEW missed \in SUBSET Inactivity,
           HandleMissing(t, s, missed),
           mode' \in {"hold", "click"}, hint' \in BOOLEAN, modeSwitched' \in BOOLEAN,
           link' \in {"down", "up", "ready"}, linkOta' \in BOOLEAN, terminating' \in BOOLEAN,
           uncut' \in Nat,
           rebooting' \in BOOLEAN, frontHeld' \in BOOLEAN, sideHeld' \in BOOLEAN,
           power' \in BOOLEAN, irqEnabled' \in BOOLEAN, inputs' \in Nat, host' \in Nat,
           step' \in {"idle", "tell", "sleep"}
    PROVE  TypeOK'
  <1>1. QueueOK
    BY DEF TypeOK, QueueOK
  <1>2. QueueOK' /\ app' = s
    BY <1>1, Received
  <1> QED
    BY <1>2 DEF TypeOK, QueueOK

\* The types of what a handler leaves alone.
LEMMA QuietTypes ==
    ASSUME TypeOK, Quiet
    PROVE  /\ mode' \in {"hold", "click"} /\ hint' \in BOOLEAN /\ modeSwitched' \in BOOLEAN
           /\ link' \in {"down", "up", "ready"} /\ linkOta' \in BOOLEAN /\ terminating' \in BOOLEAN
           /\ uncut' \in Nat
           /\ rebooting' \in BOOLEAN /\ frontHeld' \in BOOLEAN /\ sideHeld' \in BOOLEAN
           /\ power' \in BOOLEAN /\ irqEnabled' \in BOOLEAN /\ inputs' \in Nat
  BY DEF TypeOK, Quiet, modeVars, buttonVars

\* A handler that keeps to this preserves the invariant.
LEMMA HandlerInv ==
    ASSUME IInv, NEW t \in EventTypes, NEW s \in AppState, NEW missed \in SUBSET Inactivity,
           HandleMissing(t, s, missed), Quiet, HostKept(s), Kept(t, s),
           step' = "sleep" \/ (step' = step /\ SleepKept(t, s))
    PROVE  IInv'
  <1>1. /\ TypeOK /\ LocksHeld /\ RecordingLit /\ Telling /\ HostUntold /\ HostInStep
        /\ RecordingOnLink /\ HoldToTalk /\ PressesFollowed
        /\ OtaStopsRecording /\ ProgressFollowed /\ SleepScheduled
    BY DEF IInv
  <1>2. QueueOK
    BY <1>1 DEF TypeOK, QueueOK
  <1>3. step = "idle" /\ app' = s
    BY <1>2, Received
  <1>4. \A u : u \notin Timers /\ u # t /\ Pending(u) => Pending(u)'
    BY <1>2, Received
  <1>5. t # "sleep" /\ Pending("sleep") => Pending("sleep")' \/ "sleep" \in s.armed
    BY <1>2, Received
  <1>6. \A u : u \notin Timers /\ u \in lost => u \in lost'
    BY <1>2, Received
  <1>7. ASSUME NEW b, b \notin Timers, t # b, Followed(t, b) PROVE Pending(b)'
    BY <1>2, <1>7, Received
  <1>8. /\ UNCHANGED <<mode, modeSwitched, link, linkOta, rebooting, frontHeld>>
        /\ (terminating => terminating') /\ (uncut' = uncut \/ uncut' = host)
    BY DEF Quiet, modeVars, buttonVars
  <1>9. host' \in Nat /\ host' \in {0, host} /\ step' \in {"idle", "sleep"}
    BY <1>1, <1>3, <1>4, <1>5, <1>6 DEF HostKept, TypeOK
  <1>10. TypeOK'
    BY <1>1, <1>9, HandledTypes, QuietTypes
  <1>11. LocksHeld' /\ RecordingLit'
    BY <1>3, <1>4, <1>5, <1>6 DEF Kept, LocksHeld, RecordingLit
  <1>12. Telling' /\ HostUntold'
    BY <1>1, <1>8, <1>9 DEF Telling, HostUntold
  <1>13. HostInStep'
    <2> SUFFICES ASSUME host' # 0
                 PROVE  (s.recording /\ host' = s.audioSid) \/ terminating' \/ host' = uncut'
      BY <1>3, <1>4, <1>5, <1>6 DEF HostInStep
    <2>1. host' = host /\ host # 0
      BY <1>9
    <2>2. (app.recording /\ host = app.audioSid) \/ terminating \/ host = uncut
      BY <1>1, <2>1 DEF HostInStep
    <2>3. s.recording => s.audioSid = app.audioSid
      BY DEF Kept
    <2> QED
      BY <1>8, <2>1, <2>2, <2>3 DEF HostKept
  <1>14. /\ "disconnected" \notin Timers /\ "frontUp" \notin Timers
         /\ "otaBegin" \notin Timers /\ "otaEnd" \notin Timers /\ "sleep" \in Timers
    BY DEF Timers, Inactivity
  <1>15. RecordingOnLink'
    BY <1>1, <1>3, <1>4, <1>5, <1>6, <1>8, <1>14 DEF RecordingOnLink, Kept
  <1>16. HoldToTalk'
    BY <1>1, <1>3, <1>4, <1>5, <1>6, <1>8, <1>14 DEF HoldToTalk, Kept
  <1>17. PressesFollowed' /\ ProgressFollowed'
    BY <1>1, <1>2, StillFollowed
  <1>18. OtaStopsRecording'
    <2> SUFFICES ASSUME s.recording, ~rebooting
                 PROVE  /\ linkOta => Pending("otaBegin")'
                        /\ s.otaUpdating => Pending("otaBegin")' \/ Pending("otaEnd")'
      BY <1>3, <1>4, <1>5, <1>6, <1>8 DEF OtaStopsRecording
    <2>1. /\ app.recording /\ t # "otaBegin"
          /\ s.otaUpdating => (app.otaUpdating /\ t # "otaEnd") \/ t = "otaProgress"
      BY DEF Kept
    <2>2. /\ linkOta => Pending("otaBegin")
          /\ app.otaUpdating => Pending("otaBegin") \/ Pending("otaEnd")
      BY <1>1, <2>1 DEF OtaStopsRecording
    <2>3. Pending("otaBegin") => Pending("otaBegin")'
      BY <1>3, <1>4, <1>5, <1>6, <1>14, <2>1
    <2>4. t # "otaEnd" /\ Pending("otaEnd") => Pending("otaEnd")'
      BY <1>3, <1>4, <1>5, <1>6, <1>14
    <2>5. ASSUME t = "otaProgress"
          PROVE  Pending("otaBegin")' \/ Pending("otaEnd")'
      <3>1. linkOta \/ "otaEnd" \in lost \/ Followed("otaProgress", "otaEnd")
        BY <1>1 DEF ProgressFollowed
      <3>2. "otaEnd" \in lost => Pending("otaEnd")'
        BY <1>3, <1>4, <1>5, <1>6, <1>14 DEF Pending
      <3>3. Followed("otaProgress", "otaEnd") => Pending("otaEnd")'
        BY <1>14, <1>7, <2>5
      <3> QED
        BY <2>2, <2>3, <3>1, <3>2, <3>3
    <2> QED
      BY <2>1, <2>2, <2>3, <2>4, <2>5
  <1>19. SleepScheduled'
    <2> SUFFICES ASSUME step' # "sleep", ~s.recording, ~s.otaUpdating, ~s.powered
                 PROVE  "sleep" \in s.armed \/ Pending("sleep")'
      BY <1>3, <1>4, <1>5, <1>6 DEF SleepScheduled
    <2>1. SleepKept(t, s)
      OBVIOUS
    <2>2. CASE SleepArmed(s)
      BY <2>2 DEF SleepArmed
    <2>3. CASE ~SleepArmed(s)
      <3>1. /\ t # "sleep" /\ ("sleep" \in app.armed => "sleep" \in s.armed)
            /\ ~app.recording /\ ~app.otaUpdating /\ ~app.powered
        BY <2>1, <2>3 DEF SleepKept
      <3>2. "sleep" \in app.armed \/ Pending("sleep")
        BY <1>1, <1>3, <1>4, <1>5, <1>6, <3>1 DEF SleepScheduled, Awake
      <3> QED
        BY <1>3, <1>4, <1>5, <1>6, <1>14, <3>1, <3>2
    <2> QED
      BY <2>2, <2>3
  <1> QED
    BY <1>1, <1>10, <1>11, <1>12, <1>13, <1>15, <1>16, <1>17, <1>18, <1>19 DEF IInv

-----------------------------------------------------------------------------
(* The handlers that leave a recording and an update as they are *)

\* What goes on in s goes on in t.
Going(s, t) ==
    /\ t \in AppState
    /\ t.recording = s.recording /\ t.otaUpdating = s.otaUpdating
    /\ t.recLock = s.recLock /\ t.otaLock = s.otaLock
    /\ t.audioSid = s.audioSid /\ (t.off => s.off)

\* Nothing but a variable of the buttons differs.
SetApart(s, r) ==
    Going(s, r) /\ r.armed = s.armed /\ r.powered = s.powered

\* s_front_press_wake_only
LEMMA FrontWakeSet ==
    ASSUME NEW s \in AppState, NEW w \in BOOLEAN
    PROVE  /\ SetApart(s, [s EXCEPT !.frontWake = w])
           /\ [s EXCEPT !.frontWake = w].frontWake = w
  BY DEF AppState, SetApart, Going

\* s_side_press_wake_only
LEMMA SideWakeSet ==
    ASSUME NEW s \in AppState, NEW w \in BOOLEAN
    PROVE  /\ SetApart(s, [s EXCEPT !.sideWake = w])
           /\ [s EXCEPT !.sideWake = w].frontWake = s.frontWake
  BY DEF AppState, SetApart, Going

\* s_primary_down_us and s_primary_session_id
LEMMA PressSet ==
    ASSUME NEW s \in AppState, NEW d \in BOOLEAN, NEW n \in Nat
    PROVE  LET r == [s EXCEPT !.primaryDown = d, !.primarySid = n] IN
           SetApart(s, r) /\ r.frontWake = s.frontWake
  BY DEF AppState, SetApart, Going

\* All three of the front button.
LEMMA FrontPressSet ==
    ASSUME NEW s \in AppState, NEW w \in BOOLEAN, NEW d \in BOOLEAN, NEW n \in Nat
    PROVE  LET r == [s EXCEPT !.frontWake = w, !.primaryDown = d, !.primarySid = n] IN
           SetApart(s, r) /\ r.frontWake = w /\ r.primarySid = n
  BY DEF AppState, SetApart, Going

\* The same work goes on.
LEMMA SameWorkGoesOn ==
    ASSUME NEW s, NEW t, NEW u
    PROVE  /\ SameWork(s, t) => Going(s, t)
           /\ Going(s, t) /\ Going(t, u) => Going(s, u)
           /\ SetApart(s, t) /\ SleepArmed(s) => SleepArmed(t)
           /\ Going(s, t) /\ SetApart(t, u) => Going(s, u)
  BY DEF SameWork, Going, SetApart, SleepArmed

\* Such a handler preserves the invariant.
LEMMA PlainHandlerInv ==
    ASSUME IInv, NEW t \in EventTypes, NEW s \in AppState, NEW missed \in SUBSET Inactivity,
           HandleMissing(t, s, missed), Quiet, UNCHANGED <<step, host>>,
           Going(app, s), SleepKept(t, s), app.recording => ~s.frontWake,
           app.recording => t \notin {"disconnected", "otaBegin", "otaEnd"},
           app.recording /\ t = "frontUp" => mode # "hold"
    PROVE  IInv'
  <1>1. LocksHeld /\ RecordingLit /\ host \in Nat
    BY DEF IInv, TypeOK
  <1>2. /\ s.recording = app.recording /\ s.otaUpdating = app.otaUpdating
        /\ s.recLock = app.recLock /\ s.otaLock = app.otaLock
        /\ s.audioSid = app.audioSid /\ (s.off => app.off)
    BY DEF Going
  <1>3. (s.recLock <=> s.recording) /\ (s.otaLock => s.otaUpdating)
    BY <1>1, <1>2 DEF LocksHeld
  <1>4. ASSUME s.recording
        PROVE  /\ app.recording /\ ~s.off /\ ~s.frontWake /\ s.audioSid = app.audioSid
               /\ t \notin {"disconnected", "otaBegin"}
               /\ (t = "frontUp" => mode # "hold")
    BY <1>1, <1>2, <1>4 DEF RecordingLit
  <1>5. s.recording /\ s.otaUpdating => \/ app.otaUpdating /\ t # "otaEnd"
                                        \/ t = "otaProgress"
    BY <1>2
  <1>6. Kept(t, s)
    BY <1>3, <1>4, <1>5 DEF Kept
  <1>7. HostKept(s)
    BY <1>1, <1>2 DEF HostKept
  <1> QED
    BY <1>6, <1>7, HandlerInv

\* A handler after which nothing is recorded preserves it too.
LEMMA StoppingHandlerInv ==
    ASSUME IInv, NEW t \in EventTypes, NEW s \in AppState, NEW missed \in SUBSET Inactivity,
           HandleMissing(t, s, missed), Quiet, UNCHANGED step, HostKept(s),
           ~s.recording, ~s.recLock, s.otaLock => s.otaUpdating, SleepKept(t, s)
    PROVE  IInv'
  <1>1. Kept(t, s)
    BY DEF Kept
  <1> QED
    BY <1>1, HandlerInv

\* AppOnly leaves the other tasks alone.
LEMMA AppOnlyQuiet ==
    ASSUME TypeOK, AppOnly
    PROVE  Quiet
  BY DEF TypeOK, AppOnly, Quiet, modeVars, linkVars, buttonVars, powerVars

\* The types of the events.
LEMMA EventTypesAre ==
    /\ Timers \subseteq EventTypes /\ {} \in SUBSET Inactivity
    /\ {"frontDown", "frontUp", "sideDown", "sideUp", "uiState", "connected",
        "disconnected", "disconnectRequest", "powerTimers", "powerIrq", "battery",
        "otaBegin", "otaProgress", "otaDone", "otaEnd", "chime"} \subseteq EventTypes
  BY DEF EventTypes

-----------------------------------------------------------------------------
(* The front button *)

\* What a press that records nothing does to the record.
LEMMA FrontDownLeaves ==
    ASSUME IInv, NEW panel \in BOOLEAN, NEW s,
           \/ app.off /\ s = [NoteActivity(app, panel) EXCEPT !.frontWake = TRUE]
           \/ s = [NoteActivity(app, panel) EXCEPT
                     !.frontWake = FALSE, !.primaryDown = TRUE, !.primarySid = 0]
           \/ s = [NoteActivity(app, panel) EXCEPT
                     !.frontWake = FALSE, !.primaryDown = FALSE, !.primarySid = 0],
           Handle("frontDown", s), AppOnly, UNCHANGED <<step, host>>
    PROVE  IInv'
  <1>1. TypeOK /\ RecordingLit /\ app \in AppState
    BY DEF IInv, TypeOK
  <1> DEFINE a == NoteActivity(app, panel)
  <1>2. a \in AppState /\ SameWork(app, a) /\ SleepArmed(a)
    BY <1>1, ActivityNoted
  <1> HIDE DEF a
  <1>3. FALSE \in BOOLEAN /\ TRUE \in BOOLEAN /\ 0 \in Nat
    OBVIOUS
  <1>4. SetApart(a, s) /\ (s.frontWake => app.off)
    <2>1. CASE s = [a EXCEPT !.frontWake = TRUE] /\ app.off
      BY <1>2, <1>3, <2>1, FrontWakeSet
    <2>2. CASE s = [a EXCEPT !.frontWake = FALSE, !.primaryDown = TRUE, !.primarySid = 0]
      BY <1>2, <1>3, <2>2, FrontPressSet
    <2>3. CASE s = [a EXCEPT !.frontWake = FALSE, !.primaryDown = FALSE, !.primarySid = 0]
      BY <1>2, <1>3, <2>3, FrontPressSet
    <2> QED
      BY <2>1, <2>2, <2>3 DEF a
  <1>5. Going(app, s) /\ SleepArmed(s) /\ s \in AppState
    BY <1>2, <1>4, SameWorkGoesOn DEF Going
  <1>6. app.recording => ~s.frontWake
    BY <1>1, <1>4 DEF RecordingLit
  <1>7. HandleMissing("frontDown", s, {}) /\ Quiet
    BY <1>1, AppOnlyQuiet DEF Handle
  <1> QED
    BY <1>5, <1>6, <1>7, EventTypesAre, PlainHandlerInv DEF SleepKept

\* A press that wakes the display, that confirms or that is denied records nothing.
LEMMA FrontDownPlainInv ==
    ASSUME IInv, FrontDownWakes \/ FrontDownConfirms \/ FrontDownDenied
    PROVE  IInv'
  <1>1. CASE FrontDownWakes
    <2>1. PICK panel \in Outcomes :
             /\ app.off /\ Handle("frontDown", [NoteActivity(app, panel) EXCEPT !.frontWake = TRUE])
             /\ AppOnly /\ UNCHANGED <<step, host>>
      BY <1>1 DEF FrontDownWakes
    <2> DEFINE s == [NoteActivity(app, panel) EXCEPT !.frontWake = TRUE]
    <2>2. panel \in BOOLEAN
      BY <2>1, OutcomesAssumption
    <2>3. s = [NoteActivity(app, panel) EXCEPT !.frontWake = TRUE]
      OBVIOUS
    <2> HIDE DEF s
    <2> QED
      BY <2>1, <2>2, <2>3, FrontDownLeaves
  <1>2. CASE FrontDownConfirms
    <2>1. PICK panel \in Outcomes :
             /\ Handle("frontDown", [NoteActivity(app, panel) EXCEPT
                  !.frontWake = FALSE, !.primaryDown = TRUE, !.primarySid = 0])
             /\ AppOnly /\ UNCHANGED <<step, host>>
      BY <1>2 DEF FrontDownConfirms
    <2> DEFINE s == [NoteActivity(app, panel) EXCEPT
                      !.frontWake = FALSE, !.primaryDown = TRUE, !.primarySid = 0]
    <2>2. panel \in BOOLEAN
      BY <2>1, OutcomesAssumption
    <2>3. s = [NoteActivity(app, panel) EXCEPT
                !.frontWake = FALSE, !.primaryDown = TRUE, !.primarySid = 0]
      OBVIOUS
    <2> HIDE DEF s
    <2> QED
      BY <2>1, <2>2, <2>3, FrontDownLeaves
  <1>3. CASE FrontDownDenied
    <2>1. PICK panel \in Outcomes :
             /\ Handle("frontDown", [NoteActivity(app, panel) EXCEPT
                  !.frontWake = FALSE, !.primaryDown = FALSE, !.primarySid = 0])
             /\ AppOnly /\ UNCHANGED <<step, host>>
      BY <1>3 DEF FrontDownDenied
    <2> DEFINE s == [NoteActivity(app, panel) EXCEPT
                      !.frontWake = FALSE, !.primaryDown = FALSE, !.primarySid = 0]
    <2>2. panel \in BOOLEAN
      BY <2>1, OutcomesAssumption
    <2>3. s = [NoteActivity(app, panel) EXCEPT
                !.frontWake = FALSE, !.primaryDown = FALSE, !.primarySid = 0]
      OBVIOUS
    <2> HIDE DEF s
    <2> QED
      BY <2>1, <2>2, <2>3, FrontDownLeaves
  <1> QED
    BY <1>1, <1>2, <1>3

\* A session that could not be started leaves nothing behind.
LEMMA FrontDownFailsInv ==
    ASSUME IInv, FrontDownFails
    PROVE  IInv'
  <1>1. TypeOK /\ LocksHeld /\ app \in AppState
    BY DEF IInv, TypeOK
  <1>2. PICK panel \in Outcomes :
           /\ CanRecord(app)
           /\ Handle("frontDown", [StartRecording(NoteActivity(app, panel), FALSE) EXCEPT
                  !.frontWake = FALSE, !.primaryDown = FALSE, !.primarySid = 0])
           /\ AppOnly /\ UNCHANGED <<step, host>>
    BY DEF FrontDownFails
  <1> DEFINE a == NoteActivity(app, panel)
             f == StartRecording(a, FALSE)
             s == [f EXCEPT !.frontWake = FALSE, !.primaryDown = FALSE, !.primarySid = 0]
  <1>3. a \in AppState /\ SameWork(app, a) /\ SleepArmed(a)
    BY <1>1, <1>2, OutcomesAssumption, ActivityNoted
  <1> HIDE DEF a
  <1>4. Going(a, f) /\ f \in AppState /\ f.powered = a.powered /\ SleepArmed(f)
    BY <1>3, RecordingStarted DEF Going
  <1> HIDE DEF f
  <1>5. FALSE \in BOOLEAN /\ 0 \in Nat
    OBVIOUS
  <1>6. SetApart(f, s)
    BY <1>4, <1>5, FrontPressSet
  <1>7. HandleMissing("frontDown", s, {}) /\ Quiet
    BY <1>1, <1>2, AppOnlyQuiet DEF Handle, a, f
  <1> HIDE DEF s
  <1>8. Going(app, s) /\ SleepArmed(s) /\ s \in AppState
    BY <1>3, <1>4, <1>6, SameWorkGoesOn DEF Going
  <1>9. ~app.recording
    BY <1>2 DEF CanRecord
  <1> QED
    BY <1>2, <1>7, <1>8, <1>9, EventTypesAre, PlainHandlerInv DEF SleepKept

\* The second click of click_to_talk.
LEMMA FrontDownStopsInv ==
    ASSUME IInv, FrontDownStops
    PROVE  IInv'
  <1>1. TypeOK /\ LocksHeld /\ app \in AppState /\ host \in Nat
    BY DEF IInv, TypeOK
  <1>2. PICK panel \in Outcomes, sent \in BOOLEAN :
           LET s == StopRecording([NoteActivity(app, panel) EXCEPT !.frontWake = FALSE])
               t == IF sent THEN s ELSE ApplyUi(s, "ready", panel)
           IN  /\ Handle("frontDown", [t EXCEPT !.primaryDown = FALSE, !.primarySid = 0])
               /\ host' = 0 /\ AppOnly /\ UNCHANGED step
    BY DEF FrontDownStops
  <1> DEFINE a == NoteActivity(app, panel)
             b == [a EXCEPT !.frontWake = FALSE]
             c == StopRecording(b)
             d == IF sent THEN c ELSE ApplyUi(c, "ready", panel)
             s == [d EXCEPT !.primaryDown = FALSE, !.primarySid = 0]
  <1>3. HandleMissing("frontDown", s, {}) /\ Quiet /\ host' = 0 /\ UNCHANGED step
    BY <1>1, <1>2, AppOnlyQuiet DEF Handle
  <1>4. a \in AppState /\ SameWork(app, a) /\ SleepArmed(a)
    BY <1>1, <1>2, OutcomesAssumption, ActivityNoted
  <1> HIDE DEF a
  <1>5. FALSE \in BOOLEAN /\ 0 \in Nat
    OBVIOUS
  <1>6. SetApart(a, b)
    BY <1>4, <1>5, FrontWakeSet
  <1> HIDE DEF b
  <1>7. Going(app, b) /\ SleepArmed(b) /\ b \in AppState
    BY <1>4, <1>6, SameWorkGoesOn DEF Going
  <1>8. (b.recLock <=> b.recording) /\ (b.otaLock => b.otaUpdating)
    BY <1>1, <1>7 DEF Going, LocksHeld
  <1>9. c \in AppState /\ ~c.recording /\ ~c.recLock /\ (c.otaLock => c.otaUpdating) /\ SleepArmed(c)
    BY <1>7, <1>8, RecordingStopped
  <1> HIDE DEF c
  <1>10. "ready" \in UiStates
    BY DEF UiStates
  <1>11. ApplyUi(c, "ready", panel) \in AppState /\ SameWork(c, ApplyUi(c, "ready", panel))
         /\ SleepArmed(ApplyUi(c, "ready", panel))
    BY <1>2, <1>9, <1>10, OutcomesAssumption, UiApplied
  <1>12. d \in AppState /\ ~d.recording /\ ~d.recLock /\ (d.otaLock => d.otaUpdating) /\ SleepArmed(d)
    BY <1>9, <1>11 DEF SameWork
  <1> HIDE DEF d
  <1>13. SetApart(d, s)
    BY <1>12, <1>5, PressSet
  <1> HIDE DEF s
  <1>14. s \in AppState /\ ~s.recording /\ ~s.recLock /\ (s.otaLock => s.otaUpdating) /\ SleepArmed(s)
    BY <1>12, <1>13, SameWorkGoesOn DEF Going, SetApart
  <1>15. HostKept(s)
    BY <1>1, <1>3 DEF HostKept
  <1> QED
    BY <1>3, <1>14, <1>15, EventTypesAre, StoppingHandlerInv DEF SleepKept

\* A press that starts a recording: its release is still to come, and whatever
\* the host was told of before, its link is being cut.
LEMMA FrontDownRecordsInv ==
    ASSUME IInv, FrontDownRecords
    PROVE  IInv'
  <1>1. /\ TypeOK /\ LocksHeld /\ HostInStep /\ PressesFollowed /\ ProgressFollowed
        /\ app \in AppState /\ host \in Nat
    BY DEF IInv, TypeOK
  <1>2. PICK panel \in Outcomes :
           /\ ~app.off /\ CanRecord(app)
           /\ Handle("frontDown", [StartRecording(NoteActivity(app, panel), TRUE) EXCEPT
                  !.frontWake = FALSE, !.primaryDown = TRUE, !.primarySid = app.nextSid])
           /\ step' = "tell" /\ modeSwitched' = FALSE
           /\ UNCHANGED <<mode, hint, linkVars, buttonVars, powerVars, inputs, host>>
    BY DEF FrontDownRecords, FrontDownStarts
  <1> DEFINE a == NoteActivity(app, panel)
             r == StartRecording(a, TRUE)
             s == [r EXCEPT !.frontWake = FALSE, !.primaryDown = TRUE,
                            !.primarySid = app.nextSid]
  <1>3. HandleMissing("frontDown", s, {})
    BY <1>2 DEF Handle
  <1>4. /\ a \in AppState /\ SleepArmed(a) /\ a.nextSid = app.nextSid
        /\ (a.off => app.off) /\ a.otaUpdating = app.otaUpdating /\ a.otaLock = app.otaLock
    BY <1>1, <1>2, OutcomesAssumption, ActivityNoted DEF SameWork
  <1> HIDE DEF a
  <1>5. /\ r \in AppState /\ r.recording /\ r.recLock /\ r.audioSid = a.nextSid
        /\ r.otaUpdating = a.otaUpdating /\ r.otaLock = a.otaLock /\ r.off = a.off
    BY <1>4, RecordingStarted
  <1> HIDE DEF r
  <1>6. FALSE \in BOOLEAN /\ TRUE \in BOOLEAN /\ app.nextSid \in Nat
    BY <1>1 DEF AppState
  <1>7. SetApart(r, s) /\ ~s.frontWake /\ s.primarySid = app.nextSid
    <2> DEFINE n == app.nextSid
               u == [r EXCEPT !.frontWake = FALSE, !.primaryDown = TRUE, !.primarySid = n]
    <2>1. r \in AppState /\ n \in Nat /\ FALSE \in BOOLEAN /\ TRUE \in BOOLEAN
      BY <1>5, <1>6
    <2>2. s = u
      OBVIOUS
    <2> HIDE DEF n, s
    <2>3. SetApart(r, u) /\ ~u.frontWake /\ u.primarySid = n
      BY <2>1, FrontPressSet
    <2> QED
      BY <2>2, <2>3 DEF n
  <1> HIDE DEF s
  <1>8. ~app.otaUpdating /\ ~app.recording /\ ~linkOta /\ link = "ready" /\ ~app.off
    BY <1>2 DEF CanRecord
  <1>9. /\ s \in AppState /\ s.recording /\ s.recLock /\ ~s.otaUpdating /\ ~s.otaLock
        /\ ~s.off /\ ~s.frontWake /\ s.audioSid = app.nextSid /\ s.primarySid = s.audioSid
    BY <1>1, <1>4, <1>5, <1>7, <1>8 DEF SetApart, Going, LocksHeld
  <1>10. QueueOK /\ "frontDown" \in EventTypes /\ {} \in SUBSET Inactivity
    BY <1>1, EventTypesAre DEF TypeOK, QueueOK
  <1>11. /\ UNCHANGED <<mode, hint, link, linkOta, terminating, uncut, rebooting, frontHeld,
                        sideHeld, power, irqEnabled, inputs, host>>
         /\ step' = "tell" /\ modeSwitched' = FALSE
    BY <1>2 DEF linkVars, buttonVars, powerVars
  <1>12. app' = s
    BY <1>3 DEF HandleMissing
  <1>13. TypeOK'
    <2>1. /\ mode' \in {"hold", "click"} /\ hint' \in BOOLEAN
          /\ link' \in {"down", "up", "ready"} /\ linkOta' \in BOOLEAN /\ terminating' \in BOOLEAN /\ uncut' \in Nat
          /\ rebooting' \in BOOLEAN /\ frontHeld' \in BOOLEAN /\ sideHeld' \in BOOLEAN
          /\ power' \in BOOLEAN /\ irqEnabled' \in BOOLEAN /\ inputs' \in Nat /\ host' \in Nat
      BY <1>1, <1>11 DEF TypeOK
    <2>2. modeSwitched' \in BOOLEAN /\ step' \in {"idle", "tell", "sleep"}
      BY <1>11
    <2> QED
      BY <1>1, <1>3, <1>9, <1>10, <2>1, <2>2, HandledTypes
  <1>14. LocksHeld' /\ RecordingLit'
    BY <1>9, <1>12 DEF LocksHeld, RecordingLit
  <1>15. host' = 0 \/ terminating' \/ host' = uncut'
    BY <1>1, <1>8, <1>11 DEF HostInStep
  <1>16. Telling' /\ HostUntold' /\ HostInStep'
    BY <1>8, <1>9, <1>11, <1>12, <1>15 DEF Telling, HostUntold, HostInStep
  <1>17. RecordingOnLink'
    BY <1>8, <1>11 DEF RecordingOnLink
  <1>18. PressesFollowed' /\ ProgressFollowed'
    <2>1. /\ \A u : u \notin Timers /\ u \in lost => u \in lost'
          /\ \A c, b : b \notin Timers /\ c # b => (Followed(c, b) => Followed(c, b)')
      BY <1>3, <1>9, <1>10, Received
    <2>2. "frontUp" \notin Timers /\ "otaEnd" \notin Timers
      BY DEF Timers, Inactivity
    <2>3. /\ "frontUp" \in lost => "frontUp" \in lost'
          /\ "otaEnd" \in lost => "otaEnd" \in lost'
          /\ Followed("frontDown", "frontUp") => Followed("frontDown", "frontUp")'
          /\ Followed("otaProgress", "otaEnd") => Followed("otaProgress", "otaEnd")'
      BY <2>1, <2>2
    <2> QED
      BY <1>1, <1>11, <2>3 DEF PressesFollowed, ProgressFollowed
  <1>19. HoldToTalk'
    <2>1. "frontUp" \notin Timers /\ "frontDown" # "frontUp"
      BY DEF Timers, Inactivity
    <2>2. Followed("frontDown", "frontUp") => Pending("frontUp")'
      BY <1>3, <1>9, <1>10, <2>1, Received
    <2>3. "frontUp" \in lost => Pending("frontUp")'
      <3>1. \A u : u \notin Timers /\ u \in lost => u \in lost'
        BY <1>3, <1>9, <1>10, Received
      <3> QED
        BY <2>1, <3>1 DEF Pending
    <2> QED
      BY <1>1, <1>11, <2>2, <2>3 DEF PressesFollowed, HoldToTalk
  <1>20. OtaStopsRecording'
    BY <1>8, <1>9, <1>11, <1>12 DEF OtaStopsRecording
  <1>21. SleepScheduled'
    BY <1>9, <1>12 DEF SleepScheduled
  <1> QED
    BY <1>13, <1>14, <1>16, <1>17, <1>18, <1>19, <1>20, <1>21 DEF IInv

\* The host learns of the recording, or the recording is taken back.
LEMMA FrontTellInv ==
    ASSUME IInv, FrontTell
    PROVE  IInv'
  <1>1. /\ TypeOK /\ LocksHeld /\ RecordingLit /\ Telling /\ HostUntold /\ HostInStep
        /\ RecordingOnLink /\ HoldToTalk /\ PressesFollowed
        /\ OtaStopsRecording /\ ProgressFollowed /\ SleepScheduled
    BY DEF IInv
  <1>2. /\ step = "tell" /\ step' = "idle"
        /\ UNCHANGED <<queue, mode, hint, modeSwitched, link, linkOta, terminating, uncut, rebooting,
                       frontHeld, sideHeld, power, irqEnabled, inputs>>
    BY DEF FrontTell, AppOnly, modeVars, linkVars, buttonVars, powerVars
  <1>3. app \in AppState /\ app.recording /\ app.primarySid = app.audioSid /\ app.primarySid \in Nat
    BY <1>1, <1>2 DEF Telling, TypeOK, AppState
  <1>4. CASE link # "down" /\ host' = app.primarySid /\ UNCHANGED <<app, lost>>
    <2>1. UNCHANGED <<app, lost, queue>> /\ host' \in Nat
      BY <1>2, <1>3, <1>4
    <2>2. TypeOK'
      BY <1>1, <1>2, <2>1 DEF TypeOK
    <2>3. \A u : Pending(u)' <=> Pending(u)
      BY <2>1 DEF Pending, InQueue
    <2>4. LocksHeld' /\ RecordingLit' /\ Telling'
      BY <1>1, <1>2, <2>1 DEF LocksHeld, RecordingLit, Telling
    <2>5. HostUntold' /\ HostInStep'
      BY <1>2, <1>3, <1>4 DEF HostUntold, HostInStep
    <2>6. RecordingOnLink' /\ HoldToTalk' /\ OtaStopsRecording'
      BY <1>1, <1>2, <2>1, <2>3 DEF RecordingOnLink, HoldToTalk, OtaStopsRecording
    <2>7. PressesFollowed' /\ ProgressFollowed'
      BY <1>1, <1>2, <2>1 DEF PressesFollowed, ProgressFollowed, Followed
    <2>8. SleepScheduled'
      BY <1>3, <2>1 DEF SleepScheduled
    <2> QED
      BY <2>2, <2>4, <2>5, <2>6, <2>7, <2>8 DEF IInv
  <1>5. CASE \E panel \in Outcomes :
               /\ app' = ApplyUi([StopRecording(app) EXCEPT !.primarySid = 0], "ready", panel)
               /\ lost' = lost \ app'.armed
               /\ UNCHANGED host
    <2>1. PICK panel \in Outcomes :
               /\ app' = ApplyUi([StopRecording(app) EXCEPT !.primarySid = 0], "ready", panel)
               /\ lost' = lost \ app'.armed
               /\ UNCHANGED host
      BY <1>5
    <2> DEFINE r == StopRecording(app)
               p == [r EXCEPT !.primarySid = 0]
               s == ApplyUi(p, "ready", panel)
    <2>2. /\ r \in AppState /\ ~r.recording /\ ~r.recLock /\ r.otaUpdating = app.otaUpdating
          /\ r.otaLock = app.otaLock
      BY <1>1, <1>3, RecordingStopped DEF LocksHeld
    <2> HIDE DEF r
    <2>3. /\ p \in AppState /\ ~p.recording /\ ~p.recLock /\ p.otaUpdating = r.otaUpdating
          /\ p.otaLock = r.otaLock
      BY <2>2 DEF AppState
    <2> HIDE DEF p
    <2>4. panel \in BOOLEAN /\ "ready" \in UiStates
      BY OutcomesAssumption DEF UiStates
    <2>5. s \in AppState /\ SameWork(p, s) /\ SleepArmed(s)
      BY <2>3, <2>4, UiApplied
    <2>6. app' = s /\ lost' = lost \ s.armed /\ host' = host
      BY <2>1 DEF p, r
    <2> HIDE DEF s
    <2>7. ~s.recording /\ ~s.recLock /\ (s.otaLock => s.otaUpdating)
      BY <1>1, <2>2, <2>3, <2>5 DEF SameWork, LocksHeld
    <2>8. TypeOK'
      <3>1. lost' \subseteq EventTypes /\ app' \in AppState
        BY <1>1, <2>5, <2>6 DEF TypeOK
      <3> QED
        BY <1>1, <1>2, <2>6, <3>1 DEF TypeOK
    <2>9. LocksHeld' /\ RecordingLit' /\ Telling'
      BY <1>2, <2>6, <2>7 DEF LocksHeld, RecordingLit, Telling
    <2>10. HostUntold' /\ HostInStep'
      BY <1>1, <1>2, <2>6 DEF HostUntold, HostInStep, Telling
    <2>11. RecordingOnLink' /\ HoldToTalk' /\ OtaStopsRecording'
      BY <2>6, <2>7 DEF RecordingOnLink, HoldToTalk, OtaStopsRecording
    <2>12. PressesFollowed' /\ ProgressFollowed'
      <3>1. s.armed \subseteq Timers /\ "frontUp" \notin Timers /\ "otaEnd" \notin Timers
        BY <2>5 DEF AppState, Timers, Inactivity
      <3> QED
        BY <1>1, <1>2, <2>6, <3>1 DEF PressesFollowed, ProgressFollowed, Followed
    <2>13. SleepScheduled'
      BY <2>5, <2>6 DEF SleepScheduled, SleepArmed
    <2> QED
      BY <2>8, <2>9, <2>10, <2>11, <2>12, <2>13 DEF IInv
  <1> QED
    BY <1>4, <1>5 DEF FrontTell

\* A release that ends no recording.
LEMMA FrontUpPlainInv ==
    ASSUME IInv, FrontUpWakes \/ FrontUpIgnored
    PROVE  IInv'
  <1>1. TypeOK /\ RecordingLit /\ app \in AppState
    BY DEF IInv, TypeOK
  <1>2. PICK panel, s :
           /\ panel \in BOOLEAN
           /\ \/ app.frontWake /\ s = [NoteActivity(app, panel) EXCEPT !.frontWake = FALSE]
              \/ (mode = "click" \/ NothingPressed) /\ s = NoteActivity(app, panel)
           /\ Handle("frontUp", s) /\ AppOnly /\ UNCHANGED <<step, host>>
    <2>1. CASE FrontUpWakes
      <3>1. PICK panel \in Outcomes :
               /\ app.frontWake
               /\ Handle("frontUp", [NoteActivity(app, panel) EXCEPT !.frontWake = FALSE])
               /\ AppOnly /\ UNCHANGED <<step, host>>
        BY <2>1 DEF FrontUpWakes
      <3>2. panel \in BOOLEAN
        BY <3>1, OutcomesAssumption
      <3> QED
        BY <3>1, <3>2
    <2>2. CASE FrontUpIgnored
      <3>1. PICK panel \in Outcomes :
               /\ mode = "click" \/ NothingPressed
               /\ Handle("frontUp", NoteActivity(app, panel))
               /\ AppOnly /\ UNCHANGED <<step, host>>
        BY <2>2 DEF FrontUpIgnored
      <3>2. panel \in BOOLEAN
        BY <3>1, OutcomesAssumption
      <3> QED
        BY <3>1, <3>2
    <2> QED
      BY <2>1, <2>2
  <1> DEFINE a == NoteActivity(app, panel)
  <1>3. a \in AppState /\ SameWork(app, a) /\ SleepArmed(a)
    <2>1. panel \in BOOLEAN
      BY <1>2
    <2> QED
      BY <1>1, <2>1, ActivityNoted
  <1>4. FALSE \in BOOLEAN
    OBVIOUS
  <1> HIDE DEF a
  <1>5. SetApart(a, s) /\ (app.recording => ~s.frontWake)
    <2>1. CASE app.frontWake /\ s = [a EXCEPT !.frontWake = FALSE]
      BY <1>3, <1>4, <2>1, FrontWakeSet
    <2>2. CASE s = a
      BY <1>1, <1>3, <2>2 DEF SetApart, Going, SameWork, RecordingLit
    <2> QED
      BY <1>2, <2>1, <2>2 DEF a
  <1>6. Going(app, s) /\ SleepArmed(s) /\ s \in AppState
    BY <1>3, <1>5, SameWorkGoesOn DEF Going
  <1>7. app.recording => mode # "hold"
    BY <1>1, <1>2 DEF RecordingLit, NothingPressed
  <1>8. HandleMissing("frontUp", s, {}) /\ Quiet
    BY <1>1, <1>2, AppOnlyQuiet DEF Handle
  <1> QED
    BY <1>2, <1>5, <1>6, <1>7, <1>8, EventTypesAre, PlainHandlerInv DEF SleepKept

\* The release that ends a recording of hold_to_talk.
LEMMA FrontUpStopsInv ==
    ASSUME IInv, FrontUpStops
    PROVE  IInv'
  <1>1. TypeOK /\ LocksHeld /\ app \in AppState /\ host \in Nat
    BY DEF IInv, TypeOK
  <1>2. PICK panel, t :
           LET s == StopRecording(NoteActivity(app, panel))
           IN  /\ panel \in Outcomes
               /\ t = s \/ t = ApplyUi(s, "ready", panel)
               /\ Handle("frontUp", [t EXCEPT !.primaryDown = FALSE, !.primarySid = 0])
               /\ host' = (IF app.recording THEN 0 ELSE host)
               /\ AppOnly /\ UNCHANGED step
    BY DEF FrontUpStops
  <1> DEFINE a == NoteActivity(app, panel)
             c == StopRecording(a)
             d == ApplyUi(c, "ready", panel)
             s == [t EXCEPT !.primaryDown = FALSE, !.primarySid = 0]
  <1>3. /\ HandleMissing("frontUp", s, {}) /\ Quiet /\ UNCHANGED step /\ (t = c \/ t = d)
        /\ host' = IF app.recording THEN 0 ELSE host
    BY <1>1, <1>2, AppOnlyQuiet DEF Handle
  <1>4. a \in AppState /\ SameWork(app, a) /\ SleepArmed(a)
    BY <1>1, <1>2, OutcomesAssumption, ActivityNoted
  <1> HIDE DEF a
  <1>5. (a.recLock <=> a.recording) /\ (a.otaLock => a.otaUpdating)
    BY <1>1, <1>4 DEF SameWork, LocksHeld
  <1>6. c \in AppState /\ ~c.recording /\ ~c.recLock /\ (c.otaLock => c.otaUpdating) /\ SleepArmed(c)
    BY <1>4, <1>5, RecordingStopped
  <1> HIDE DEF c
  <1>7. panel \in BOOLEAN /\ "ready" \in UiStates /\ FALSE \in BOOLEAN /\ 0 \in Nat
    BY <1>2, OutcomesAssumption DEF UiStates
  <1>8. d \in AppState /\ SameWork(c, d) /\ SleepArmed(d)
    BY <1>6, <1>7, UiApplied
  <1> HIDE DEF d
  <1>9. t \in AppState /\ ~t.recording /\ ~t.recLock /\ (t.otaLock => t.otaUpdating) /\ SleepArmed(t)
    BY <1>3, <1>6, <1>8 DEF SameWork
  <1>10. SetApart(t, s)
    BY <1>7, <1>9, PressSet
  <1> HIDE DEF s
  <1>11. s \in AppState /\ ~s.recording /\ ~s.recLock /\ (s.otaLock => s.otaUpdating) /\ SleepArmed(s)
    BY <1>9, <1>10, SameWorkGoesOn DEF Going, SetApart
  <1>12. HostKept(s)
    BY <1>1, <1>3 DEF HostKept
  <1> QED
    BY <1>3, <1>11, <1>12, EventTypesAre, StoppingHandlerInv DEF SleepKept

-----------------------------------------------------------------------------
(* The side button *)

\* A side press, and a release that cancels nothing.
LEMMA SidePlainInv ==
    ASSUME IInv, SideDown \/ SideUp
    PROVE  IInv'
  <1>1. TypeOK /\ RecordingLit /\ app \in AppState /\ app.off \in BOOLEAN
    BY DEF IInv, TypeOK, AppState
  <1>2. PICK panel \in BOOLEAN, w \in BOOLEAN, t \in {"sideDown", "sideUp"} :
           /\ Handle(t, [NoteActivity(app, panel) EXCEPT !.sideWake = w])
           /\ AppOnly /\ UNCHANGED <<step, host>>
    BY <1>1, OutcomesAssumption DEF SideDown, SideUp
  <1> DEFINE a == NoteActivity(app, panel)
             s == [a EXCEPT !.sideWake = w]
  <1>3. a \in AppState /\ SameWork(app, a) /\ SleepArmed(a)
    BY <1>1, ActivityNoted
  <1>4. HandleMissing(t, s, {}) /\ Quiet
    BY <1>1, <1>2, AppOnlyQuiet DEF Handle
  <1> HIDE DEF a
  <1>5. SetApart(a, s) /\ s.frontWake = a.frontWake
    BY <1>3, SideWakeSet
  <1> HIDE DEF s
  <1>6. Going(app, s) /\ SleepArmed(s) /\ s \in AppState
    <2>1. Going(app, a) /\ Going(a, s)
      BY <1>3, <1>5, SameWorkGoesOn DEF SetApart
    <2>2. Going(app, s)
      BY <2>1, SameWorkGoesOn
    <2>3. SleepArmed(s)
      BY <1>3, <1>5, SameWorkGoesOn
    <2> QED
      BY <2>2, <2>3 DEF Going
  <1>7. app.recording => ~s.frontWake
    BY <1>1, <1>3, <1>5 DEF RecordingLit, SameWork
  <1>8. t \in EventTypes /\ t \notin {"disconnected", "otaBegin", "otaEnd", "frontUp"}
    BY <1>2, EventTypesAre
  <1> QED
    BY <1>2, <1>4, <1>6, <1>7, <1>8, EventTypesAre, PlainHandlerInv DEF SleepKept

\* A side click that cancels the recording; unless it tells the host, it cuts
\* the link.
LEMMA SideUpCancelsInv ==
    ASSUME IInv, SideUpCancels
    PROVE  IInv'
  <1>1. TypeOK /\ LocksHeld /\ HostUntold /\ app \in AppState /\ host \in Nat
    BY DEF IInv, TypeOK
  <1>2. PICK panel \in Outcomes, sent \in BOOLEAN, cut \in BOOLEAN :
           /\ app.recording
           /\ Handle("sideUp", Cancelled(panel))
           /\ host' = IF sent THEN 0 ELSE host
           /\ terminating' = (terminating \/ (~sent /\ cut /\ link # "down"))
           /\ uncut' = IF sent \/ cut THEN uncut ELSE host
           /\ UNCHANGED <<step, modeVars, link, linkOta, rebooting, buttonVars, powerVars, inputs>>
    BY DEF SideUpCancels
  <1> DEFINE a == NoteActivity(app, panel)
             c == StopRecording(a)
             s == [c EXCEPT !.primaryDown = FALSE, !.primarySid = 0, !.ui = "ready",
                            !.scene = "idle"]
  <1>3. HandleMissing("sideUp", s, {}) /\ UNCHANGED step
    BY <1>2 DEF Handle, Cancelled
  <1>4. a \in AppState /\ SameWork(app, a) /\ SleepArmed(a)
    BY <1>1, <1>2, OutcomesAssumption, ActivityNoted
  <1> HIDE DEF a
  <1>5. (a.recLock <=> a.recording) /\ (a.otaLock => a.otaUpdating)
    BY <1>1, <1>4 DEF SameWork, LocksHeld
  <1>6. c \in AppState /\ ~c.recording /\ ~c.recLock /\ (c.otaLock => c.otaUpdating) /\ SleepArmed(c)
    BY <1>4, <1>5, RecordingStopped
  <1> HIDE DEF c
  <1>7. /\ FALSE \in BOOLEAN /\ 0 \in Nat /\ "ready" \in UiStates /\ "idle" \in Scenes
    BY DEF UiStates, Scenes
  <1>8. /\ s \in AppState /\ s.recording = c.recording /\ s.recLock = c.recLock
        /\ s.otaLock = c.otaLock /\ s.otaUpdating = c.otaUpdating /\ s.powered = c.powered
        /\ s.armed = c.armed
    BY <1>6, <1>7 DEF AppState
  <1> HIDE DEF s
  <1>9. ~s.recording /\ ~s.recLock /\ (s.otaLock => s.otaUpdating) /\ SleepArmed(s)
    BY <1>6, <1>8 DEF SleepArmed
  <1>10. Quiet
    <2>1. UNCHANGED <<modeVars, link, linkOta, rebooting, buttonVars, power, irqEnabled, inputs>>
      BY <1>2 DEF powerVars
    <2>2. terminating' \in BOOLEAN /\ irqEnabled' \in BOOLEAN
      BY <1>1, <1>2, <2>1 DEF TypeOK
    <2>3. terminating => terminating'
      BY <1>2
    <2>4. uncut' \in Nat /\ (uncut' = uncut \/ uncut' = host)
      BY <1>1, <1>2 DEF TypeOK
    <2> QED
      BY <2>1, <2>2, <2>3, <2>4 DEF Quiet
  <1>11. HostKept(s)
    <2>1. host' \in {0, host}
      BY <1>1, <1>2
    <2>2. host' # 0 => ~sent /\ link # "down" /\ host' = host
      BY <1>1, <1>2 DEF HostUntold
    <2> QED
      BY <1>2, <2>1, <2>2 DEF HostKept
  <1> QED
    BY <1>3, <1>8, <1>9, <1>10, <1>11, EventTypesAre, StoppingHandlerInv DEF SleepKept

-----------------------------------------------------------------------------
(* The host, the link and the update *)

\* Events that leave the record, or only note activity.
LEMMA NoticeInv ==
    ASSUME IInv, PowerTimers \/ NotificationChime \/ DisconnectRequest
    PROVE  IInv'
  <1>1. TypeOK /\ RecordingLit /\ app \in AppState
    BY DEF IInv, TypeOK
  <1>2. /\ "powerTimers" \in EventTypes /\ "chime" \in EventTypes
        /\ "disconnectRequest" \in EventTypes /\ {} \in SUBSET Inactivity
    BY EventTypesAre
  <1>3. CASE PowerTimers
    <2>1. PICK panel \in Outcomes :
             /\ Handle("powerTimers", NoteActivity(app, panel))
             /\ AppOnly /\ UNCHANGED <<step, host>>
      BY <1>3 DEF PowerTimers
    <2> DEFINE s == NoteActivity(app, panel)
    <2>2. s \in AppState /\ SameWork(app, s) /\ SleepArmed(s)
      BY <1>1, <2>1, OutcomesAssumption, ActivityNoted
    <2>3. HandleMissing("powerTimers", s, {}) /\ Quiet
      BY <1>1, <2>1, AppOnlyQuiet DEF Handle
    <2> HIDE DEF s
    <2>4. Going(app, s) /\ (app.recording => ~s.frontWake)
      BY <1>1, <2>2, SameWorkGoesOn DEF RecordingLit, SameWork
    <2> QED
      BY <1>2, <2>1, <2>2, <2>3, <2>4, PlainHandlerInv DEF SleepKept
  <1>4. Going(app, app) /\ (app.recording => ~app.frontWake)
    BY <1>1 DEF RecordingLit, Going
  <1>5. SleepKept("chime", app) /\ SleepKept("disconnectRequest", app)
    BY DEF SleepKept
  <1>6. CASE NotificationChime
    <2>1. HandleMissing("chime", app, {}) /\ Quiet /\ UNCHANGED <<step, host>>
      BY <1>1, <1>6, AppOnlyQuiet DEF Handle, NotificationChime
    <2> QED
      BY <1>1, <1>2, <1>4, <1>5, <2>1, PlainHandlerInv
  <1>7. CASE DisconnectRequest
    <2>1. /\ HandleMissing("disconnectRequest", app, {})
          /\ UNCHANGED <<step, modeVars, link, linkOta, uncut, rebooting, buttonVars, powerVars,
                         inputs, host>>
          /\ \E cut \in BOOLEAN : terminating' = (terminating \/ (cut /\ link # "down"))
      BY <1>7 DEF Handle, DisconnectRequest
    <2>2. UNCHANGED <<modeVars, link, linkOta, rebooting, buttonVars, power, irqEnabled, inputs>>
      BY <2>1 DEF powerVars
    <2>3. terminating' \in BOOLEAN /\ irqEnabled' \in BOOLEAN
      BY <1>1, <2>1, <2>2 DEF TypeOK
    <2>4. terminating => terminating'
      BY <2>1
    <2>5. Quiet
      BY <1>1, <2>1, <2>2, <2>3, <2>4 DEF Quiet, TypeOK
    <2> QED
      BY <1>1, <1>2, <1>4, <1>5, <2>1, <2>5, PlainHandlerInv
  <1> QED
    BY <1>3, <1>6, <1>7

\* A new ready screen.
LEMMA BackgroundSet ==
    ASSUME NEW s \in AppState, NEW bg \in Backgrounds
    PROVE  SameWork(s, [s EXCEPT !.bg = bg])
  BY DEF AppState, SameWork

\* set_app_ui_state, and the end of the done screen.
LEMMA UiEventInv ==
    ASSUME IInv, UiStateEvent \/ CodexDoneTimeout
    PROVE  IInv'
  <1>1. /\ TypeOK /\ RecordingLit /\ app \in AppState /\ QueueOK
    BY DEF IInv, TypeOK, QueueOK
  <1>2. CASE UiStateEvent
    <2> DEFINE e == Head(queue)
               b == IF e.state = "ready" THEN [app EXCEPT !.bg = e.bg] ELSE app
    <2>1. PICK panel \in Outcomes :
             /\ Handle("uiState", ApplyUi(b, e.state, panel))
             /\ AppOnly /\ UNCHANGED <<step, host>>
      BY <1>2 DEF UiStateEvent
    <2>2. e \in Event
      BY <1>1, <2>1, HeadTailProperties, EmptySeq DEF Handle, HandleMissing, QueueOK
    <2> HIDE DEF e
    <2>3. e.state \in UiStates /\ e.bg \in Backgrounds
      BY <2>2 DEF Event, UiStates, Backgrounds
    <2>4. b \in AppState /\ SameWork(app, b)
      <3>1. SameWork(app, [app EXCEPT !.bg = e.bg]) /\ SameWork(app, app)
        BY <1>1, <2>3, BackgroundSet DEF SameWork
      <3> QED
        BY <3>1 DEF SameWork
    <2> HIDE DEF b
    <2> DEFINE s == ApplyUi(b, e.state, panel)
    <2>5. s \in AppState /\ SameWork(b, s) /\ SleepArmed(s)
      BY <2>1, <2>3, <2>4, OutcomesAssumption, UiApplied
    <2>6. HandleMissing("uiState", s, {}) /\ Quiet
      BY <1>1, <2>1, AppOnlyQuiet DEF Handle
    <2> HIDE DEF s
    <2>7. SameWork(app, s)
      BY <2>4, <2>5, SameWorkTwice
    <2>8. Going(app, s) /\ (app.recording => ~s.frontWake)
      BY <1>1, <2>7, SameWorkGoesOn DEF RecordingLit, SameWork
    <2> QED
      BY <2>1, <2>5, <2>6, <2>8, EventTypesAre, PlainHandlerInv DEF SleepKept
  <1>3. CASE CodexDoneTimeout
    <2>1. PICK panel, s :
             /\ panel \in Outcomes
             /\ s = ApplyUi(app, "ready", panel) \/ s = app
             /\ Handle("done", s) /\ AppOnly /\ UNCHANGED <<step, host>>
      BY <1>3 DEF CodexDoneTimeout
    <2>2. "ready" \in UiStates /\ panel \in BOOLEAN
      BY <2>1, OutcomesAssumption DEF UiStates
    <2>3. SameWork(app, s) /\ s \in AppState /\ (SleepArmed(s) \/ s = app)
      <3>1. CASE s = ApplyUi(app, "ready", panel)
        BY <1>1, <2>2, <3>1, UiApplied
      <3>2. CASE s = app
        BY <1>1, <3>2 DEF SameWork
      <3> QED
        BY <2>1, <3>1, <3>2
    <2>4. Going(app, s) /\ (app.recording => ~s.frontWake)
      BY <1>1, <2>3, SameWorkGoesOn DEF RecordingLit, SameWork
    <2>5. SleepKept("done", s)
      BY <2>3 DEF SleepKept
    <2>6. HandleMissing("done", s, {}) /\ Quiet
      BY <1>1, <2>1, AppOnlyQuiet DEF Handle
    <2>7. "done" \in EventTypes
      BY EventTypesAre DEF Timers
    <2> QED
      BY <2>1, <2>3, <2>4, <2>5, <2>6, <2>7, EventTypesAre, PlainHandlerInv
  <1> QED
    BY <1>2, <1>3

\* The link became ready.
LEMMA BleConnectedInv ==
    ASSUME IInv, BleConnected
    PROVE  IInv'
  <1>1. TypeOK /\ RecordingLit /\ app \in AppState
    BY DEF IInv, TypeOK
  <1>2. PICK panel \in Outcomes :
           /\ Handle("connected", NoteActivity([StopDoneTimer(app) EXCEPT
                  !.ui = "ready", !.bg = "ready", !.scene = "idle"], panel))
           /\ AppOnly /\ UNCHANGED <<step, host>>
    BY DEF BleConnected
  <1> DEFINE d == StopDoneTimer(app)
             r == [d EXCEPT !.ui = "ready", !.bg = "ready", !.scene = "idle"]
             s == NoteActivity(r, panel)
  <1>3. HandleMissing("connected", s, {}) /\ Quiet
    BY <1>1, <1>2, AppOnlyQuiet DEF Handle
  <1>4. d \in AppState /\ SameWork(app, d)
    BY <1>1, DoneTimerStopped
  <1> HIDE DEF d
  <1>5. "ready" \in UiStates /\ "ready" \in Backgrounds /\ "idle" \in Scenes
    BY DEF UiStates, Backgrounds, Scenes
  <1>6. r \in AppState /\ SameWork(d, r)
    BY <1>4, <1>5, ScreenShown
  <1> HIDE DEF r
  <1>7. s \in AppState /\ SameWork(r, s) /\ SleepArmed(s)
    BY <1>2, <1>6, OutcomesAssumption, ActivityNoted
  <1> HIDE DEF s
  <1>8. SameWork(app, s)
    BY <1>4, <1>6, <1>7, SameWorkTwice
  <1>9. Going(app, s) /\ (app.recording => ~s.frontWake)
    BY <1>1, <1>8, SameWorkGoesOn DEF RecordingLit, SameWork
  <1> QED
    BY <1>2, <1>3, <1>7, <1>9, EventTypesAre, PlainHandlerInv DEF SleepKept

\* BLE_DISCONNECTED ends the recording and the update, and gives their locks back.
LEMMA BleDisconnectedInv ==
    ASSUME IInv, BleDisconnected
    PROVE  IInv'
  <1>1. TypeOK /\ app \in AppState /\ host \in Nat
    BY DEF IInv, TypeOK
  <1>2. PICK panel \in Outcomes :
           /\ Handle("disconnected", NoteActivity(Offline, panel))
           /\ host' = IF app.recording THEN 0 ELSE host
           /\ AppOnly /\ UNCHANGED step
    BY DEF BleDisconnected
  <1> DEFINE d == StopDoneTimer(app)
             s == NoteActivity(Offline, panel)
  <1>3. HandleMissing("disconnected", s, {}) /\ Quiet
    BY <1>1, <1>2, AppOnlyQuiet DEF Handle
  <1>4. d \in AppState
    BY <1>1, DoneTimerStopped
  <1> HIDE DEF d
  <1>5. /\ "ready" \in UiStates /\ "ready" \in Backgrounds /\ "pairing" \in Scenes
        /\ FALSE \in BOOLEAN
    BY DEF UiStates, Backgrounds, Scenes
  <1>6. Offline = [d EXCEPT
            !.recording = FALSE, !.otaUpdating = FALSE, !.ui = "ready", !.bg = "ready",
            !.recLock = FALSE, !.otaLock = FALSE, !.scene = "pairing"]
    BY DEF Offline, d
  <1>7. Offline \in AppState
    BY <1>4, <1>5, <1>6 DEF AppState
  <1>8. ~Offline.recording /\ ~Offline.recLock /\ ~Offline.otaLock
    BY <1>4, <1>6 DEF AppState
  <1>9. s \in AppState /\ SameWork(Offline, s) /\ SleepArmed(s)
    BY <1>2, <1>7, OutcomesAssumption, ActivityNoted
  <1> HIDE DEF s
  <1>10. ~s.recording /\ ~s.recLock /\ ~s.otaLock
    BY <1>8, <1>9 DEF SameWork
  <1>11. HostKept(s)
    BY <1>1, <1>2 DEF HostKept
  <1> QED
    BY <1>2, <1>3, <1>9, <1>10, <1>11, EventTypesAre, StoppingHandlerInv DEF SleepKept

\* BLE_OTA_BEGIN stops the recording.
LEMMA OtaBeginInv ==
    ASSUME IInv, OtaBegin
    PROVE  IInv'
  <1>1. TypeOK /\ LocksHeld /\ app \in AppState /\ host \in Nat
    BY DEF IInv, TypeOK
  <1>2. PICK panel \in Outcomes, locked \in Outcomes :
           LET s == StopRecording([StopDoneTimer(app) EXCEPT !.otaUpdating = TRUE])
           IN  /\ Handle("otaBegin", [NoteActivity(s, panel) EXCEPT
                      !.otaLock = @ \/ locked, !.scene = "ota"])
               /\ host' = (IF app.recording THEN 0 ELSE host)
               /\ AppOnly /\ UNCHANGED step
    BY DEF OtaBegin
  <1> DEFINE d == StopDoneTimer(app)
             r == [d EXCEPT !.otaUpdating = TRUE]
             c == StopRecording(r)
             a == NoteActivity(c, panel)
             s == [a EXCEPT !.otaLock = @ \/ locked, !.scene = "ota"]
  <1>3. /\ HandleMissing("otaBegin", s, {}) /\ Quiet
        /\ host' = (IF app.recording THEN 0 ELSE host) /\ UNCHANGED step
    BY <1>1, <1>2, AppOnlyQuiet DEF Handle
  <1>4. d \in AppState /\ SameWork(app, d)
    BY <1>1, DoneTimerStopped
  <1> HIDE DEF d
  <1>5. TRUE \in BOOLEAN
    OBVIOUS
  <1>6. /\ r \in AppState /\ r.otaUpdating = TRUE /\ r.recLock = d.recLock
        /\ r.recording = d.recording
    BY <1>4, <1>5 DEF AppState
  <1>7. r.recLock <=> r.recording
    BY <1>1, <1>4, <1>6 DEF SameWork, LocksHeld
  <1> HIDE DEF r
  <1>8. c \in AppState /\ ~c.recording /\ ~c.recLock /\ c.otaUpdating = TRUE
    BY <1>6, <1>7, RecordingStopped
  <1> HIDE DEF c
  <1>9. a \in AppState /\ SameWork(c, a)
    BY <1>2, <1>8, OutcomesAssumption, ActivityNoted
  <1>10. ~a.recording /\ ~a.recLock /\ a.otaUpdating = TRUE
    BY <1>8, <1>9 DEF SameWork
  <1> HIDE DEF a
  <1>11. "ota" \in Scenes
    BY DEF Scenes
  <1>12. /\ s \in AppState /\ s.recording = a.recording /\ s.recLock = a.recLock
         /\ s.otaUpdating = a.otaUpdating
    <2> DEFINE l == a.otaLock \/ locked
               u == [a EXCEPT !.otaLock = l, !.scene = "ota"]
    <2>1. l \in BOOLEAN
      OBVIOUS
    <2>2. s = u
      OBVIOUS
    <2> HIDE DEF l, s
    <2>3. /\ u \in AppState /\ u.recording = a.recording /\ u.recLock = a.recLock
          /\ u.otaUpdating = a.otaUpdating
      BY <1>9, <1>11, <2>1 DEF AppState
    <2> QED
      BY <2>2, <2>3
  <1> HIDE DEF s
  <1>13. ~s.recording /\ ~s.recLock /\ s.otaUpdating
    BY <1>10, <1>12
  <1>14. HostKept(s) /\ SleepArmed(s)
    BY <1>1, <1>3, <1>13 DEF HostKept, SleepArmed
  <1> QED
    BY <1>3, <1>12, <1>13, <1>14, EventTypesAre, StoppingHandlerInv DEF SleepKept

\* Progress shows the update; it may come after a recording began.
LEMMA OtaProgressInv ==
    ASSUME IInv, OtaProgress
    PROVE  IInv'
  <1>1. TypeOK /\ LocksHeld /\ RecordingLit /\ app \in AppState /\ host \in Nat
    BY DEF IInv, TypeOK
  <1> DEFINE s == [app EXCEPT !.otaUpdating = TRUE, !.scene = "ota"]
  <1>2. HandleMissing("otaProgress", s, {}) /\ Quiet /\ UNCHANGED <<step, host>>
    BY <1>1, AppOnlyQuiet DEF Handle, OtaProgress
  <1>3. TRUE \in BOOLEAN /\ "ota" \in Scenes
    BY DEF Scenes
  <1>4. /\ s \in AppState /\ s.otaUpdating = TRUE /\ s.recording = app.recording
        /\ s.recLock = app.recLock /\ s.off = app.off /\ s.frontWake = app.frontWake
        /\ s.audioSid = app.audioSid
    BY <1>1, <1>3 DEF AppState
  <1> HIDE DEF s
  <1>5. Kept("otaProgress", s)
    BY <1>1, <1>4 DEF Kept, LocksHeld, RecordingLit
  <1>6. HostKept(s) /\ SleepKept("otaProgress", s)
    BY <1>1, <1>2, <1>4 DEF HostKept, SleepKept, SleepArmed
  <1> QED
    BY <1>2, <1>4, <1>5, <1>6, EventTypesAre, HandlerInv

\* The update is complete: only the screen tells.
LEMMA OtaDoneInv ==
    ASSUME IInv, OtaDone
    PROVE  IInv'
  <1>1. TypeOK /\ RecordingLit /\ app \in AppState
    BY DEF IInv, TypeOK
  <1> DEFINE s == [app EXCEPT !.scene = "reboot"]
  <1>2. HandleMissing("otaDone", s, {}) /\ Quiet /\ UNCHANGED <<step, host>>
    BY <1>1, AppOnlyQuiet DEF Handle, OtaDone
  <1>3. "reboot" \in Scenes
    BY DEF Scenes
  <1>4. /\ Going(app, s) /\ s \in AppState /\ s.frontWake = app.frontWake /\ s.armed = app.armed
        /\ s.powered = app.powered
    BY <1>1, <1>3 DEF AppState, Going
  <1> HIDE DEF s
  <1>5. SleepKept("otaDone", s) /\ (app.recording => ~s.frontWake)
    BY <1>1, <1>4 DEF SleepKept, Going, RecordingLit
  <1> QED
    BY <1>2, <1>4, <1>5, EventTypesAre, PlainHandlerInv

\* The end of the update: its lock is given back.
LEMMA OtaEndInv ==
    ASSUME IInv, OtaEnd
    PROVE  IInv'
  <1>1. TypeOK /\ LocksHeld /\ RecordingLit /\ app \in AppState /\ host \in Nat
    BY DEF IInv, TypeOK
  <1>2. PICK panel \in Outcomes :
           /\ Handle("otaEnd", NoteActivity([StopDoneTimer(app) EXCEPT
                  !.otaUpdating = FALSE, !.otaLock = FALSE,
                  !.ui = "ready", !.scene = "idle"], panel))
           /\ AppOnly /\ UNCHANGED <<step, host>>
    BY DEF OtaEnd
  <1> DEFINE d == StopDoneTimer(app)
             r == [d EXCEPT !.otaUpdating = FALSE, !.otaLock = FALSE,
                            !.ui = "ready", !.scene = "idle"]
             s == NoteActivity(r, panel)
  <1>3. HandleMissing("otaEnd", s, {}) /\ Quiet /\ UNCHANGED <<step, host>>
    BY <1>1, <1>2, AppOnlyQuiet DEF Handle
  <1>4. d \in AppState /\ SameWork(app, d)
    BY <1>1, DoneTimerStopped
  <1> HIDE DEF d
  <1>5. FALSE \in BOOLEAN /\ "ready" \in UiStates /\ "idle" \in Scenes
    BY DEF UiStates, Scenes
  <1>6. /\ r \in AppState /\ ~r.otaUpdating /\ ~r.otaLock /\ r.recording = d.recording
        /\ r.recLock = d.recLock /\ r.off = d.off /\ r.frontWake = d.frontWake
        /\ r.audioSid = d.audioSid
    BY <1>4, <1>5 DEF AppState
  <1> HIDE DEF r
  <1>7. s \in AppState /\ SameWork(r, s) /\ SleepArmed(s)
    BY <1>2, <1>6, OutcomesAssumption, ActivityNoted
  <1> HIDE DEF s
  <1>8. /\ s.recording = app.recording /\ s.recLock = app.recLock /\ (s.off => app.off)
        /\ s.frontWake = app.frontWake /\ s.audioSid = app.audioSid
        /\ ~s.otaLock /\ ~s.otaUpdating
    BY <1>4, <1>6, <1>7 DEF SameWork
  <1>9. Kept("otaEnd", s)
    BY <1>1, <1>8 DEF Kept, LocksHeld, RecordingLit
  <1>10. HostKept(s) /\ SleepKept("otaEnd", s)
    BY <1>1, <1>3, <1>7, <1>8 DEF HostKept, SleepKept
  <1> QED
    BY <1>3, <1>7, <1>9, <1>10, EventTypesAre, HandlerInv

-----------------------------------------------------------------------------
(* Display, power and sleep *)

\* The timers of the display: nothing is recorded when they act.
LEMMA DisplayInv ==
    ASSUME IInv, DisplayDim \/ DisplayOff
    PROVE  IInv'
  <1>1. TypeOK /\ LocksHeld /\ RecordingLit /\ app \in AppState /\ host \in Nat
    BY DEF IInv, TypeOK
  <1>2. /\ {} \in SUBSET Inactivity /\ {"dim"} \in SUBSET Inactivity
        /\ {"dim", "off"} \in SUBSET Inactivity /\ "dim" \in EventTypes /\ "off" \in EventTypes
    BY DEF Inactivity, EventTypes, Timers
  <1>3. Going(app, app) /\ (app.recording => ~app.frontWake)
        /\ SleepKept("dim", app) /\ SleepKept("off", app)
    BY <1>1 DEF Going, RecordingLit, SleepKept
  <1>4. TRUE \in BOOLEAN
    OBVIOUS
  <1>5. CASE DisplayDim
    <2>1. PICK missed, s :
             /\ missed \in SUBSET Inactivity
             /\ s = app \/ (~app.recording /\ s = Dimmed)
             /\ HandleMissing("dim", s, missed)
             /\ AppOnly /\ UNCHANGED <<step, host>>
      BY <1>2, <1>5 DEF DisplayDim
    <2>2. Quiet
      BY <1>1, <2>1, AppOnlyQuiet
    <2>3. CASE s = app
      BY <1>1, <1>2, <1>3, <2>1, <2>2, <2>3, PlainHandlerInv
    <2>4. CASE ~app.recording /\ s = Dimmed
      <3> DEFINE r == [app EXCEPT !.dimmed = TRUE]
                 u == [r EXCEPT !.ui = app.bg, !.scene = app.bg]
      <3>1. r \in AppState /\ SetApart(app, r)
        BY <1>1, <1>4 DEF AppState, SetApart, Going
      <3> HIDE DEF r
      <3>2. Dimmed = r \/ (app.bg # "ready" /\ Dimmed = RestartTimers(u, {"sleep"}))
        BY DEF Dimmed, r
      <3>3. CASE Dimmed = r
        <4>1. SleepKept("dim", s) /\ Going(app, s) /\ s \in AppState
          BY <2>4, <3>1, <3>3 DEF SleepKept, SetApart, Going
        <4> QED
          BY <1>2, <2>1, <2>2, <2>4, <4>1, PlainHandlerInv
      <3>4. CASE app.bg # "ready" /\ Dimmed = RestartTimers(u, {"sleep"})
        <4>1. app.bg \in UiStates /\ app.bg \in Scenes
          BY <1>1, <3>4 DEF AppState, Backgrounds, UiStates, Scenes
        <4>2. u \in AppState /\ Going(r, u)
          BY <3>1, <4>1 DEF AppState, Going
        <4> HIDE DEF u
        <4>3. {"sleep"} \in SUBSET Timers /\ "sleep" \in {"sleep"}
          BY DEF Timers, Inactivity
        <4>4. SameWork(u, s) /\ SleepArmed(s)
          BY <2>4, <3>4, <4>2, <4>3, RestartedTimers
        <4>5. Going(app, r) /\ Going(r, u) /\ Going(u, s)
          BY <3>1, <4>2, <4>4, SameWorkGoesOn DEF SetApart
        <4>6. Going(app, s) /\ s \in AppState
          BY <4>5, SameWorkGoesOn DEF Going
        <4> QED
          BY <1>2, <2>1, <2>2, <2>4, <4>4, <4>6, PlainHandlerInv DEF SleepKept
      <3> QED
        BY <3>2, <3>3, <3>4
    <2> QED
      BY <2>1, <2>3, <2>4
  <1>6. CASE DisplayOff
    <2>1. PICK panel, missed, s :
             /\ panel \in BOOLEAN /\ missed \in SUBSET Inactivity
             /\ \/ s = app
                \/ /\ ~app.recording
                   /\ s = [[app EXCEPT !.armed = @ \ {"dim"}] EXCEPT
                             !.off = @ \/ panel, !.dimmed = @ \/ panel]
             /\ HandleMissing("off", s, missed)
             /\ AppOnly /\ UNCHANGED <<step, host>>
      <3>1. PICK panel \in Outcomes :
               LET due == /\ "off" \notin app.recent
                          /\ ~app.off /\ ~app.recording /\ ~app.otaUpdating
                   s == [app EXCEPT !.armed = @ \ {"dim"}]
               IN  /\ HandleMissing("off",
                          IF due THEN [s EXCEPT !.off = @ \/ panel, !.dimmed = @ \/ panel]
                          ELSE app,
                          IF due /\ ~panel THEN {"dim", "off"} ELSE {})
                   /\ AppOnly /\ UNCHANGED <<step, host>>
        BY <1>6 DEF DisplayOff
      <3> DEFINE due == /\ "off" \notin app.recent
                        /\ ~app.off /\ ~app.recording /\ ~app.otaUpdating
                 r == [[app EXCEPT !.armed = @ \ {"dim"}] EXCEPT
                         !.off = @ \/ panel, !.dimmed = @ \/ panel]
                 s == IF due THEN r ELSE app
                 missed == IF due /\ ~panel THEN {"dim", "off"} ELSE {}
      <3>2. missed \in SUBSET Inactivity /\ panel \in BOOLEAN
        BY <1>2, <3>1, OutcomesAssumption
      <3>3. HandleMissing("off", s, missed) /\ AppOnly /\ UNCHANGED <<step, host>>
        BY <3>1
      <3>4. s = app \/ (~app.recording /\ s = r)
        OBVIOUS
      <3> HIDE DEF missed, s
      <3> QED
        BY <3>2, <3>3, <3>4
    <2>2. Quiet
      BY <1>1, <2>1, AppOnlyQuiet
    <2>3. CASE s = app
      BY <1>1, <1>2, <1>3, <2>1, <2>2, <2>3, PlainHandlerInv
    <2>4. CASE ~app.recording /\ s = [[app EXCEPT !.armed = @ \ {"dim"}] EXCEPT
                                        !.off = @ \/ panel, !.dimmed = @ \/ panel]
      <3> DEFINE A == app.armed \ {"dim"}
                 o == app.off \/ panel
                 d == app.dimmed \/ panel
                 r == [app EXCEPT !.armed = A]
                 u == [r EXCEPT !.off = o, !.dimmed = d]
      <3>1. A \in SUBSET Timers /\ o \in BOOLEAN /\ d \in BOOLEAN
            /\ ("sleep" \in app.armed => "sleep" \in A)
        BY <1>1 DEF AppState
      <3>2. r.off = app.off /\ r.dimmed = app.dimmed
        BY <1>1 DEF AppState
      <3>3. s = [r EXCEPT !.off = r.off \/ panel, !.dimmed = r.dimmed \/ panel]
        BY <2>4
      <3>4. s = u
        BY <3>2, <3>3
      <3> HIDE DEF A, o, d
      <3>5. r \in AppState /\ SameWork(app, r) /\ r.armed = A
        BY <1>1, <3>1, ArmedChanged DEF SameWork
      <3> HIDE DEF r
      <3>6. /\ u \in AppState /\ u.recording = r.recording /\ u.otaUpdating = r.otaUpdating
            /\ u.recLock = r.recLock /\ u.otaLock = r.otaLock /\ u.powered = r.powered
            /\ u.armed = r.armed
        BY <3>1, <3>5 DEF AppState
      <3> HIDE DEF u
      <3>7. /\ s \in AppState /\ s.recording = app.recording /\ s.otaUpdating = app.otaUpdating
            /\ s.recLock = app.recLock /\ s.otaLock = app.otaLock /\ s.powered = app.powered
            /\ s.armed = A
        BY <3>4, <3>5, <3>6 DEF SameWork
      <3>8. ~s.recording /\ ~s.recLock /\ (s.otaLock => s.otaUpdating)
        BY <1>1, <2>4, <3>7 DEF LocksHeld
      <3>9. SleepKept("off", s)
        BY <3>1, <3>7 DEF SleepKept
      <3>10. HostKept(s) /\ UNCHANGED step
        BY <1>1, <2>1, <2>4 DEF HostKept
      <3> QED
        BY <1>2, <2>1, <2>2, <3>7, <3>8, <3>9, <3>10, StoppingHandlerInv
    <2> QED
      BY <2>1, <2>3, <2>4
  <1> QED
    BY <1>5, <1>6

\* The power state is read, or cannot be.
LEMMA PowerReadInv ==
    ASSUME IInv, PowerRead \/ PowerReadFails
    PROVE  IInv'
  <1>1. TypeOK /\ RecordingLit /\ app \in AppState /\ power \in BOOLEAN
    BY DEF IInv, TypeOK
  <1>2. PICK t \in {"battery", "powerIrq"}, s \in {app, UpdatePower(app)} :
           /\ Handle(t, s) /\ (UNCHANGED irqEnabled \/ irqEnabled' = TRUE)
           /\ UNCHANGED <<step, host, modeVars, linkVars, buttonVars, power, inputs>>
    BY DEF PowerRead, PowerReadFails
  <1>3. /\ s \in AppState /\ Going(app, s) /\ s.frontWake = app.frontWake
        /\ (s = app \/ SleepArmed(s))
    <2>1. CASE s = app
      BY <1>1, <2>1 DEF Going
    <2>2. CASE s = UpdatePower(app)
      <3> DEFINE u == UpdatePower(app)
      <3>1. /\ u \in AppState /\ u.recording = app.recording /\ u.otaUpdating = app.otaUpdating
            /\ u.recLock = app.recLock /\ u.otaLock = app.otaLock
            /\ u.frontWake = app.frontWake
            /\ u.off = app.off /\ u.audioSid = app.audioSid
            /\ (u = app \/ SleepArmed(u))
        BY <1>1, PowerUpdated
      <3> HIDE DEF u
      <3>2. s = u
        BY <2>2 DEF u
      <3> QED
        BY <3>1, <3>2 DEF Going
    <2> QED
      BY <1>2, <2>1, <2>2
  <1>4. t \in EventTypes /\ t \notin {"disconnected", "otaBegin", "otaEnd", "frontUp", "sleep"}
    BY <1>2, EventTypesAre
  <1>5. SleepKept(t, s) /\ (app.recording => ~s.frontWake)
    BY <1>1, <1>3, <1>4 DEF SleepKept, RecordingLit
  <1>6. Quiet
    <2>1. UNCHANGED <<modeVars, link, linkOta, terminating, uncut, rebooting, buttonVars, power, inputs>>
      BY <1>2 DEF linkVars
    <2>2. terminating' \in BOOLEAN
      BY <1>1, <2>1 DEF TypeOK
    <2>3. irqEnabled' \in BOOLEAN
      BY <1>1, <1>2 DEF TypeOK
    <2> QED
      BY <1>1, <2>1, <2>2, <2>3 DEF Quiet, TypeOK
  <1>7. HandleMissing(t, s, {}) /\ UNCHANGED <<step, host>>
    BY <1>2 DEF Handle
  <1> QED
    BY <1>3, <1>4, <1>5, <1>6, <1>7, EventTypesAre, PlainHandlerInv

\* The sleep event, whether the device stays awake or prepares to sleep.
LEMMA DeepSleepEventInv ==
    ASSUME IInv, DeepSleepPutOff \/ DeepSleepPrepare
    PROVE  IInv'
  <1>1. TypeOK /\ LocksHeld /\ RecordingLit /\ app \in AppState /\ host \in Nat
    BY DEF IInv, TypeOK
  <1>2. /\ "sleep" \in EventTypes /\ {} \in SUBSET Inactivity /\ {"sleep"} \in SUBSET Timers
        /\ "sleep" \in {"sleep"} /\ TRUE \in BOOLEAN /\ FALSE \in BOOLEAN
    BY DEF EventTypes, Timers, Inactivity
  <1>3. CASE DeepSleepPutOff
    <2> DEFINE p == [app EXCEPT !.powered = TRUE]
    <2>1. PICK r \in {app, p} :
             Handle("sleep", RestartTimers(r, {"sleep"})) /\ AppOnly /\ UNCHANGED <<step, host>>
      BY <1>3 DEF DeepSleepPutOff
    <2>2. Going(app, p) /\ p.frontWake = app.frontWake
      BY <1>1, <1>2 DEF AppState, Going
    <2> HIDE DEF p
    <2>3. r \in AppState /\ Going(app, r) /\ r.frontWake = app.frontWake
      BY <1>1, <2>1, <2>2 DEF Going
    <2> DEFINE s == RestartTimers(r, {"sleep"})
    <2>4. SameWork(r, s) /\ SleepArmed(s)
      BY <1>2, <2>3, RestartedTimers
    <2>5. HandleMissing("sleep", s, {}) /\ Quiet
      BY <1>1, <2>1, AppOnlyQuiet DEF Handle
    <2> HIDE DEF s
    <2>6. Going(r, s)
      BY <2>4, SameWorkGoesOn
    <2>7. Going(app, s) /\ s \in AppState /\ (app.recording => ~s.frontWake)
      BY <1>1, <2>3, <2>4, <2>6, SameWorkGoesOn DEF RecordingLit, SameWork
    <2> QED
      BY <1>2, <2>1, <2>4, <2>5, <2>7, PlainHandlerInv DEF SleepKept
  <1>4. CASE DeepSleepPrepare
    <2> DEFINE s == [app EXCEPT !.recLock = FALSE]
    <2>1. /\ ~app.recording /\ HandleMissing("sleep", s, {}) /\ step' = "sleep"
          /\ AppOnly /\ UNCHANGED host
      BY <1>4 DEF DeepSleepPrepare, MayNotSleep, Handle
    <2>2. /\ s \in AppState /\ s.recording = app.recording /\ ~s.recLock
          /\ s.otaLock = app.otaLock /\ s.otaUpdating = app.otaUpdating
      BY <1>1, <1>2 DEF AppState
    <2> HIDE DEF s
    <2>3. Kept("sleep", s)
      BY <1>1, <2>1, <2>2 DEF Kept, LocksHeld
    <2>4. HostKept(s) /\ Quiet
      BY <1>1, <2>1, AppOnlyQuiet DEF HostKept
    <2> QED
      BY <1>2, <2>1, <2>2, <2>3, <2>4, HandlerInv
  <1> QED
    BY <1>3, <1>4

-----------------------------------------------------------------------------
(* What happens around the handlers *)

\* Steps that leave the work of the application task keep the invariant, if
\* what they take away has its event on the way.
LEMMA AroundInv ==
    ASSUME IInv, TypeOK', SameWork(app, app'), step' \in {step, "idle"},
           PressesFollowed', ProgressFollowed', SleepScheduled',
           \A u : u \notin Timers /\ Pending(u) => Pending(u)',
           host' \in {0, host}, host' # 0 => (terminating => terminating') /\ uncut' = uncut,
           link' = "down" => link = "down" \/ host' = 0,
           link = "ready" => link' = "ready" \/ Pending("disconnected")',
           frontHeld => frontHeld' \/ Pending("frontUp")',
           modeSwitched' \/ UNCHANGED <<mode, modeSwitched>>,
           rebooting => rebooting',
           linkOta' => linkOta \/ Pending("otaBegin")'
    PROVE  IInv'
  <1>1. /\ LocksHeld /\ RecordingLit /\ Telling /\ HostUntold /\ HostInStep
        /\ RecordingOnLink /\ HoldToTalk /\ OtaStopsRecording
    BY DEF IInv
  <1>2. /\ app'.recording = app.recording /\ app'.otaUpdating = app.otaUpdating
        /\ app'.recLock = app.recLock /\ app'.otaLock = app.otaLock
        /\ app'.frontWake = app.frontWake /\ app'.primarySid = app.primarySid
        /\ app'.audioSid = app.audioSid /\ (app'.off => app.off)
    BY DEF SameWork
  <1>3. /\ Pending("disconnected") => Pending("disconnected")'
        /\ Pending("frontUp") => Pending("frontUp")'
        /\ Pending("otaBegin") => Pending("otaBegin")'
        /\ Pending("otaEnd") => Pending("otaEnd")'
    <2>1. /\ "disconnected" \notin Timers /\ "frontUp" \notin Timers
          /\ "otaBegin" \notin Timers /\ "otaEnd" \notin Timers
      BY DEF Timers, Inactivity
    <2> QED
      BY <2>1
  <1>4. LocksHeld' /\ RecordingLit'
    BY <1>1, <1>2 DEF LocksHeld, RecordingLit
  <1>5. Telling'
    BY <1>1, <1>2 DEF Telling
  <1>6. HostUntold' /\ HostInStep'
    BY <1>1, <1>2 DEF HostUntold, HostInStep
  <1>7. RecordingOnLink'
    BY <1>1, <1>2, <1>3 DEF RecordingOnLink
  <1>8. HoldToTalk'
    BY <1>1, <1>2, <1>3 DEF HoldToTalk
  <1>9. OtaStopsRecording'
    BY <1>1, <1>2, <1>3 DEF OtaStopsRecording
  <1> QED
    BY <1>4, <1>5, <1>6, <1>7, <1>8, <1>9 DEF IInv

\* One of the events es is of type u.
Posts(es, u) == \E i \in 1..Len(es) : es[i].type = u

\* The types of what the application task does not write.
AroundTypes ==
    /\ mode \in {"hold", "click"} /\ hint \in BOOLEAN /\ modeSwitched \in BOOLEAN
    /\ link \in {"down", "up", "ready"} /\ linkOta \in BOOLEAN
    /\ terminating \in BOOLEAN /\ uncut \in Nat /\ rebooting \in BOOLEAN
    /\ frontHeld \in BOOLEAN /\ sideHeld \in BOOLEAN
    /\ power \in BOOLEAN /\ irqEnabled \in BOOLEAN /\ inputs \in Nat

\* A step that posts events keeps the invariant, if it posts the right ones.
LEMMA PosterInv ==
    ASSUME IInv, AroundTypes', SameWork(app, app'), UNCHANGED <<step, mode, modeSwitched>>,
           NEW es \in Seq(Event), Post(es),
           host' \in {0, host}, host' # 0 => (terminating => terminating') /\ uncut' = uncut,
           link' = "down" => link = "down" \/ host' = 0,
           link = "ready" => link' = "ready" \/ Posts(es, "disconnected"),
           frontHeld => frontHeld' \/ Posts(es, "frontUp"),
           Posts(es, "frontDown") => frontHeld',
           rebooting => rebooting',
           linkOta' => linkOta \/ Posts(es, "otaBegin"),
           linkOta => linkOta' \/ rebooting' \/ Posts(es, "otaEnd"),
           Posts(es, "otaProgress") => linkOta',
           "sleep" \in app.armed => "sleep" \in app'.armed \/ Posts(es, "sleep")
    PROVE  IInv'
  <1>1. TypeOK /\ PressesFollowed /\ ProgressFollowed /\ SleepScheduled
    BY DEF IInv
  <1>2. QueueOK
    BY <1>1 DEF TypeOK, QueueOK
  <1>3. /\ QueueOK'
        /\ \A u : Pending(u) => Pending(u)'
        /\ \A i \in 1..Len(es) : Pending(es[i].type)'
    BY <1>2, PostedPending
  <1>4. ASSUME NEW u, Posts(es, u) PROVE Pending(u)'
    <2>1. PICK i \in 1..Len(es) : es[i].type = u
      BY <1>4 DEF Posts
    <2>2. Pending(es[i].type)'
      BY <1>3
    <2> QED
      BY <2>1, <2>2
  <1>5. TypeOK'
    <2>1. app' \in AppState /\ step' \in {"idle", "tell", "sleep", "asleep"} /\ host' \in Nat
      BY <1>1 DEF TypeOK, SameWork
    <2> QED
      BY <1>3, <2>1 DEF TypeOK, QueueOK, AroundTypes
  <1>6. PressesFollowed'
    <2>1. CASE frontHeld'
      BY <2>1 DEF PressesFollowed
    <2>2. CASE ~frontHeld'
      <3>1. \A i \in 1..Len(es) : es[i].type # "frontDown"
        BY <2>2 DEF Posts
      <3>2. \/ "frontUp" \in lost \/ Followed("frontDown", "frontUp")
            \/ \E i \in 1..Len(es) : es[i].type = "frontUp"
        BY <1>1, <2>2 DEF PressesFollowed, Posts
      <3>3. ("frontUp" \in lost)' \/ Followed("frontDown", "frontUp")'
        BY <1>2, <3>1, <3>2, PostedFollowed
      <3> QED
        BY <3>3 DEF PressesFollowed
    <2> QED
      BY <2>1, <2>2
  <1>7. ProgressFollowed'
    <2>1. CASE linkOta' \/ rebooting'
      BY <2>1 DEF ProgressFollowed
    <2>2. CASE ~linkOta' /\ ~rebooting'
      <3>1. \A i \in 1..Len(es) : es[i].type # "otaProgress"
        BY <2>2 DEF Posts
      <3>2. \/ "otaEnd" \in lost \/ Followed("otaProgress", "otaEnd")
            \/ \E i \in 1..Len(es) : es[i].type = "otaEnd"
        BY <1>1, <2>2 DEF ProgressFollowed, Posts
      <3>3. ("otaEnd" \in lost)' \/ Followed("otaProgress", "otaEnd")'
        BY <1>2, <3>1, <3>2, PostedFollowed
      <3> QED
        BY <3>3 DEF ProgressFollowed
    <2> QED
      BY <2>1, <2>2
  <1>8. SleepScheduled'
    <2>1. /\ app'.recording = app.recording /\ app'.otaUpdating = app.otaUpdating
          /\ app'.powered = app.powered
      BY DEF SameWork
    <2>2. Pending("sleep") => Pending("sleep")'
      BY <1>3
    <2>3. "sleep" \in app.armed => "sleep" \in app'.armed \/ Pending("sleep")'
      BY <1>4
    <2> QED
      BY <1>1, <2>1, <2>2, <2>3 DEF SleepScheduled, Awake
  <1>9. /\ link = "ready" => link' = "ready" \/ Pending("disconnected")'
        /\ frontHeld => frontHeld' \/ Pending("frontUp")'
        /\ linkOta' => linkOta \/ Pending("otaBegin")'
    BY <1>4
  <1>10. \A u : u \notin Timers /\ Pending(u) => Pending(u)'
    BY <1>3
  <1>11. step' \in {step, "idle"} /\ (modeSwitched' \/ UNCHANGED <<mode, modeSwitched>>)
    OBVIOUS
  <1> QED
    BY <1>5, <1>6, <1>7, <1>8, <1>9, <1>10, <1>11, AroundInv

\* A step that leaves the queue alone keeps it, if it takes nothing away.
LEMMA SilentInv ==
    ASSUME IInv, AroundTypes', SameWork(app, app'), app'.armed = app.armed,
           UNCHANGED <<step, queue, lost, host, terminating, uncut, linkOta, rebooting, frontHeld>>,
           link' # link => link = "down" /\ link' = "up",
           modeSwitched' \/ UNCHANGED <<mode, modeSwitched>>
    PROVE  IInv'
  <1>1. TypeOK /\ PressesFollowed /\ ProgressFollowed /\ SleepScheduled
    BY DEF IInv
  <1>2. \A u : Pending(u)' <=> Pending(u)
    BY DEF Pending, InQueue
  <1>3. TypeOK'
    <2>1. app' \in AppState
      BY DEF SameWork
    <2> QED
      BY <1>1, <2>1 DEF TypeOK, AroundTypes
  <1>4. PressesFollowed' /\ ProgressFollowed'
    BY <1>1 DEF PressesFollowed, ProgressFollowed, Followed
  <1>5. SleepScheduled'
    <2>1. /\ app'.recording = app.recording /\ app'.otaUpdating = app.otaUpdating
          /\ app'.powered = app.powered
      BY DEF SameWork
    <2> QED
      BY <1>1, <1>2, <2>1 DEF SleepScheduled, Awake
  <1>6. /\ link' = "down" => link = "down" \/ host' = 0
        /\ link = "ready" => link' = "ready" \/ Pending("disconnected")'
        /\ frontHeld => frontHeld' \/ Pending("frontUp")'
        /\ linkOta' => linkOta \/ Pending("otaBegin")'
        /\ host' \in {0, host} /\ (host' # 0 => (terminating => terminating') /\ uncut' = uncut)
        /\ step' \in {step, "idle"} /\ (rebooting => rebooting')
    OBVIOUS
  <1>7. \A u : u \notin Timers /\ Pending(u) => Pending(u)'
    BY <1>2
  <1> QED
    BY <1>3, <1>4, <1>5, <1>6, <1>7, AroundInv

\* A sequence of one event posts that event.
LEMMA PostsOne ==
    ASSUME NEW e \in Event
    PROVE  <<e>> \in Seq(Event) /\ \A u : Posts(<<e>>, u) <=> u = e.type
  BY DEF Posts

\* A timer fires.
LEMMA TimerFiresInv ==
    ASSUME IInv, NEW k \in Timers, TimerFires(k)
    PROVE  IInv'
  <1>1. TypeOK /\ app \in AppState /\ host \in Nat
    BY DEF IInv, TypeOK
  <1> DEFINE A == app.armed \ {k}
             R == app.recent \ {k}
             s == [app EXCEPT !.armed = A, !.recent = R]
  <1>2. /\ app' = s /\ Post(<<Ev(k)>>)
        /\ UNCHANGED <<step, host, mode, hint, modeSwitched, link, linkOta, terminating, uncut,
                       rebooting, frontHeld, sideHeld, power, irqEnabled, inputs>>
    BY DEF TimerFires, modeVars, linkVars, buttonVars, powerVars
  <1>3. A \in SUBSET Timers /\ R \in SUBSET Inactivity /\ (k # "sleep" /\ "sleep" \in app.armed
            => "sleep" \in A)
    BY <1>1 DEF AppState
  <1> HIDE DEF A, R
  <1>4. SameWork(app, s) /\ s.armed = A
    BY <1>1, <1>3 DEF AppState, SameWork
  <1> HIDE DEF s
  <1>5. k \in EventTypes /\ k \notin {"frontDown", "otaProgress"}
    BY DEF EventTypes, Timers, Inactivity
  <1>6. Ev(k) \in Event /\ Ev(k).type = k
    BY <1>5, EvIs
  <1>7. <<Ev(k)>> \in Seq(Event) /\ \A u : Posts(<<Ev(k)>>, u) <=> u = k
    BY <1>6, PostsOne
  <1>8. AroundTypes'
    BY <1>1, <1>2 DEF TypeOK, AroundTypes
  <1>9. /\ ~Posts(<<Ev(k)>>, "frontDown") /\ ~Posts(<<Ev(k)>>, "otaProgress")
        /\ "sleep" \in app.armed => "sleep" \in app'.armed \/ Posts(<<Ev(k)>>, "sleep")
        /\ SameWork(app, app')
    BY <1>2, <1>3, <1>4, <1>5, <1>7
  <1> QED
    BY <1>2, <1>7, <1>8, <1>9, PosterInv

\* Nothing but time passes.
LEMMA TimePassesInv ==
    ASSUME IInv, TimePasses
    PROVE  IInv'
  <1>1. TypeOK /\ app \in AppState
    BY DEF IInv, TypeOK
  <1>2. PICK k \in app.recent \ app.armed : app' = [app EXCEPT !.recent = @ \ {k}]
    BY DEF TimePasses
  <1>3. UNCHANGED <<step, queue, host, lost, mode, hint, modeSwitched, link, linkOta,
                    terminating, uncut, rebooting, frontHeld, sideHeld, power, irqEnabled, inputs>>
    BY DEF TimePasses, modeVars, linkVars, buttonVars, powerVars
  <1>4. SameWork(app, app') /\ app'.armed = app.armed
    BY <1>1, <1>2 DEF AppState, SameWork
  <1>5. AroundTypes'
    BY <1>1, <1>3 DEF TypeOK, AroundTypes
  <1> QED
    BY <1>3, <1>4, <1>5, SilentInv

\* A step that changes none of the variables.
LEMMA StutterInv ==
    ASSUME IInv, UNCHANGED vars
    PROVE  IInv'
  <1>1. TypeOK /\ app \in AppState
    BY DEF IInv, TypeOK
  <1>2. UNCHANGED <<app, step, queue, host, lost, mode, hint, modeSwitched, link, linkOta,
                    terminating, uncut, rebooting, frontHeld, sideHeld, power, irqEnabled, inputs>>
    BY DEF vars
  <1>3. SameWork(app, app') /\ app'.armed = app.armed
    BY <1>1, <1>2 DEF SameWork
  <1>4. AroundTypes'
    BY <1>1, <1>2 DEF TypeOK, AroundTypes
  <1> QED
    BY <1>2, <1>3, <1>4, SilentInv

\* An event without data, posted alone.
LEMMA PostsEv ==
    ASSUME NEW v \in EventTypes
    PROVE  <<Ev(v)>> \in Seq(Event) /\ \A u : Posts(<<Ev(v)>>, u) <=> u = v
  <1>1. Ev(v) \in Event /\ Ev(v).type = v
    BY EvIs
  <1> QED
    BY <1>1, PostsOne

\* The record of the application task stays.
LEMMA AppStays ==
    ASSUME TypeOK, UNCHANGED app
    PROVE  /\ SameWork(app, app') /\ app'.armed = app.armed
  BY DEF TypeOK, SameWork

-----------------------------------------------------------------------------
(* Power and buttons *)

\* The power comes or goes, noticed or not, or is refreshed.
LEMMA PowerInv ==
    ASSUME IInv, PowerChanges \/ BatteryTimer
    PROVE  IInv'
  <1>1. TypeOK /\ host \in Nat
    BY DEF IInv, TypeOK
  <1>2. UNCHANGED <<app, step, host, mode, hint, modeSwitched, link, linkOta, terminating, uncut,
                    rebooting, frontHeld, sideHeld>>
    BY DEF PowerChanges, BatteryTimer, modeVars, linkVars, buttonVars
  <1>3. AroundTypes'
    <2>1. power' \in BOOLEAN
      BY <1>1 DEF PowerChanges, BatteryTimer, TypeOK, powerVars
    <2>2. irqEnabled' \in BOOLEAN
      <3>1. irqEnabled' = irqEnabled \/ irqEnabled' = FALSE
        BY DEF PowerChanges, BatteryTimer, powerVars
      <3> QED
        BY <1>1, <3>1 DEF TypeOK
    <2>3. inputs' \in Nat
      BY <1>1 DEF PowerChanges, BatteryTimer, TypeOK, Input
    <2> QED
      BY <1>1, <1>2, <2>1, <2>2, <2>3 DEF TypeOK, AroundTypes
  <1>4. SameWork(app, app') /\ app'.armed = app.armed
    BY <1>1, <1>2, AppStays
  <1>5. ASSUME NEW v \in {"battery", "powerIrq"}, Post(<<Ev(v)>>)
        PROVE  IInv'
    <2>1. v \in EventTypes
      BY EventTypesAre
    <2>2. <<Ev(v)>> \in Seq(Event) /\ \A u : Posts(<<Ev(v)>>, u) <=> u = v
      BY <2>1, PostsEv
    <2>3. ~Posts(<<Ev(v)>>, "frontDown") /\ ~Posts(<<Ev(v)>>, "otaProgress")
      BY <2>2
    <2> QED
      BY <1>2, <1>3, <1>4, <1>5, <2>2, <2>3, PosterInv
  <1>6. CASE UNCHANGED <<queue, lost>>
    BY <1>2, <1>3, <1>4, <1>6, SilentInv
  <1>7. Post(<<Ev("powerIrq")>>) \/ Post(<<Ev("battery")>>) \/ UNCHANGED <<queue, lost>>
    BY DEF PowerChanges, BatteryTimer
  <1> QED
    BY <1>5, <1>6, <1>7

\* The button callbacks of a device that is awake.
LEMMA ButtonInv ==
    ASSUME IInv, FrontPress \/ FrontRelease \/ SidePress \/ SideRelease
    PROVE  IInv'
  <1>1. TypeOK /\ host \in Nat
    BY DEF IInv, TypeOK
  <1>2. UNCHANGED <<app, step, host, mode, hint, modeSwitched, link, linkOta, terminating, uncut,
                    rebooting, power, irqEnabled>>
    BY DEF FrontPress, FrontRelease, SidePress, SideRelease, modeVars, linkVars, powerVars
  <1>3. AroundTypes'
    <2>1. frontHeld' \in BOOLEAN
      <3>1. frontHeld' = frontHeld \/ frontHeld' = TRUE \/ frontHeld' = FALSE
        BY DEF FrontPress, FrontRelease, SidePress, SideRelease
      <3> QED
        BY <1>1, <3>1 DEF TypeOK
    <2>2. sideHeld' \in BOOLEAN
      <3>1. sideHeld' = sideHeld \/ sideHeld' = TRUE \/ sideHeld' = FALSE
        BY DEF FrontPress, FrontRelease, SidePress, SideRelease
      <3> QED
        BY <1>1, <3>1 DEF TypeOK
    <2>3. inputs' \in Nat
      BY <1>1 DEF FrontPress, FrontRelease, SidePress, SideRelease, TypeOK, Input
    <2> QED
      BY <1>1, <1>2, <2>1, <2>2, <2>3 DEF TypeOK, AroundTypes
  <1>4. SameWork(app, app') /\ app'.armed = app.armed
    BY <1>1, <1>2, AppStays
  <1>5. ASSUME NEW v \in {"frontDown", "frontUp", "sideDown", "sideUp"}, Post(<<Ev(v)>>),
               v = "frontDown" => frontHeld', frontHeld => frontHeld' \/ v = "frontUp"
        PROVE  IInv'
    <2>1. v \in EventTypes
      BY EventTypesAre
    <2>2. <<Ev(v)>> \in Seq(Event) /\ \A u : Posts(<<Ev(v)>>, u) <=> u = v
      BY <2>1, PostsEv
    <2>3. /\ Posts(<<Ev(v)>>, "frontDown") => frontHeld'
          /\ frontHeld => frontHeld' \/ Posts(<<Ev(v)>>, "frontUp")
          /\ ~Posts(<<Ev(v)>>, "otaProgress")
      BY <1>5, <2>2
    <2> QED
      BY <1>2, <1>3, <1>4, <1>5, <2>2, <2>3, PosterInv
  <1>6. CASE FrontPress
    BY <1>5, <1>6 DEF FrontPress
  <1>7. CASE FrontRelease
    BY <1>5, <1>7 DEF FrontRelease
  <1>8. CASE SidePress
    BY <1>5, <1>8 DEF SidePress
  <1>9. CASE SideRelease
    BY <1>5, <1>9 DEF SideRelease
  <1> QED
    BY <1>6, <1>7, <1>8, <1>9

-----------------------------------------------------------------------------
(* The device starts *)

\* After a start nothing is recorded, nobody was told otherwise, and at most the
\* press that woke the device is queued.
LEMMA StartedInv ==
    ASSUME AroundTypes', power' = power, power \in BOOLEAN, app' = Boot(power), host' = 0,
           step' \in {"idle", "asleep"}, queue' \in {<<>>, <<Ev("frontDown")>>},
           lost' \subseteq EventTypes, frontHeld' \/ queue' = <<>>
    PROVE  IInv'
  <1>1. app' \in AppState /\ ~app'.recording /\ ~app'.recLock /\ ~app'.otaLock /\ SleepArmed(app')
    BY Booted
  <1>2. /\ "frontDown" \in EventTypes /\ QueueDepth \in Nat /\ 1 <= QueueDepth
    BY EventTypesAre, QueueDepthAssumption
  <1>3. Ev("frontDown") \in Event /\ Ev("frontDown").type = "frontDown"
    BY <1>2, EvIs
  <1>4. /\ queue' \in Seq(Event) /\ Len(queue') <= QueueDepth
        /\ \A i \in 1..Len(queue') : queue'[i].type = "frontDown" /\ frontHeld'
    <2>1. CASE queue' = <<>>
      BY <1>2, <2>1
    <2>2. CASE queue' = <<Ev("frontDown")>> /\ frontHeld'
      BY <1>2, <1>3, <2>2
    <2> QED
      BY <2>1, <2>2
  <1>5. TypeOK'
    <2>1. host' \in Nat /\ step' \in {"idle", "tell", "sleep", "asleep"}
      OBVIOUS
    <2> QED
      BY <1>1, <1>4, <2>1 DEF TypeOK, AroundTypes
  <1>6. LocksHeld' /\ RecordingLit' /\ RecordingOnLink' /\ HoldToTalk' /\ OtaStopsRecording'
    BY <1>1 DEF LocksHeld, RecordingLit, RecordingOnLink, HoldToTalk, OtaStopsRecording
  <1>7. Telling' /\ HostUntold' /\ HostInStep'
    BY DEF Telling, HostUntold, HostInStep
  <1>8. PressesFollowed' /\ ProgressFollowed'
    BY <1>4 DEF PressesFollowed, ProgressFollowed, Followed
  <1>9. SleepScheduled'
    BY <1>1 DEF SleepScheduled, SleepArmed
  <1> QED
    BY <1>5, <1>6, <1>7, <1>8, <1>9 DEF IInv

\* Deep sleep, waking from it, and the restart after an update.
LEMMA RestartInv ==
    ASSUME IInv, DeepSleepStart \/ Reboot \/ Wake
    PROVE  IInv'
  <1>1. TypeOK /\ HostUntold /\ power \in BOOLEAN
    BY DEF IInv, TypeOK
  <1>2. CASE DeepSleepStart \/ Reboot
    <2>1. /\ mode' = "hold" /\ hint' = FALSE /\ modeSwitched' = FALSE
          /\ link' = "down" /\ linkOta' = FALSE /\ terminating' = FALSE /\ uncut' = 0 /\ rebooting' = FALSE
          /\ irqEnabled' = TRUE
          /\ UNCHANGED <<frontHeld, sideHeld, power, inputs>>
      BY <1>2 DEF DeepSleepStart, Reboot, buttonVars
    <2>2. /\ step' \in {"idle", "asleep"} /\ app' = Boot(power) /\ queue' = <<>> /\ lost' = {}
          /\ host' = 0
      BY <1>2 DEF DeepSleepStart, Reboot
    <2>3. AroundTypes'
      <3>1. /\ mode' \in {"hold", "click"} /\ hint' \in BOOLEAN /\ modeSwitched' \in BOOLEAN
            /\ link' \in {"down", "up", "ready"} /\ linkOta' \in BOOLEAN
            /\ terminating' \in BOOLEAN /\ uncut' \in Nat /\ rebooting' \in BOOLEAN /\ irqEnabled' \in BOOLEAN
        BY <2>1
      <3>2. /\ frontHeld' \in BOOLEAN /\ sideHeld' \in BOOLEAN /\ power' \in BOOLEAN
            /\ inputs' \in Nat
        BY <1>1, <2>1 DEF TypeOK
      <3> QED
        BY <3>1, <3>2 DEF AroundTypes
    <2> QED
      BY <1>1, <2>1, <2>2, <2>3, StartedInv
  <1>3. CASE Wake
    <2>1. /\ step = "asleep" /\ inputs' = inputs + 1 /\ frontHeld' = TRUE /\ step' = "idle"
          /\ app' = Boot(power) /\ queue' \in {<<>>, <<Ev("frontDown")>>}
          /\ UNCHANGED <<host, lost, mode, hint, modeSwitched, link, linkOta, terminating, uncut,
                         rebooting, sideHeld, power, irqEnabled>>
      BY <1>3 DEF Wake, Input, modeVars, linkVars, powerVars
    <2>2. host' = 0 /\ lost' \subseteq EventTypes
      BY <1>1, <2>1 DEF HostUntold, TypeOK
    <2>3. AroundTypes'
      <3>1. frontHeld' \in BOOLEAN /\ inputs' \in Nat
        BY <1>1, <2>1 DEF TypeOK
      <3> QED
        BY <1>1, <2>1, <3>1 DEF TypeOK, AroundTypes
    <2> QED
      BY <1>1, <2>1, <2>2, <2>3, StartedInv
  <1> QED
    BY <1>2, <1>3

\* The front button is down when the device would have gone to sleep.
LEMMA DeepSleepAbortInv ==
    ASSUME IInv, DeepSleepAbort
    PROVE  IInv'
  <1>1. TypeOK /\ PressesFollowed /\ ProgressFollowed /\ app \in AppState /\ host \in Nat
    BY DEF IInv, TypeOK
  <1> DEFINE s == RestartTimers(app, {"sleep"})
  <1>2. /\ app' = s /\ lost' = lost \ app'.armed /\ step' = "idle"
        /\ UNCHANGED <<queue, host, mode, hint, modeSwitched, link, linkOta, terminating, uncut,
                       rebooting, frontHeld, sideHeld, power, irqEnabled, inputs>>
    BY DEF DeepSleepAbort, AppOnly, modeVars, linkVars, buttonVars, powerVars
  <1>3. {"sleep"} \in SUBSET Timers /\ "sleep" \in {"sleep"}
    BY DEF Timers, Inactivity
  <1>4. SameWork(app, s) /\ SleepArmed(s)
    BY <1>1, <1>3, RestartedTimers
  <1> HIDE DEF s
  <1>5. s \in AppState /\ s.armed \subseteq Timers
    BY <1>4 DEF SameWork, AppState
  <1>6. TypeOK'
    <2>1. lost' \subseteq EventTypes /\ app' \in AppState
      BY <1>1, <1>2, <1>5 DEF TypeOK
    <2> QED
      BY <1>1, <1>2, <2>1 DEF TypeOK
  <1>7. \A u : u \notin Timers /\ Pending(u) => Pending(u)'
    BY <1>2, <1>5 DEF Pending, InQueue
  <1>8. PressesFollowed' /\ ProgressFollowed'
    <2>1. "frontUp" \notin Timers /\ "otaEnd" \notin Timers
      BY DEF Timers, Inactivity
    <2> QED
      BY <1>1, <1>2, <1>5, <2>1 DEF PressesFollowed, ProgressFollowed, Followed
  <1>9. SleepScheduled'
    BY <1>2, <1>4 DEF SleepScheduled, SleepArmed
  <1>10. SameWork(app, app') /\ step' \in {step, "idle"}
    BY <1>2, <1>4
  <1> QED
    BY <1>2, <1>6, <1>7, <1>8, <1>9, <1>10, AroundInv

-----------------------------------------------------------------------------
(* The link *)

\* The link comes up; the mode is written, and drawn.
LEMMA LinkSilentInv ==
    ASSUME IInv, LinkUp \/ ModeWrite \/ ModeDraws
    PROVE  IInv'
  <1>1. TypeOK /\ app \in AppState
    BY DEF IInv, TypeOK
  <1>2. UNCHANGED <<step, queue, host, lost, linkOta, terminating, uncut, rebooting, frontHeld,
                    sideHeld, power, irqEnabled>>
    BY DEF LinkUp, ModeWrite, ModeDraws, linkVars, buttonVars, powerVars
  <1>3. SameWork(app, app') /\ app'.armed = app.armed
    <2>1. CASE UNCHANGED app
      BY <1>1, <2>1, AppStays
    <2>2. CASE app' = [app EXCEPT !.scene = "idle"]
      <3>1. "idle" \in Scenes
        BY DEF Scenes
      <3> QED
        BY <1>1, <2>2, <3>1 DEF AppState, SameWork
    <2> QED
      BY <2>1, <2>2 DEF LinkUp, ModeWrite, ModeDraws
  <1>4. (link' # link => link = "down" /\ link' = "up") /\ link' \in {"down", "up", "ready"}
    BY <1>1 DEF LinkUp, ModeWrite, ModeDraws, linkVars, TypeOK
  <1>5. CASE LinkUp \/ ModeDraws
    <2>1. UNCHANGED <<mode, modeSwitched, inputs>> /\ (UNCHANGED hint \/ hint' = FALSE)
      BY <1>5 DEF LinkUp, ModeDraws, modeVars
    <2>2. hint' \in BOOLEAN
      BY <1>1, <2>1 DEF TypeOK
    <2>3. AroundTypes'
      BY <1>1, <1>2, <1>4, <2>1, <2>2 DEF TypeOK, AroundTypes
    <2> QED
      BY <1>2, <1>3, <1>4, <2>1, <2>3, SilentInv
  <1>6. CASE ModeWrite
    <2>1. /\ mode' \in {"hold", "click"} /\ modeSwitched' = TRUE /\ inputs' = inputs + 1
          /\ hint' = (app.ui = "ready" /\ ~app.recording)
      BY <1>6 DEF ModeWrite, Input
    <2>2. hint' \in BOOLEAN /\ modeSwitched' \in BOOLEAN /\ inputs' \in Nat
      BY <1>1, <2>1 DEF TypeOK
    <2>3. AroundTypes'
      BY <1>1, <1>2, <1>4, <2>1, <2>2 DEF TypeOK, AroundTypes
    <2>4. modeSwitched'
      BY <2>1
    <2> QED
      BY <1>2, <1>3, <1>4, <2>3, <2>4, SilentInv
  <1> QED
    BY <1>5, <1>6

\* The link becomes ready, or is no longer.
LEMMA LinkReadyInv ==
    ASSUME IInv, LinkReady \/ LinkUnready
    PROVE  IInv'
  <1>1. TypeOK /\ host \in Nat
    BY DEF IInv, TypeOK
  <1>2. /\ UNCHANGED <<app, step, mode, hint, modeSwitched, linkOta, terminating, uncut, rebooting,
                       frontHeld, sideHeld, power, irqEnabled>>
        /\ inputs' \in {inputs, inputs + 1} /\ host' \in {0, host}
    BY DEF LinkReady, LinkUnready, Input, modeVars, buttonVars, powerVars
  <1>3. PICK v \in {"connected", "disconnected"} :
           /\ Post(<<Ev(v)>>) /\ link' \in {"up", "ready"}
           /\ link = "ready" => v = "disconnected"
    BY DEF LinkReady, LinkUnready
  <1>4. AroundTypes'
    <2>1. inputs' \in Nat /\ link' \in {"down", "up", "ready"}
      BY <1>1, <1>2, <1>3 DEF TypeOK
    <2> QED
      BY <1>1, <1>2, <2>1 DEF TypeOK, AroundTypes
  <1>5. SameWork(app, app') /\ app'.armed = app.armed
    BY <1>1, <1>2, AppStays
  <1>6. v \in EventTypes
    BY <1>3, EventTypesAre
  <1>7. <<Ev(v)>> \in Seq(Event) /\ \A u : Posts(<<Ev(v)>>, u) <=> u = v
    BY <1>6, PostsEv
  <1>8. /\ ~Posts(<<Ev(v)>>, "frontDown") /\ ~Posts(<<Ev(v)>>, "otaProgress")
        /\ link = "ready" => Posts(<<Ev(v)>>, "disconnected")
        /\ link' # "down"
    BY <1>3, <1>7
  <1> QED
    BY <1>2, <1>3, <1>4, <1>5, <1>7, <1>8, PosterInv

\* A connection ends; if an update was active, that ends first.
LEMMA LinkLostInv ==
    ASSUME IInv, LinkLost
    PROVE  IInv'
  <1>1. TypeOK
    BY DEF IInv
  <1> DEFINE es == (IF linkOta THEN <<Ev("otaEnd")>> ELSE <<>>) \o <<Ev("disconnected")>>
  <1>2. /\ UNCHANGED <<app, step, mode, hint, modeSwitched, rebooting,
                       frontHeld, sideHeld, power, irqEnabled>>
        /\ inputs' \in {inputs, inputs + 1} /\ host' = 0
        /\ link' = "down" /\ linkOta' = FALSE /\ terminating' = FALSE /\ uncut' = 0
        /\ Post(es)
    BY DEF LinkLost, Input, modeVars, buttonVars, powerVars
  <1>3. "otaEnd" \in EventTypes /\ "disconnected" \in EventTypes
    BY EventTypesAre
  <1>4. /\ Ev("otaEnd") \in Event /\ Ev("otaEnd").type = "otaEnd"
        /\ Ev("disconnected") \in Event /\ Ev("disconnected").type = "disconnected"
    BY <1>3, EvIs
  <1>5. /\ es \in Seq(Event) /\ ~Posts(es, "frontDown") /\ ~Posts(es, "otaProgress")
        /\ Posts(es, "disconnected") /\ (linkOta => Posts(es, "otaEnd"))
    <2>1. CASE linkOta
      <3> DEFINE a == <<Ev("otaEnd")>>
                 b == <<Ev("disconnected")>>
      <3>1. es = a \o b
        BY <2>1
      <3>2. /\ a \in Seq(Event) /\ Len(a) = 1 /\ a[1] = Ev("otaEnd")
            /\ b \in Seq(Event) /\ Len(b) = 1 /\ b[1] = Ev("disconnected")
        BY <1>4
      <3> HIDE DEF a, b, es
      <3>3. es \in Seq(Event) /\ Len(es) = 2 /\ es[1] = a[1] /\ es[2] = b[1]
        BY <3>1, <3>2, ConcatProperties
      <3>4. es[1].type = "otaEnd" /\ es[2].type = "disconnected"
        BY <1>4, <3>2, <3>3
      <3> QED
        BY <3>3, <3>4 DEF Posts
    <2>2. CASE ~linkOta
      <3>1. es = <<Ev("disconnected")>>
        BY <2>2
      <3> HIDE DEF es
      <3>2. es \in Seq(Event) /\ Len(es) = 1 /\ es[1].type = "disconnected"
        BY <1>4, <3>1
      <3> QED
        BY <2>2, <3>2 DEF Posts
    <2> QED
      BY <2>1, <2>2
  <1> HIDE DEF es
  <1>6. AroundTypes'
    <2>1. inputs' \in Nat /\ link' \in {"down", "up", "ready"}
      BY <1>1, <1>2 DEF TypeOK
    <2>2. linkOta' \in BOOLEAN /\ terminating' \in BOOLEAN /\ uncut' \in Nat
      BY <1>2
    <2> QED
      BY <1>1, <1>2, <2>1, <2>2 DEF TypeOK, AroundTypes
  <1>7. SameWork(app, app') /\ app'.armed = app.armed
    BY <1>1, <1>2, AppStays
  <1>8. UNCHANGED <<step, mode, modeSwitched>>
    BY <1>2
  <1>9. /\ host' \in {0, host} /\ (host' # 0 => (terminating => terminating') /\ uncut' = uncut)
        /\ (link' = "down" => link = "down" \/ host' = 0)
        /\ (frontHeld => frontHeld' \/ Posts(es, "frontUp"))
        /\ (rebooting => rebooting') /\ (linkOta' => linkOta \/ Posts(es, "otaBegin"))
    BY <1>2
  <1> QED
    BY <1>2, <1>5, <1>6, <1>7, <1>8, <1>9, PosterInv

\* A control message is posted: the events of the host end nothing here.
LEMMA HostWritesInv ==
    ASSUME IInv, HostWrites
    PROVE  IInv'
  <1>1. TypeOK /\ host \in Nat
    BY DEF IInv, TypeOK
  <1>2. PICK e \in HostEvents : Post(<<e>>)
    BY DEF HostWrites
  <1>3. /\ UNCHANGED <<app, step, host, mode, hint, modeSwitched, link, linkOta, terminating, uncut,
                       rebooting, frontHeld, sideHeld, power, irqEnabled>>
        /\ inputs' = inputs + 1
    BY DEF HostWrites, Input, modeVars, linkVars, buttonVars, powerVars
  <1>4. e \in Event /\ e.type \in HostTypes
    BY HostEventsAssumption
  <1>5. <<e>> \in Seq(Event) /\ \A u : Posts(<<e>>, u) <=> u = e.type
    BY <1>4, PostsOne
  <1>6. ~Posts(<<e>>, "frontDown") /\ ~Posts(<<e>>, "otaProgress")
    BY <1>4, <1>5 DEF HostTypes
  <1>7. AroundTypes'
    BY <1>1, <1>3 DEF TypeOK, AroundTypes
  <1>8. SameWork(app, app') /\ app'.armed = app.armed
    BY <1>1, <1>3, AppStays
  <1> QED
    BY <1>2, <1>3, <1>5, <1>6, <1>7, <1>8, PosterInv

\* The OTA writes and their answers.
LEMMA LinkOtaInv ==
    ASSUME IInv, LinkOtaBegin \/ LinkOtaProgress \/ LinkOtaEnds \/ LinkOtaDone
    PROVE  IInv'
  <1>1. TypeOK /\ host \in Nat
    BY DEF IInv, TypeOK
  <1>2. /\ UNCHANGED <<app, step, host, mode, hint, modeSwitched, link, terminating, uncut,
                       frontHeld, sideHeld, power, irqEnabled>>
        /\ inputs' = inputs + 1
    BY DEF LinkOtaBegin, LinkOtaProgress, LinkOtaEnds, LinkOtaDone, Input, modeVars, linkVars,
           buttonVars, powerVars
  <1>3. rebooting' = TRUE \/ rebooting' = rebooting
    BY DEF LinkOtaBegin, LinkOtaProgress, LinkOtaEnds, LinkOtaDone, linkVars
  <1>4. linkOta' \in BOOLEAN
    <2>1. linkOta' = linkOta \/ linkOta' \in BOOLEAN
      BY DEF LinkOtaBegin, LinkOtaProgress, LinkOtaEnds, LinkOtaDone, linkVars
    <2> QED
      BY <1>1, <2>1 DEF TypeOK
  <1>5. PICK v \in {"otaBegin", "otaProgress", "otaEnd", "otaDone"} :
           /\ Post(<<Ev(v)>>)
           /\ linkOta' => linkOta \/ v = "otaBegin"
           /\ linkOta => linkOta' \/ rebooting' \/ v = "otaEnd"
           /\ v = "otaProgress" => linkOta'
    <2>1. CASE LinkOtaBegin
      BY <2>1 DEF LinkOtaBegin
    <2>2. CASE LinkOtaProgress
      BY <2>2 DEF LinkOtaProgress, linkVars
    <2>3. CASE LinkOtaEnds
      <3>1. linkOta' = linkOta \/ linkOta' = FALSE
        BY <2>3 DEF LinkOtaEnds
      <3>2. Post(<<Ev("otaEnd")>>)
        BY <2>3 DEF LinkOtaEnds
      <3>3. linkOta' => linkOta
        BY <3>1
      <3> QED
        BY <3>2, <3>3
    <2>4. CASE LinkOtaDone
      BY <2>4 DEF LinkOtaDone
    <2> QED
      BY <2>1, <2>2, <2>3, <2>4
  <1>6. AroundTypes'
    <2>1. rebooting' \in BOOLEAN
      BY <1>1, <1>3 DEF TypeOK
    <2>2. inputs' \in Nat
      BY <1>1, <1>2 DEF TypeOK
    <2> QED
      BY <1>1, <1>2, <1>4, <2>1, <2>2 DEF TypeOK, AroundTypes
  <1>7. v \in EventTypes
    BY <1>5, EventTypesAre
  <1>8. <<Ev(v)>> \in Seq(Event) /\ \A u : Posts(<<Ev(v)>>, u) <=> u = v
    BY <1>7, PostsEv
  <1>9. /\ ~Posts(<<Ev(v)>>, "frontDown")
        /\ linkOta' => linkOta \/ Posts(<<Ev(v)>>, "otaBegin")
        /\ linkOta => linkOta' \/ rebooting' \/ Posts(<<Ev(v)>>, "otaEnd")
        /\ Posts(<<Ev(v)>>, "otaProgress") => linkOta'
    BY <1>5, <1>8
  <1>10. SameWork(app, app') /\ app'.armed = app.armed
    BY <1>1, <1>2, AppStays
  <1>11. rebooting => rebooting'
    BY <1>3
  <1> QED
    BY <1>2, <1>5, <1>6, <1>8, <1>9, <1>10, <1>11, PosterInv

-----------------------------------------------------------------------------
(* The theorems *)

\* The device starts in step.
LEMMA InitInv ==
    ASSUME Init
    PROVE  IInv
  <1>1. /\ power \in BOOLEAN /\ app = Boot(power) /\ step = "idle" /\ queue = <<>>
        /\ mode = "hold" /\ hint = FALSE /\ modeSwitched = FALSE
        /\ link = "down" /\ linkOta = FALSE /\ terminating = FALSE /\ uncut = 0 /\ rebooting = FALSE
        /\ frontHeld = FALSE /\ sideHeld = FALSE /\ irqEnabled = TRUE
        /\ inputs = 0 /\ lost = {} /\ host = 0
    BY DEF Init
  <1>2. app \in AppState /\ ~app.recording /\ ~app.recLock /\ ~app.otaLock /\ SleepArmed(app)
    BY <1>1, Booted
  <1>3. queue \in Seq(Event) /\ Len(queue) = 0 /\ Len(queue) <= QueueDepth
    BY <1>1, QueueDepthAssumption
  <1>4. TypeOK
    <2>1. /\ hint \in BOOLEAN /\ modeSwitched \in BOOLEAN /\ linkOta \in BOOLEAN
          /\ terminating \in BOOLEAN /\ uncut \in Nat /\ rebooting \in BOOLEAN /\ frontHeld \in BOOLEAN
          /\ sideHeld \in BOOLEAN /\ irqEnabled \in BOOLEAN
      BY <1>1
    <2> QED
      BY <1>1, <1>2, <1>3, <2>1 DEF TypeOK
  <1>5. LocksHeld /\ RecordingLit /\ RecordingOnLink /\ HoldToTalk /\ OtaStopsRecording
    BY <1>2 DEF LocksHeld, RecordingLit, RecordingOnLink, HoldToTalk, OtaStopsRecording
  <1>6. Telling /\ HostUntold /\ HostInStep
    BY <1>1 DEF Telling, HostUntold, HostInStep
  <1>7. PressesFollowed /\ ProgressFollowed
    BY <1>3 DEF PressesFollowed, ProgressFollowed, Followed
  <1>8. SleepScheduled
    BY <1>2 DEF SleepScheduled, SleepArmed
  <1> QED
    BY <1>4, <1>5, <1>6, <1>7, <1>8 DEF IInv

\* Every step of the application task keeps the invariant.
LEMMA AppTaskInv ==
    ASSUME IInv, AppTask
    PROVE  IInv'
  <1>1. CASE FrontDown
    BY <1>1, FrontDownPlainInv, FrontDownStopsInv, FrontDownRecordsInv, FrontDownFailsInv
       DEF FrontDown
  <1>2. CASE FrontTell
    BY <1>2, FrontTellInv
  <1>3. CASE FrontUp
    BY <1>3, FrontUpPlainInv, FrontUpStopsInv DEF FrontUp
  <1>4. CASE SideDown \/ SideUp
    BY <1>4, SidePlainInv
  <1>5. CASE SideUpCancels
    BY <1>5, SideUpCancelsInv
  <1>6. CASE UiStateEvent \/ CodexDoneTimeout
    BY <1>6, UiEventInv
  <1>7. CASE BleConnected
    BY <1>7, BleConnectedInv
  <1>8. CASE BleDisconnected
    BY <1>8, BleDisconnectedInv
  <1>9. CASE DisconnectRequest \/ PowerTimers \/ NotificationChime
    BY <1>9, NoticeInv
  <1>10. CASE OtaBegin
    BY <1>10, OtaBeginInv
  <1>11. CASE OtaProgress
    BY <1>11, OtaProgressInv
  <1>12. CASE OtaDone
    BY <1>12, OtaDoneInv
  <1>13. CASE OtaEnd
    BY <1>13, OtaEndInv
  <1>14. CASE DisplayDim \/ DisplayOff
    BY <1>14, DisplayInv
  <1>15. CASE PowerRead \/ PowerReadFails
    BY <1>15, PowerReadInv
  <1>16. CASE DeepSleep
    BY <1>16, DeepSleepEventInv, DeepSleepAbortInv, RestartInv DEF DeepSleep
  <1> QED
    BY <1>1, <1>2, <1>3, <1>4, <1>5, <1>6, <1>7, <1>8, <1>9, <1>10, <1>11, <1>12, <1>13,
       <1>14, <1>15, <1>16 DEF AppTask

\* Every step does.
LEMMA NextInv ==
    ASSUME IInv, [Next]_vars
    PROVE  IInv'
  <1>1. CASE AppTask
    BY <1>1, AppTaskInv
  <1>2. CASE Buttons
    BY <1>2, ButtonInv, RestartInv DEF Buttons
  <1>3. CASE Link
    <2>1. CASE LinkUp \/ ModeWrite \/ ModeDraws
      BY <2>1, LinkSilentInv
    <2>2. CASE LinkReady \/ LinkUnready
      BY <2>2, LinkReadyInv
    <2>3. CASE LinkLost
      BY <2>3, LinkLostInv
    <2>4. CASE HostWrites
      BY <2>4, HostWritesInv
    <2>5. CASE LinkOtaBegin \/ LinkOtaProgress \/ LinkOtaEnds \/ LinkOtaDone
      BY <2>5, LinkOtaInv
    <2>6. CASE Reboot
      BY <2>6, RestartInv
    <2> QED
      BY <1>3, <2>1, <2>2, <2>3, <2>4, <2>5, <2>6 DEF Link
  <1>4. CASE PowerChanges \/ BatteryTimer
    BY <1>4, PowerInv
  <1>5. CASE TimePasses
    BY <1>5, TimePassesInv
  <1>6. CASE \E k \in Timers : TimerFires(k)
    BY <1>6, TimerFiresInv
  <1>7. CASE UNCHANGED vars
    BY <1>7, StutterInv
  <1> QED
    BY <1>1, <1>2, <1>3, <1>4, <1>5, <1>6, <1>7 DEF Next

\* The inductive invariant holds of every behaviour of the device.
THEOREM Invariant == Spec => []IInv
  <1>1. Init => IInv
    BY InitInv
  <1>2. IInv /\ [Next]_vars => IInv'
    BY NextInv
  <1> QED
    BY <1>1, <1>2, PTL DEF Spec

\* Every variable of the application task and of what posts to it keeps its
\* type, and the queue its length.
THEOREM TypeCorrect == Spec => []TypeOK
  <1>1. IInv => TypeOK
    BY DEF IInv
  <1> QED
    BY <1>1, Invariant, PTL

\* No handler leaks a power lock, whatever ends a recording or an update.
THEOREM LocksFollowWork == Spec => []LocksHeld
  <1>1. IInv => LocksHeld
    BY DEF IInv
  <1> QED
    BY <1>1, Invariant, PTL

\* A recording without a ready link has its BLE_DISCONNECTED on the way.
THEOREM RecordingNeedsLink == Spec => []RecordingOnLink
  <1>1. IInv => RecordingOnLink
    BY DEF IInv
  <1> QED
    BY <1>1, Invariant, PTL

\* In hold_to_talk the release that ends a recording is never overtaken.
THEOREM HeldWhileRecording == Spec => []HoldToTalk
  <1>1. IInv => HoldToTalk
    BY DEF IInv
  <1> QED
    BY <1>1, Invariant, PTL

\* The host transcribes what the device records, or its link is being cut.
THEOREM HostFollows == Spec => []HostInStep
  <1>1. IInv => HostInStep
    BY DEF IInv
  <1> QED
    BY <1>1, Invariant, PTL

\* A recording and an update meet only until the event that parts them.
THEOREM UpdateParted == Spec => []OtaStopsRecording
  <1>1. IInv => OtaStopsRecording
    BY DEF IInv
  <1> QED
    BY <1>1, Invariant, PTL

\* No order of events forgets the deep sleep timer.
THEOREM SleepComes == Spec => []SleepScheduled
  <1>1. IInv => SleepScheduled
    BY DEF IInv
  <1> QED
    BY <1>1, Invariant, PTL
=============================================================================
