------------------------ MODULE WinCoordinatorProofs ------------------------
(***************************************************************************)
(* Theorems about WinCoordinator, for any devices, any number of           *)
(* recordings, any bound on the posted calls, every mode and with or       *)
(* without a translation.                                                  *)
(***************************************************************************)
EXTENDS WinCoordinator, TLAPS

-----------------------------------------------------------------------------
(* The inductive invariant, of the members a handler works on (w) and the  *)
(* callback that the ASR worker is about to make (a).                      *)

\* What World is.
Worlds ==
    [co : Members, overlay : OverlayState, posted : Seq(Calls), asr : AsrSessions,
     translating : SUBSET Cycles, connected : SUBSET Devices, shown : [Devices -> Shows],
     long : BOOLEAN, cycle : 0..MaxCycles, cancelled : SUBSET Cycles,
     pastes : [Cycles -> 0..2], late : BOOLEAN]

\* Where a text may still come from.
Source(w, t) == w.co.session = t \/ w.asr.of = t

\* The numbers of recordings that are used.
Numbered(w, a) ==
    /\ w.co.session \in {0, w.cycle} /\ w.asr.of <= w.cycle /\ a.of <= w.cycle
    /\ w.co.text <= w.cycle /\ w.co.last <= w.cycle
    /\ w.co.state # "ready" => w.cycle # 0
    /\ \A t \in w.translating : t <= w.cycle
    /\ \A t \in Cycles : t > w.cycle => w.pastes[t] = 0

\* A text is in one place on its way from the recording to the paste.
Apart(w, a, t) ==
    /\ Source(w, t) => a.of # t \/ a.kind \notin {"final", "empty"}
    /\ Source(w, t) \/ a.of = t => t \notin w.translating /\ w.co.last # t
    /\ t \in w.translating => w.co.last # t
    /\ Source(w, t) \/ a.of = t \/ t \in w.translating \/ w.co.text = t => w.pastes[t] = 0
    /\ Source(w, t) \/ a.of = t \/ t \in w.translating => w.co.text # t
    /\ w.pastes[t] <= 1

TextsApart(w, a) == \A t \in Cycles : Apart(w, a, t)

\* What the members of a recording say of each other, whatever comes late.
MembersAgree(w, a) ==
    /\ a.kind = "none" <=> a.of = 0
    /\ w.asr.of = 0 => ~w.asr.last
    /\ w.asr.last => w.co.session # w.asr.of
    /\ w.co.waiting => w.co.session # 0
    /\ w.co.pending = "idle" <=> w.co.text = 0

\* A posted error brings its callback.
ErrorsRecover(w) ==
    \A i \in 1..Len(w.posted) : w.posted[i].mode = "error" => w.posted[i].callback = RecoverIt

\* A recording whose text is still to come.
Busy(w) ==
    /\ w.co.state \in {"recording", "finalizing"} /\ ~w.co.error
    /\ w.co.pending = "idle" /\ w.co.device # None

\* Nothing is left that could still change what is shown.
Quiet(w, a) ==
    /\ w.co.session = 0 /\ w.asr.of = 0
    /\ a.kind # "none" => a.of \in w.cancelled
    /\ w.translating \subseteq w.cancelled

\* What is not cancelled belongs to the last recording, and the last text to a
\* device.
OnlyLast(w, a) ==
    /\ w.asr.of \in {0, w.cycle}
    /\ a.kind # "none" => a.of = w.cycle \/ a.of \in w.cancelled
    /\ w.translating \ w.cancelled \subseteq {w.cycle}
    /\ w.co.last # 0 => w.co.last_device # None

\* How far the recording is.
Stages(w, a) ==
    /\ w.asr.of # 0 => w.co.asr_started
    /\ a.kind \in {"final", "empty"} /\ a.of \notin w.cancelled =>
          ~w.co.pasted_final /\ w.co.session = 0 /\ w.asr.of = 0
    /\ w.co.pasted_final =>
          w.co.session = 0 /\ w.asr.of = 0 /\ (a.kind # "none" => a.of \in w.cancelled)
    /\ ~(w.translating \subseteq w.cancelled) => w.co.pasted_final

\* Who was told of the recording.
Others(w)   == \A d \in w.connected : w.shown[d] # "ready" => w.co.device = d
AllReady(w) == \A d \in w.connected : w.shown[d] = "ready"

\* What every step of a handler keeps.
Held(w, a) ==
    /\ Numbered(w, a) /\ TextsApart(w, a) /\ MembersAgree(w, a) /\ ErrorsRecover(w)
    /\ ~w.late => (Busy(w) \/ Quiet(w, a)) /\ OnlyLast(w, a) /\ Stages(w, a) /\ Others(w)

\* What the timer of the overlay calls.
Coming(w) == IF w.overlay.timer THEN w.overlay.callback ELSE NoCallback

PostedIn(w, display) == \E i \in 1..Len(w.posted) : w.posted[i].mode = display

RecoversBy(w, callback) == w.co.error /\ (PostedIn(w, "error") \/ callback = RecoverIt)

\* Who ends what is going on, when a callback of the overlay is still to run.
Awaited(w, a) ==
    \/ w.co.waiting /\ w.co.session # 0
    \/ w.asr.of # 0 \/ a.kind \notin {"none", "partial"} \/ w.translating # {}

EndsBy(w, a, callback) ==
    /\ w.co.state = "finalizing" => Awaited(w, a) \/ RecoversBy(w, callback)
    /\ w.co.state = "pending" => PostedIn(w, "countdown") \/ callback = CommitOf(w.co.text)
    /\ w.co.state = "error" => RecoversBy(w, callback)

\* What holds between the handlers.
Good(w, a) ==
    /\ Held(w, a)
    /\ w.co.session # 0 => ~w.co.sent_final
    /\ ~w.late => EndsBy(w, a, Coming(w)) /\ (w.co.state = "ready" <=> w.co.device = None)

IInv == TypeOK /\ Good(World, answer)

-----------------------------------------------------------------------------
(* What is shown *)

\* What a handler that only shows something leaves as it is.
SameRecording(w, r) ==
    /\ r.co.session = w.co.session /\ r.co.text = w.co.text
    /\ r.co.last = w.co.last /\ r.co.last_device = w.co.last_device
    /\ r.co.waiting = w.co.waiting /\ r.co.sent_final = w.co.sent_final
    /\ r.co.pending = w.co.pending /\ r.co.asr_started = w.co.asr_started
    /\ r.co.pasted_final = w.co.pasted_final /\ r.asr = w.asr
    /\ r.translating = w.translating /\ r.cycle = w.cycle /\ r.cancelled = w.cancelled
    /\ r.pastes = w.pastes

Same(w, r) == SameRecording(w, r) /\ r.late = w.late /\ r.connected = w.connected

\* The same with the state of the recording and its device.
Unchanged(w, r) ==
    /\ Same(w, r)
    /\ r.co.state = w.co.state /\ r.co.device = w.co.device /\ r.co.error = w.co.error

\* What stays the same over two calls stays the same.
LEMMA SameTwice ==
    ASSUME NEW v, NEW w, NEW r, Same(v, w), Same(w, r)
    PROVE  Same(v, r)
  BY DEF Same, SameRecording

\* What the assumptions on the constants give.
LEMMA Bounds ==
    /\ MaxCycles \in Nat /\ None \notin Devices
    /\ Cycles \subseteq Nat /\ 0 \notin Cycles /\ 0 \in Texts
    /\ Texts = 0..MaxCycles
  BY BoundsAssumption, NoneAssumption DEF Cycles, Texts

\* The callbacks of the overlay differ.
LEMMA CallbacksDiffer ==
    /\ NoCallback \in Callbacks /\ RecoverIt \in Callbacks /\ ShowDialog \in Callbacks
    /\ NoCallback # RecoverIt /\ ShowDialog # RecoverIt /\ ShowDialog # NoCallback
    /\ NoCallback.run = "nothing" /\ ShowDialog.run = "dialog"
    /\ \A t \in Cycles : /\ CommitOf(t) \in Callbacks /\ CommitOf(t) # NoCallback
                         /\ CommitOf(t) # RecoverIt
                         /\ CommitOf(t).run = "commit" /\ CommitOf(t).text = t
    /\ \A c \in Callbacks : /\ c.run = "commit" => c.text \in Cycles /\ c = CommitOf(c.text)
                            /\ c.run = "recover" <=> c = RecoverIt
  <1>1. /\ NoCallback \in Callbacks /\ RecoverIt \in Callbacks /\ ShowDialog \in Callbacks
        /\ \A t \in Cycles : CommitOf(t) \in Callbacks
    BY DEF Callbacks
  <1>2. /\ NoCallback.run = "nothing" /\ ShowDialog.run = "dialog" /\ RecoverIt.run = "recover"
        /\ \A t \in Cycles : CommitOf(t).run = "commit" /\ CommitOf(t).text = t
    BY DEF NoCallback, RecoverIt, ShowDialog, CommitOf
  <1>3. ASSUME NEW c \in Callbacks
        PROVE  c \in {NoCallback, RecoverIt, ShowDialog} \/ \E t \in Cycles : c = CommitOf(t)
    BY DEF Callbacks
  <1> QED
    BY <1>1, <1>2, <1>3

\* The state alone, and the device alone.
LEMMA StateIs ==
    ASSUME NEW w \in Worlds, NEW s \in States
    PROVE  LET r == [w EXCEPT !.co.state = s] IN
           /\ r \in Worlds /\ Same(w, r)
           /\ r.co.state = s /\ r.co.device = w.co.device /\ r.co.error = w.co.error
           /\ r.overlay = w.overlay /\ r.posted = w.posted /\ r.shown = w.shown
  BY DEF Worlds, Same, SameRecording, Members

\* Setting the active device changes nothing else.
LEMMA DeviceIs ==
    ASSUME NEW w \in Worlds, NEW d \in Devices \cup {None}
    PROVE  LET r == [w EXCEPT !.co.device = d] IN
           /\ r \in Worlds /\ Same(w, r)
           /\ r.co.state = w.co.state /\ r.co.device = d /\ r.co.error = w.co.error
           /\ r.overlay = w.overlay /\ r.posted = w.posted /\ r.shown = w.shown
  BY DEF Worlds, Same, SameRecording, Members

\* SendUiStateForActiveDevice changes nothing but what the devices show.
LEMMA SendIs ==
    ASSUME NEW w \in Worlds, NEW show \in Shows
    PROVE  LET r == SendUiStateForActiveDevice(w, show) IN
           /\ r \in Worlds /\ Unchanged(w, r)
           /\ r.overlay = w.overlay /\ r.posted = w.posted
           /\ \A d \in Devices : r.shown[d] = IF d \in w.connected /\ w.co.device \in {d, None}
                                             THEN show ELSE w.shown[d]
  BY DEF SendUiStateForActiveDevice, Worlds, Same, SameRecording, Unchanged

\* The device of the recording is told, and with no device nothing else.
LEMMA SendTellsOthers ==
    ASSUME NEW w \in Worlds, NEW show \in Shows, Others(w),
           w.co.device # None \/ show = "ready"
    PROVE  LET r == SendUiStateForActiveDevice(w, show) IN
           Others(r) /\ (show = "ready" => AllReady(r))
  <1> DEFINE r == SendUiStateForActiveDevice(w, show)
  <1>1. /\ r.connected = w.connected /\ r.co.device = w.co.device
        /\ \A d \in Devices : r.shown[d] = IF d \in w.connected /\ w.co.device \in {d, None}
                                          THEN show ELSE w.shown[d]
    BY SendIs DEF Unchanged, Same, SameRecording
  <1>2. w.connected \subseteq Devices
    BY DEF Worlds
  <1> HIDE DEF r
  <1>3. Others(r)
    BY <1>1, <1>2 DEF Others
  <1>4. show = "ready" => AllReady(r)
    BY <1>1, <1>2 DEF Others, AllReady
  <1> QED
    BY <1>3, <1>4 DEF r

\* The same of one device.
LEMMA SendToIs ==
    ASSUME NEW w \in Worlds, NEW show \in Shows, NEW d \in Devices
    PROVE  LET r == SendUiState(w, d, show) IN
           /\ r \in Worlds /\ Unchanged(w, r)
           /\ r.overlay = w.overlay /\ r.posted = w.posted
           /\ Others(w) /\ (w.co.device = d \/ show = "ready") => Others(r)
  BY DEF SendUiState, Worlds, Same, SameRecording, Unchanged, Others

\* EnterReady as far as the devices are told.
LEMMA ReadyShownIs ==
    ASSUME NEW w \in Worlds
    PROVE  LET r == EnterReadyShown(w) IN
           /\ r \in Worlds /\ Same(w, r)
           /\ r.co.state = "ready" /\ r.co.device = None /\ r.co.error = w.co.error
           /\ r.overlay = w.overlay /\ r.posted = w.posted
           /\ Others(w) => AllReady(r)
  <1> DEFINE s == [w EXCEPT !.co.state = "ready"]
             t == SendUiStateForActiveDevice(s, "ready")
             r == [t EXCEPT !.co.device = None]
  <1>1. /\ s \in Worlds /\ Same(w, s)
        /\ s.co.state = "ready" /\ s.co.device = w.co.device /\ s.co.error = w.co.error
        /\ s.overlay = w.overlay /\ s.posted = w.posted /\ s.shown = w.shown
    BY StateIs DEF States
  <1>2. Others(w) => Others(s)
    BY <1>1 DEF Others, Same, SameRecording
  <1> HIDE DEF s
  <1>3. "ready" \in Shows
    BY DEF Shows
  <1>4. /\ t \in Worlds /\ Unchanged(s, t) /\ t.overlay = s.overlay /\ t.posted = s.posted
        /\ Others(s) => AllReady(t)
    BY <1>1, <1>3, SendIs, SendTellsOthers
  <1> HIDE DEF t
  <1>5. /\ r \in Worlds /\ Same(t, r)
        /\ r.co.state = t.co.state /\ r.co.device = None /\ r.co.error = t.co.error
        /\ r.overlay = t.overlay /\ r.posted = t.posted /\ r.shown = t.shown
    BY <1>4, DeviceIs
  <1>6. AllReady(t) => AllReady(r)
    BY <1>5 DEF AllReady, Same, SameRecording
  <1>7. Same(w, r)
    BY <1>1, <1>4, <1>5, SameTwice DEF Unchanged
  <1> HIDE DEF r
  <1>8. /\ r \in Worlds /\ Same(w, r)
        /\ r.co.state = "ready" /\ r.co.device = None /\ r.co.error = w.co.error
        /\ r.overlay = w.overlay /\ r.posted = w.posted
        /\ Others(w) => AllReady(r)
    BY <1>1, <1>2, <1>4, <1>5, <1>6, <1>7 DEF Unchanged
  <1> QED
    BY <1>8 DEF EnterReadyShown, r, t, s

\* Every device that shows ready is one of the others.
LEMMA AllReadyOthers ==
    ASSUME NEW w, AllReady(w)
    PROVE  Others(w)
  BY DEF AllReady, Others

\* FinishRecognitionCycle.
LEMMA FinishIs ==
    ASSUME NEW w \in Worlds
    PROVE  LET r == FinishRecognitionCycle(w) IN
           /\ r \in Worlds
           /\ ~r.co.waiting /\ ~r.co.asr_started /\ ~r.co.sent_final /\ ~r.co.pasted_final
           /\ r.co.session = w.co.session /\ r.co.text = w.co.text
           /\ r.co.last = w.co.last /\ r.co.last_device = w.co.last_device
           /\ r.co.pending = w.co.pending /\ r.asr = w.asr
           /\ r.translating = w.translating /\ r.cycle = w.cycle /\ r.cancelled = w.cancelled
           /\ r.pastes = w.pastes /\ r.late = w.late /\ r.connected = w.connected
           /\ r.co.state = w.co.state /\ r.co.device = w.co.device /\ r.co.error = w.co.error
           /\ r.overlay = w.overlay /\ r.posted = w.posted /\ r.shown = w.shown
  <1>1. FALSE \in BOOLEAN
    OBVIOUS
  <1> QED
    BY <1>1 DEF FinishRecognitionCycle, Worlds, Members

\* RecoverFromAsrError.
LEMMA RecoverIs ==
    ASSUME NEW w \in Worlds
    PROVE  LET r == RecoverFromAsrError(w) IN
           /\ r \in Worlds /\ Same(w, r) /\ r.overlay = w.overlay /\ r.posted = w.posted
           /\ w.co.error => r.co.state = "ready" /\ r.co.device = None
           /\ ~w.co.error => r = w
           /\ Others(w) => Others(r)
           /\ AllReady(w) => AllReady(r)
  <1> DEFINE s == [w EXCEPT !.co.error = FALSE]
             r == EnterReadyShown(s)
  <1>1. FALSE \in BOOLEAN
    OBVIOUS
  <1>2. /\ s \in Worlds /\ Same(w, s) /\ s.co.device = w.co.device
        /\ s.overlay = w.overlay /\ s.posted = w.posted /\ s.shown = w.shown
    BY <1>1 DEF Worlds, Members, Same, SameRecording
  <1>3. Others(w) => Others(s)
    BY <1>2 DEF Others, Same, SameRecording
  <1> HIDE DEF s
  <1>4. /\ r \in Worlds /\ Same(s, r) /\ r.co.state = "ready" /\ r.co.device = None
        /\ r.overlay = s.overlay /\ r.posted = s.posted /\ (Others(s) => AllReady(r))
    BY <1>2, ReadyShownIs
  <1>5. Same(w, r)
    BY <1>2, <1>4, SameTwice
  <1> HIDE DEF r
  <1>6. CASE w.co.error
    <2>1. RecoverFromAsrError(w) = r
      BY <1>6 DEF RecoverFromAsrError, r, s
    <2> QED
      BY <1>2, <1>3, <1>4, <1>5, <1>6, <2>1, AllReadyOthers
  <1>7. CASE ~w.co.error
    BY <1>7 DEF RecoverFromAsrError, Same, SameRecording
  <1> QED
    BY <1>6, <1>7

-----------------------------------------------------------------------------
(* The overlay *)

\* A posted call is added to the others.
LEMMA PostIs ==
    ASSUME NEW w \in Worlds, NEW c \in Calls, c.mode = "error" => c.callback = RecoverIt
    PROVE  LET r == [w EXCEPT !.posted = Append(@, c)] IN
           /\ r \in Worlds /\ Unchanged(w, r) /\ r.overlay = w.overlay /\ r.shown = w.shown
           /\ ErrorsRecover(w) => ErrorsRecover(r)
           /\ \A m \in OverlayModes : PostedIn(w, m) => PostedIn(r, m)
           /\ PostedIn(r, c.mode)
  <1> DEFINE q == w.posted
             p == Append(q, c)
             r == [w EXCEPT !.posted = p]
  <1>1. q \in Seq(Calls)
    BY DEF Worlds
  <1> HIDE DEF q
  <1>2. /\ p \in Seq(Calls) /\ Len(p) = Len(q) + 1 /\ Len(q) \in Nat
        /\ p[Len(q) + 1] = c /\ \A i \in 1..Len(q) : p[i] = q[i]
    BY <1>1
  <1> HIDE DEF p
  <1>3. /\ r \in Worlds /\ r.posted = p /\ Unchanged(w, r)
        /\ r.overlay = w.overlay /\ r.shown = w.shown
    BY <1>2 DEF Worlds, Unchanged, Same, SameRecording
  <1> HIDE DEF r
  <1>4. ASSUME ErrorsRecover(w)
        PROVE  ErrorsRecover(r)
    BY <1>2, <1>3, <1>4 DEF ErrorsRecover, q
  <1>5. ASSUME NEW m \in OverlayModes, PostedIn(w, m)
        PROVE  PostedIn(r, m)
    BY <1>2, <1>3, <1>5 DEF PostedIn, q
  <1>6. PostedIn(r, c.mode)
    BY <1>2, <1>3 DEF PostedIn
  <1> QED
    BY <1>3, <1>4, <1>5, <1>6 DEF r, p, q

\* OverlayWindow::Show, at once or posted: a countdown and an error bring their
\* callback.
LEMMA ShowIs ==
    ASSUME NEW w \in Worlds, NEW thread, NEW display \in OverlayModes \ {"hidden"},
           NEW callback \in Callbacks, display = "error" => callback = RecoverIt
    PROVE  LET r == DispatchToUi(w, thread, display, callback) IN
           /\ r \in Worlds /\ Unchanged(w, r) /\ r.shown = w.shown
           /\ ErrorsRecover(w) => ErrorsRecover(r)
           /\ \A m \in OverlayModes : PostedIn(w, m) => PostedIn(r, m)
           /\ display \in {"countdown", "error"} => PostedIn(r, display) \/ Coming(r) = callback
  <1> DEFINE call == [mode |-> display, callback |-> callback]
             v == [w EXCEPT !.overlay = [mode |-> display, callback |-> callback, timer |-> TRUE]]
             u == [w EXCEPT !.overlay.mode = display, !.overlay.timer = FALSE]
             p == [w EXCEPT !.posted = Append(@, call)]
             r == DispatchToUi(w, thread, display, callback)
  <1>1. TRUE \in BOOLEAN /\ FALSE \in BOOLEAN
    OBVIOUS
  <1>2. call \in Calls /\ call.mode = display /\ call.callback = callback
    BY DEF Calls
  <1>3. /\ v \in Worlds /\ Unchanged(w, v) /\ v.shown = w.shown /\ v.posted = w.posted
        /\ Coming(v) = callback
    BY <1>1 DEF Worlds, OverlayState, Unchanged, Same, SameRecording, Coming
  <1>4. /\ u \in Worlds /\ Unchanged(w, u) /\ u.shown = w.shown /\ u.posted = w.posted
    BY <1>1 DEF Worlds, OverlayState, Unchanged, Same, SameRecording
  <1>5. ASSUME NEW x \in Worlds, x.posted = w.posted
        PROVE  /\ ErrorsRecover(w) => ErrorsRecover(x)
               /\ \A m \in OverlayModes : PostedIn(w, m) => PostedIn(x, m)
    BY <1>5 DEF ErrorsRecover, PostedIn
  <1>6. r = IF thread = "ui" THEN IF display \in {"countdown", "error"} THEN v ELSE u ELSE p
    BY <1>2 DEF DispatchToUi, Perform, Show
  <1>7. CASE thread = "ui" /\ display \in {"countdown", "error"}
    BY <1>3, <1>5, <1>6, <1>7
  <1>8. CASE thread = "ui" /\ display \notin {"countdown", "error"}
    BY <1>4, <1>5, <1>6, <1>8
  <1>9. CASE thread # "ui"
    BY <1>2, <1>6, <1>9, PostIs
  <1> QED
    BY <1>7, <1>8, <1>9

\* The overlay is hidden, and what it calls is given back to the caller.
LEMMA OverlayHiddenIs ==
    ASSUME NEW w \in Worlds
    PROVE  LET r == [w EXCEPT !.overlay = [mode |-> "hidden", callback |-> NoCallback,
                                           timer |-> FALSE]] IN
           /\ r \in Worlds /\ Unchanged(w, r) /\ r.shown = w.shown /\ r.posted = w.posted
           /\ Coming(r) = NoCallback
  <1>1. FALSE \in BOOLEAN /\ NoCallback \in Callbacks /\ "hidden" \in OverlayModes
    BY CallbacksDiffer DEF OverlayModes
  <1> QED
    BY <1>1 DEF Worlds, OverlayState, Unchanged, Same, SameRecording, Coming

\* Without a text that is pending, hiding the overlay can only end an error.
LEMMA HideIs ==
    ASSUME NEW w \in Worlds, NEW thread, w.co.text = 0,
           NEW callback \in {NoCallback, ShowDialog}
    PROVE  LET r == DispatchToUi(w, thread, "hidden", callback) IN
           /\ r \in Worlds /\ Same(w, r)
           /\ r.co.state \in {w.co.state, "ready"} /\ r.co.device \in {w.co.device, None}
           /\ Others(w) => Others(r)
           /\ AllReady(w) => AllReady(r)
           /\ ErrorsRecover(w) => ErrorsRecover(r)
  <1> DEFINE call == [mode |-> "hidden", callback |-> callback]
             h == [w EXCEPT !.overlay = [mode |-> "hidden", callback |-> NoCallback,
                                         timer |-> FALSE]]
             c == IF callback = NoCallback THEN w.overlay.callback ELSE callback
             p == [w EXCEPT !.posted = Append(@, call)]
             r == DispatchToUi(w, thread, "hidden", callback)
  <1> SUFFICES /\ r \in Worlds /\ Same(w, r)
               /\ r.co.state \in {w.co.state, "ready"} /\ r.co.device \in {w.co.device, None}
               /\ Others(w) => Others(r)
               /\ AllReady(w) => AllReady(r)
               /\ ErrorsRecover(w) => ErrorsRecover(r)
    OBVIOUS
  <1>1. callback \in Callbacks /\ w.overlay.callback \in Callbacks
    BY CallbacksDiffer DEF Worlds, OverlayState
  <1>2. call \in Calls /\ call.mode = "hidden" /\ call.callback = callback
    BY <1>1 DEF Calls, OverlayModes
  <1>3. r = IF thread = "ui" THEN Run(h, c) ELSE p
    BY <1>2 DEF DispatchToUi, Perform, Hide
  <1>4. /\ h \in Worlds /\ Unchanged(w, h) /\ h.shown = w.shown /\ h.posted = w.posted
    BY OverlayHiddenIs
  <1>5. c \in Callbacks
    BY <1>1
  <1> HIDE DEF c, h, r
  <1>6. CASE thread # "ui"
    <2>1. call.mode = "error" => call.callback = RecoverIt
      BY <1>2
    <2>2. /\ p \in Worlds /\ Unchanged(w, p) /\ p.shown = w.shown
          /\ ErrorsRecover(w) => ErrorsRecover(p)
      BY <1>2, <2>1, PostIs
    <2>3. r = p
      BY <1>3, <1>6
    <2> HIDE DEF p
    <2> QED
      BY <2>2, <2>3 DEF Unchanged, Others, AllReady, Same, SameRecording
  <1>7. CASE thread = "ui"
    <2>1. CASE c.run = "recover"
      <3>1. r = RecoverFromAsrError(h)
        BY <1>3, <1>7, <2>1 DEF Run
      <3>2. /\ r \in Worlds /\ Same(h, r) /\ r.posted = h.posted
            /\ h.co.error => r.co.state = "ready" /\ r.co.device = None
            /\ ~h.co.error => r = h
            /\ Others(h) => Others(r)
            /\ AllReady(h) => AllReady(r)
        BY <1>4, <3>1, RecoverIs
      <3>3. Same(w, r)
        BY <1>4, <3>2, SameTwice DEF Unchanged
      <3>4. /\ Others(w) => Others(h)
            /\ AllReady(w) => AllReady(h)
            /\ ErrorsRecover(w) => ErrorsRecover(r)
        BY <1>4, <3>2 DEF Others, AllReady, ErrorsRecover, Unchanged, Same, SameRecording
      <3> QED
        BY <1>4, <3>2, <3>3, <3>4 DEF Unchanged
    <2>2. CASE c.run # "recover"
      <3>1. c.run = "commit" => c.text # h.co.text
        BY <1>4, <1>5, CallbacksDiffer, Bounds DEF Unchanged, Same, SameRecording
      <3>2. r = h
        BY <1>3, <1>7, <2>2, <3>1 DEF Run, CommitPendingPaste
      <3> QED
        BY <1>4, <3>2 DEF Unchanged, Same, SameRecording, Others, AllReady, ErrorsRecover
    <2> QED
      BY <2>1, <2>2
  <1> QED
    BY <1>6, <1>7

-----------------------------------------------------------------------------
(* What the invariant depends on *)

\* What nothing is left of stays so.
LEMMA SameQuiet ==
    ASSUME NEW w, NEW r, NEW a, SameRecording(w, r)
    PROVE  Quiet(w, a) <=> Quiet(r, a)
  BY DEF SameRecording, Quiet

\* A handler that only shows something keeps what it has to tell.
LEMMA LaterHeld ==
    ASSUME NEW w, NEW r, NEW a, SameRecording(w, r), w.late => r.late, Held(w, a),
           ErrorsRecover(r), r.co.state # "ready" => w.cycle # 0,
           ~r.late => Others(r) /\ (Busy(r) \/ Quiet(w, a))
    PROVE  Held(r, a)
  <1>1. Numbered(r, a)
    BY DEF SameRecording, Held, Numbered
  <1>2. TextsApart(r, a)
    <2>1. ASSUME NEW t \in Cycles, Apart(w, a, t)
          PROVE  Apart(r, a, t)
      BY <2>1 DEF SameRecording, Apart, Source
    <2> QED
      BY <2>1 DEF Held, TextsApart
  <1>3. MembersAgree(r, a)
    BY DEF SameRecording, Held, MembersAgree
  <1>4. ASSUME ~r.late
        PROVE  (Busy(r) \/ Quiet(r, a)) /\ OnlyLast(r, a) /\ Stages(r, a) /\ Others(r)
    <2>1. ~w.late /\ OnlyLast(w, a) /\ Stages(w, a)
      BY <1>4 DEF Held
    <2>2. Busy(r) \/ Quiet(r, a)
      BY <1>4, SameQuiet
    <2>3. OnlyLast(r, a)
      BY <2>1 DEF SameRecording, OnlyLast
    <2>4. Stages(r, a)
      BY <2>1 DEF SameRecording, Stages
    <2> QED
      BY <1>4, <2>1, <2>2, <2>3, <2>4
  <1> QED
    BY <1>1, <1>2, <1>3, <1>4 DEF Held

\* A call that leaves the recording alone keeps what is held of it.
LEMMA SameHeld ==
    ASSUME NEW w, NEW r, NEW a, Same(w, r), Held(w, a), ErrorsRecover(r),
           r.co.state # "ready" => w.cycle # 0,
           ~w.late => Others(r) /\ (Busy(r) \/ Quiet(w, a))
    PROVE  Held(r, a)
  BY LaterHeld DEF Same

\* A callback that was made leaves nothing behind.
LEMMA MadeHeld ==
    ASSUME NEW w \in Worlds, NEW a, Held(w, a)
    PROVE  Held(w, NoAnswer)
  <1>1. NoAnswer.kind = "none" /\ NoAnswer.of = 0
    BY DEF NoAnswer
  <1>2. w.cycle \in Nat
    BY Bounds DEF Worlds
  <1>3. Numbered(w, NoAnswer)
    BY <1>1, <1>2 DEF Held, Numbered
  <1>4. TextsApart(w, NoAnswer)
    <2>1. ASSUME NEW t \in Cycles, Apart(w, a, t)
          PROVE  Apart(w, NoAnswer, t)
      BY <1>1, <2>1, Bounds DEF Apart, Source
    <2> QED
      BY <2>1 DEF Held, TextsApart
  <1>5. MembersAgree(w, NoAnswer)
    BY <1>1 DEF Held, MembersAgree
  <1>6. ASSUME ~w.late
        PROVE  /\ Busy(w) \/ Quiet(w, NoAnswer)
               /\ OnlyLast(w, NoAnswer) /\ Stages(w, NoAnswer) /\ Others(w)
    <2>1. (Busy(w) \/ Quiet(w, a)) /\ OnlyLast(w, a) /\ Stages(w, a) /\ Others(w)
      BY <1>6 DEF Held
    <2>2. Quiet(w, a) => Quiet(w, NoAnswer)
      BY <1>1 DEF Quiet
    <2>3. OnlyLast(w, NoAnswer)
      BY <1>1, <2>1 DEF OnlyLast
    <2>4. Stages(w, NoAnswer)
      BY <1>1, <2>1 DEF Stages
    <2> QED
      BY <2>1, <2>2, <2>3, <2>4
  <1> QED
    BY <1>3, <1>4, <1>5, <1>6 DEF Held

-----------------------------------------------------------------------------
(* The states of a recording *)

\* Whatever was going on has ended, and the devices were told.
LEMMA SettledGood ==
    ASSUME NEW w, NEW r, NEW a, Held(w, a), w.co.session # 0 => ~w.co.sent_final,
           ~w.late => Quiet(w, a), Same(w, r), r.co.state = "ready", r.co.device = None,
           Others(w) => Others(r), ErrorsRecover(r)
    PROVE  Good(r, a)
  <1>1. ~w.late => Others(r)
    BY DEF Held
  <1>2. Held(r, a)
    BY <1>1, SameHeld
  <1>3. EndsBy(r, a, Coming(r))
    BY DEF EndsBy
  <1> QED
    BY <1>2, <1>3 DEF Good, Same, SameRecording

\* EnterReady, with nothing pending.
LEMMA EnterReadyIs ==
    ASSUME NEW w \in Worlds, NEW thread, w.co.text = 0
    PROVE  LET r == EnterReady(w, thread) IN
           /\ r \in Worlds /\ Same(w, r) /\ r.co.state = "ready" /\ r.co.device = None
           /\ Others(w) => Others(r)
           /\ ErrorsRecover(w) => ErrorsRecover(r)
  <1> DEFINE s == [w EXCEPT !.co.state = "ready"]
             t == SendUiStateForActiveDevice(s, "ready")
             h == DispatchToUi(t, thread, "hidden", NoCallback)
             r == [h EXCEPT !.co.device = None]
  <1> SUFFICES /\ r \in Worlds /\ Same(w, r) /\ r.co.state = "ready" /\ r.co.device = None
               /\ Others(w) => Others(r)
               /\ ErrorsRecover(w) => ErrorsRecover(r)
    BY DEF EnterReady
  <1>1. /\ s \in Worlds /\ Same(w, s) /\ s.co.state = "ready" /\ s.co.device = w.co.device
        /\ s.posted = w.posted /\ s.shown = w.shown
    BY StateIs DEF States
  <1>2. (Others(w) => Others(s)) /\ (ErrorsRecover(w) => ErrorsRecover(s))
    BY <1>1 DEF Others, ErrorsRecover, Same, SameRecording
  <1> HIDE DEF s
  <1>3. "ready" \in Shows
    BY DEF Shows
  <1>4. /\ t \in Worlds /\ Unchanged(s, t) /\ t.posted = s.posted
        /\ Others(s) => AllReady(t)
    BY <1>1, <1>3, SendIs, SendTellsOthers
  <1> HIDE DEF t
  <1>5. Same(w, t) /\ t.co.state = "ready"
    BY <1>1, <1>4, SameTwice DEF Unchanged
  <1>6. t.co.text = 0
    BY <1>5 DEF Same, SameRecording
  <1>7. /\ h \in Worlds /\ Same(t, h) /\ h.co.state \in {t.co.state, "ready"}
        /\ AllReady(t) => AllReady(h)
        /\ ErrorsRecover(t) => ErrorsRecover(h)
    BY <1>4, <1>6, HideIs
  <1> HIDE DEF h
  <1>8. /\ r \in Worlds /\ Same(h, r) /\ r.co.state = h.co.state /\ r.co.device = None
        /\ r.posted = h.posted /\ r.shown = h.shown
    BY <1>7, DeviceIs
  <1>9. (AllReady(h) => Others(r)) /\ (ErrorsRecover(h) => ErrorsRecover(r))
    BY <1>8 DEF AllReady, Others, ErrorsRecover, Same, SameRecording
  <1>10. Same(w, r)
    BY <1>5, <1>7, <1>8, SameTwice
  <1>11. ErrorsRecover(s) => ErrorsRecover(t)
    BY <1>4 DEF ErrorsRecover
  <1> QED
    BY <1>2, <1>4, <1>5, <1>7, <1>8, <1>9, <1>10, <1>11

\* EnterReady leaves a state in which nothing is pending.
LEMMA EnterReadyGood ==
    ASSUME NEW w \in Worlds, NEW a, NEW thread, Held(w, a), w.co.text = 0,
           w.co.session # 0 => ~w.co.sent_final, ~w.late => Quiet(w, a)
    PROVE  EnterReady(w, thread) \in Worlds /\ Good(EnterReady(w, thread), a)
  <1> DEFINE r == EnterReady(w, thread)
  <1>1. /\ r \in Worlds /\ Same(w, r) /\ r.co.state = "ready" /\ r.co.device = None
        /\ Others(w) => Others(r)
        /\ ErrorsRecover(w) => ErrorsRecover(r)
    BY EnterReadyIs
  <1>2. ErrorsRecover(w)
    BY DEF Held
  <1> HIDE DEF r
  <1> QED
    BY <1>1, <1>2, SettledGood DEF r

\* EnterError: the overlay shows the error, and its timer ends it.
LEMMA EnterErrorGood ==
    ASSUME NEW w \in Worlds, NEW a, NEW thread, Held(w, a), w.cycle # 0,
           w.co.session # 0 => ~w.co.sent_final,
           ~w.late => Quiet(w, a) /\ w.co.device # None
    PROVE  LET r == EnterError(w, thread) IN
           /\ r \in Worlds /\ Same(w, r) /\ Good(r, a)
           /\ r.co.error /\ r.co.state = "error" /\ r.co.device = w.co.device
           /\ RecoversBy(r, Coming(r))
  <1> DEFINE s == [w EXCEPT !.co.error = TRUE, !.co.state = "error"]
             t == SendUiStateForActiveDevice(s, "error")
             r == DispatchToUi(t, thread, "error", RecoverIt)
  <1> SUFFICES /\ r \in Worlds /\ Same(w, r) /\ Good(r, a)
               /\ r.co.error /\ r.co.state = "error" /\ r.co.device = w.co.device
               /\ RecoversBy(r, Coming(r))
    BY DEF EnterError
  <1>1. TRUE \in BOOLEAN
    OBVIOUS
  <1>2. /\ s \in Worlds /\ Same(w, s) /\ s.co.state = "error" /\ s.co.device = w.co.device
        /\ s.co.error /\ s.posted = w.posted /\ s.shown = w.shown
    BY <1>1 DEF Worlds, Members, States, Same, SameRecording
  <1>3. (Others(w) => Others(s)) /\ ErrorsRecover(s)
    BY <1>2 DEF Others, ErrorsRecover, Same, SameRecording, Held
  <1> HIDE DEF s
  <1>4. "error" \in Shows
    BY DEF Shows
  <1>5. /\ t \in Worlds /\ Unchanged(s, t) /\ t.posted = s.posted
        /\ Others(s) /\ s.co.device # None => Others(t)
    BY <1>2, <1>4, SendIs, SendTellsOthers
  <1>6. ErrorsRecover(t)
    BY <1>3, <1>5 DEF ErrorsRecover
  <1> HIDE DEF t
  <1>7. RecoverIt \in Callbacks /\ "error" \in OverlayModes \ {"hidden"}
    BY CallbacksDiffer DEF OverlayModes
  <1>8. /\ r \in Worlds /\ Unchanged(t, r) /\ r.shown = t.shown
        /\ ErrorsRecover(r)
        /\ PostedIn(r, "error") \/ Coming(r) = RecoverIt
    BY <1>5, <1>6, <1>7, ShowIs
  <1> HIDE DEF r
  <1>9. /\ Same(w, r) /\ r.co.error /\ r.co.state = "error" /\ r.co.device = w.co.device
    BY <1>2, <1>5, <1>8, SameTwice DEF Unchanged
  <1>10. Others(t) => Others(r)
    BY <1>8 DEF Others, Unchanged, Same, SameRecording
  <1>11. ~w.late => Others(r)
    BY <1>2, <1>3, <1>5, <1>10 DEF Held
  <1>12. Held(r, a)
    BY <1>8, <1>9, <1>11, SameHeld
  <1>13. RecoversBy(r, Coming(r))
    BY <1>8, <1>9 DEF RecoversBy
  <1>14. EndsBy(r, a, Coming(r))
    BY <1>9, <1>13 DEF EndsBy
  <1>15. Good(r, a)
    BY <1>9, <1>12, <1>14 DEF Good, Same, SameRecording
  <1> QED
    BY <1>8, <1>9, <1>13, <1>15

\* EnterFinalizing, while something is awaited or an error recovers.
LEMMA EnterFinalizingGood ==
    ASSUME NEW w \in Worlds, NEW a, Held(w, a), w.cycle # 0,
           w.co.session # 0 => ~w.co.sent_final,
           ~w.late => /\ w.co.device # None
                      /\ Awaited(w, a) \/ RecoversBy(w, Coming(w))
    PROVE  EnterFinalizing(w) \in Worlds /\ Good(EnterFinalizing(w), a)
  <1> DEFINE s == [w EXCEPT !.co.state = "finalizing"]
             r == SendUiStateForActiveDevice(s, "thinking")
  <1> SUFFICES r \in Worlds /\ Good(r, a)
    BY DEF EnterFinalizing
  <1>1. /\ s \in Worlds /\ Same(w, s) /\ s.co.state = "finalizing"
        /\ s.co.device = w.co.device /\ s.co.error = w.co.error
        /\ s.overlay = w.overlay /\ s.posted = w.posted /\ s.shown = w.shown
    BY StateIs DEF States
  <1>2. Others(w) => Others(s)
    BY <1>1 DEF Others, Same, SameRecording
  <1> HIDE DEF s
  <1>3. "thinking" \in Shows
    BY DEF Shows
  <1>4. /\ r \in Worlds /\ Unchanged(s, r) /\ r.overlay = s.overlay /\ r.posted = s.posted
        /\ Others(s) /\ s.co.device # None => Others(r)
    BY <1>1, <1>3, SendIs, SendTellsOthers
  <1> HIDE DEF r
  <1>5. /\ Same(w, r) /\ r.co.state = "finalizing" /\ r.co.device = w.co.device
        /\ r.co.error = w.co.error /\ r.overlay = w.overlay /\ r.posted = w.posted
    BY <1>1, <1>4, SameTwice DEF Unchanged
  <1>6. ErrorsRecover(r)
    BY <1>5 DEF ErrorsRecover, Held
  <1>7. ~w.late => Others(r) /\ (Busy(r) \/ Quiet(w, a))
    BY <1>1, <1>2, <1>4, <1>5 DEF Held, Busy, Same, SameRecording
  <1>8. Held(r, a)
    BY <1>5, <1>6, <1>7, SameHeld
  <1>9. ASSUME ~r.late
        PROVE  EndsBy(r, a, Coming(r)) /\ (r.co.state = "ready" <=> r.co.device = None)
    <2>1. ~w.late
      BY <1>5, <1>9 DEF Same, SameRecording
    <2>2. Awaited(w, a) => Awaited(r, a)
      BY <1>5 DEF Awaited, Same, SameRecording
    <2>3. RecoversBy(w, Coming(w)) => RecoversBy(r, Coming(r))
      BY <1>5 DEF RecoversBy, PostedIn, Coming
    <2>4. EndsBy(r, a, Coming(r))
      BY <1>5, <2>1, <2>2, <2>3 DEF EndsBy
    <2> QED
      BY <1>5, <2>1, <2>4
  <1> QED
    BY <1>4, <1>5, <1>8, <1>9 DEF Good, Same, SameRecording

-----------------------------------------------------------------------------
(* A recording is given up *)

\* What is cancelled when a recording is given up.
GivenUp(w) ==
    IF w.co.state = "ready" THEN {}
    ELSE {IF w.co.pending = "idle" THEN w.cycle ELSE w.co.text}

\* Abandon closes the session and cancels what is recorded or pending.
LEMMA AbandonIs ==
    ASSUME NEW w \in Worlds, NEW a, Held(w, a)
    PROVE  LET r == Abandon(w) IN
           /\ r \in Worlds
           /\ ~r.co.waiting /\ ~r.co.asr_started /\ ~r.co.sent_final /\ ~r.co.pasted_final
           /\ r.co.session = 0 /\ r.co.pending = "idle" /\ r.co.text = 0 /\ r.asr = NoSession
           /\ r.cancelled = w.cancelled \cup GivenUp(w)
           /\ r.co.last = w.co.last /\ r.co.last_device = w.co.last_device
           /\ r.translating = w.translating /\ r.cycle = w.cycle
           /\ r.pastes = w.pastes /\ r.late = w.late /\ r.connected = w.connected
           /\ r.co.state = w.co.state /\ r.co.device = w.co.device /\ r.co.error = w.co.error
           /\ r.overlay = w.overlay /\ r.posted = w.posted /\ r.shown = w.shown
  <1> DEFINE g == w.cancelled \cup GivenUp(w)
             v == [w EXCEPT !.asr = NoSession, !.co.session = 0, !.co.pending = "idle",
                            !.co.text = 0, !.cancelled = g]
             r == FinishRecognitionCycle(v)
  <1>1. Abandon(w) = r
    BY DEF Abandon, GivenUp
  <1>2. GivenUp(w) \subseteq Cycles
    <2>1. w.co.state # "ready" => w.cycle \in Cycles
      BY Bounds DEF Held, Numbered, Worlds, Cycles
    <2>2. w.co.pending # "idle" => w.co.text \in Cycles
      BY DEF Held, MembersAgree, Worlds, Members, Texts
    <2> QED
      BY <2>1, <2>2 DEF GivenUp
  <1>3. g \in SUBSET Cycles
    BY <1>2 DEF Worlds
  <1> HIDE DEF g
  <1>4. NoSession \in AsrSessions /\ 0 \in Texts
    <2>1. FALSE \in BOOLEAN /\ 0 \in Texts
      BY DEF Texts
    <2> QED
      BY <2>1 DEF NoSession, AsrSessions
  <1>5. v \in Worlds
    BY <1>3, <1>4 DEF Worlds, Members
  <1>6. /\ v.co.session = 0 /\ v.co.pending = "idle" /\ v.co.text = 0 /\ v.asr = NoSession
        /\ v.cancelled = g
        /\ v.co.last = w.co.last /\ v.co.last_device = w.co.last_device
        /\ v.translating = w.translating /\ v.cycle = w.cycle
        /\ v.pastes = w.pastes /\ v.late = w.late /\ v.connected = w.connected
        /\ v.co.state = w.co.state /\ v.co.device = w.co.device /\ v.co.error = w.co.error
        /\ v.overlay = w.overlay /\ v.posted = w.posted /\ v.shown = w.shown
    BY DEF Worlds, Members
  <1> HIDE DEF v
  <1>7. /\ r \in Worlds
        /\ ~r.co.waiting /\ ~r.co.asr_started /\ ~r.co.sent_final /\ ~r.co.pasted_final
        /\ r.co.session = v.co.session /\ r.co.text = v.co.text
        /\ r.co.last = v.co.last /\ r.co.last_device = v.co.last_device
        /\ r.co.pending = v.co.pending /\ r.asr = v.asr
        /\ r.translating = v.translating /\ r.cycle = v.cycle /\ r.cancelled = v.cancelled
        /\ r.pastes = v.pastes /\ r.late = v.late /\ r.connected = v.connected
        /\ r.co.state = v.co.state /\ r.co.device = v.co.device /\ r.co.error = v.co.error
        /\ r.overlay = v.overlay /\ r.posted = v.posted /\ r.shown = v.shown
    BY <1>5, FinishIs
  <1> HIDE DEF r
  <1> QED
    BY <1>1, <1>6, <1>7 DEF g

\* Nothing is left of a recording that is given up.
LEMMA AbandonHeld ==
    ASSUME NEW w \in Worlds, NEW a, Held(w, a)
    PROVE  LET r == Abandon(w) IN
           /\ r \in Worlds /\ Held(r, a) /\ (~r.late => Quiet(r, a))
           /\ r.co.session = 0 /\ r.co.text = 0 /\ r.cycle = w.cycle /\ r.late = w.late
           /\ r.co.device = w.co.device /\ r.connected = w.connected
  <1> DEFINE r == Abandon(w)
  <1> SUFFICES /\ r \in Worlds /\ Held(r, a) /\ (~r.late => Quiet(r, a))
               /\ r.co.session = 0 /\ r.co.text = 0 /\ r.cycle = w.cycle /\ r.late = w.late
               /\ r.co.device = w.co.device /\ r.connected = w.connected
    OBVIOUS
  <1>1. /\ r \in Worlds
        /\ ~r.co.waiting /\ ~r.co.asr_started /\ ~r.co.sent_final /\ ~r.co.pasted_final
        /\ r.co.session = 0 /\ r.co.pending = "idle" /\ r.co.text = 0 /\ r.asr = NoSession
        /\ r.cancelled = w.cancelled \cup GivenUp(w)
        /\ r.co.last = w.co.last /\ r.co.last_device = w.co.last_device
        /\ r.translating = w.translating /\ r.cycle = w.cycle
        /\ r.pastes = w.pastes /\ r.late = w.late /\ r.connected = w.connected
        /\ r.co.state = w.co.state /\ r.co.device = w.co.device /\ r.co.error = w.co.error
        /\ r.overlay = w.overlay /\ r.posted = w.posted /\ r.shown = w.shown
    BY AbandonIs
  <1> HIDE DEF r
  <1>2. r.asr.of = 0 /\ ~r.asr.last /\ r.cycle \in Nat
    BY <1>1, Bounds DEF NoSession, Worlds
  <1>3. Numbered(r, a)
    BY <1>1, <1>2 DEF Held, Numbered
  <1>4. TextsApart(r, a)
    <2>1. ASSUME NEW t \in Cycles, Apart(w, a, t)
          PROVE  Apart(r, a, t)
      <3>1. t # 0
        BY Bounds
      <3> QED
        BY <1>1, <1>2, <2>1, <3>1 DEF Apart, Source
    <2> QED
      BY <2>1 DEF Held, TextsApart
  <1>5. MembersAgree(r, a)
    BY <1>1, <1>2 DEF Held, MembersAgree
  <1>6. ErrorsRecover(r)
    BY <1>1 DEF Held, ErrorsRecover
  <1>7. ASSUME ~r.late
        PROVE  Quiet(r, a) /\ OnlyLast(r, a) /\ Stages(r, a) /\ Others(r)
    <2>1. (Busy(w) \/ Quiet(w, a)) /\ OnlyLast(w, a) /\ Stages(w, a) /\ Others(w)
      BY <1>1, <1>7 DEF Held
    <2>2. Busy(w) => w.cycle \in r.cancelled
      BY <1>1 DEF Busy, GivenUp
    <2>3. Quiet(r, a)
      <3>1. CASE Busy(w)
        BY <1>1, <1>2, <2>1, <2>2, <3>1 DEF Quiet, OnlyLast
      <3>2. CASE Quiet(w, a)
        BY <1>1, <1>2, <3>2 DEF Quiet
      <3> QED
        BY <2>1, <3>1, <3>2
    <2>4. OnlyLast(r, a)
      BY <1>1, <1>2, <2>1, <2>3 DEF OnlyLast, Quiet
    <2>5. Stages(r, a)
      BY <1>1, <1>2, <2>3 DEF Stages, Quiet
    <2>6. Others(r)
      BY <1>1, <2>1 DEF Others
    <2> QED
      BY <2>3, <2>4, <2>5, <2>6
  <1> QED
    BY <1>1, <1>3, <1>4, <1>5, <1>6, <1>7 DEF Held

\* CancelRecognitionInProgress and CancelShortRecording.
LEMMA CancelGood ==
    ASSUME NEW w \in Worlds, NEW a, NEW thread, Held(w, a)
    PROVE  LET r == EnterReady(Abandon(w), thread) IN r \in Worlds /\ Good(r, a)
  BY AbandonHeld, EnterReadyGood

\* FinishWithAsrError.
LEMMA AsrErrorGood ==
    ASSUME NEW w \in Worlds, NEW a, NEW thread, Held(w, a), w.cycle # 0,
           ~w.late => w.co.device # None
    PROVE  LET r == FinishWithAsrError(w, thread) IN
           /\ r \in Worlds /\ Good(r, a) /\ r.cycle = w.cycle /\ r.late = w.late
           /\ r.co.error /\ r.co.state = "error" /\ r.co.device = w.co.device
           /\ r.co.session = 0 /\ r.co.text = 0 /\ RecoversBy(r, Coming(r))
  <1> DEFINE s == Abandon(w)
             r == EnterError(s, thread)
  <1>1. /\ s \in Worlds /\ Held(s, a) /\ (~s.late => Quiet(s, a))
        /\ s.co.session = 0 /\ s.co.text = 0 /\ s.cycle = w.cycle /\ s.late = w.late
        /\ s.co.device = w.co.device
    BY AbandonHeld
  <1> HIDE DEF s
  <1>2. /\ r \in Worlds /\ Same(s, r) /\ Good(r, a)
        /\ r.co.error /\ r.co.state = "error" /\ r.co.device = s.co.device
        /\ RecoversBy(r, Coming(r))
    BY <1>1, EnterErrorGood
  <1> HIDE DEF r
  <1>3. /\ r \in Worlds /\ Good(r, a) /\ r.cycle = w.cycle /\ r.late = w.late
        /\ r.co.error /\ r.co.state = "error" /\ r.co.device = w.co.device
        /\ r.co.session = 0 /\ r.co.text = 0 /\ RecoversBy(r, Coming(r))
    BY <1>1, <1>2 DEF Same, SameRecording
  <1> QED
    BY <1>3 DEF FinishWithAsrError, r, s

-----------------------------------------------------------------------------
(* A text that is confirmed *)

\* A text that may be shown for confirmation.
Fresh(w, a, t) ==
    /\ t \in Cycles /\ t <= w.cycle
    /\ ~Source(w, t) /\ a.of # t /\ t \notin w.translating /\ w.pastes[t] = 0

\* The ways a text is pending, and the states.
PendingKinds  == {"waiting", "paused"}
PendingStates == {"pending", "paused"}

WithPending(w, p, t, s) == [w EXCEPT !.co.pending = p, !.co.text = t, !.co.state = s]

\* The text that is pending and its state.
LEMMA PendingIs ==
    ASSUME NEW w \in Worlds, NEW a, NEW t, Fresh(w, a, t), Held(w, a),
           NEW p \in PendingKinds, NEW s \in PendingStates,
           ~w.late => Quiet(w, a) /\ w.co.device # None
    PROVE  LET r == WithPending(w, p, t, s) IN
           /\ r \in Worlds /\ Held(r, a) /\ (~r.late => Quiet(r, a))
           /\ r.co.session = w.co.session /\ r.co.sent_final = w.co.sent_final
           /\ r.co.text = t /\ r.co.state = s /\ r.co.device = w.co.device /\ r.late = w.late
  <1> DEFINE r == WithPending(w, p, t, s)
  <1> SUFFICES /\ r \in Worlds /\ Held(r, a) /\ (~r.late => Quiet(r, a))
               /\ r.co.session = w.co.session /\ r.co.sent_final = w.co.sent_final
               /\ r.co.text = t /\ r.co.state = s /\ r.co.device = w.co.device
               /\ r.late = w.late
    OBVIOUS
  <1>1. t \in Texts /\ t \in Cycles /\ t # 0
    BY Bounds DEF Fresh, Texts
  <1>2. r \in Worlds
    BY <1>1 DEF Worlds, Members, States, PendingKinds, PendingStates, WithPending
  <1>3. /\ r.co.waiting = w.co.waiting /\ r.co.asr_started = w.co.asr_started
        /\ r.co.sent_final = w.co.sent_final /\ r.co.pasted_final = w.co.pasted_final
        /\ r.co.session = w.co.session /\ r.co.pending = p /\ r.co.text = t /\ r.asr = w.asr
        /\ r.co.last = w.co.last /\ r.co.last_device = w.co.last_device
        /\ r.translating = w.translating /\ r.cycle = w.cycle /\ r.cancelled = w.cancelled
        /\ r.pastes = w.pastes /\ r.late = w.late /\ r.connected = w.connected
        /\ r.co.state = s /\ r.co.device = w.co.device
        /\ r.posted = w.posted /\ r.shown = w.shown
    BY DEF Worlds, Members, WithPending
  <1> HIDE DEF r
  <1>4. Numbered(r, a)
    BY <1>1, <1>3, Bounds DEF Held, Numbered, Fresh
  <1>5. TextsApart(r, a)
    <2>1. ASSUME NEW u \in Cycles, Apart(w, a, u)
          PROVE  Apart(r, a, u)
      BY <1>3, <2>1 DEF Apart, Source, Fresh
    <2> QED
      BY <2>1 DEF Held, TextsApart
  <1>6. MembersAgree(r, a)
    BY <1>1, <1>3 DEF Held, MembersAgree, PendingKinds
  <1>7. ErrorsRecover(r)
    BY <1>3 DEF Held, ErrorsRecover
  <1>8. ASSUME ~r.late
        PROVE  Quiet(r, a) /\ OnlyLast(r, a) /\ Stages(r, a) /\ Others(r)
    <2>1. Quiet(w, a) /\ OnlyLast(w, a) /\ Stages(w, a) /\ Others(w)
      BY <1>3, <1>8 DEF Held
    <2> QED
      BY <1>3, <2>1 DEF Quiet, OnlyLast, Stages, Others
  <1> QED
    BY <1>2, <1>3, <1>4, <1>5, <1>6, <1>7, <1>8 DEF Held

\* EnterPendingConfirmation and EnterPausedConfirmation.
LEMMA ConfirmationGood ==
    ASSUME NEW w \in Worlds, NEW a, NEW thread, NEW t, Fresh(w, a, t), Held(w, a),
           w.co.session # 0 => ~w.co.sent_final,
           ~w.late => Quiet(w, a) /\ w.co.device # None
    PROVE  /\ EnterPendingConfirmation(w, thread, t) \in Worlds
           /\ Good(EnterPendingConfirmation(w, thread, t), a)
           /\ EnterPausedConfirmation(w, thread, t) \in Worlds
           /\ Good(EnterPausedConfirmation(w, thread, t), a)
  <1>1. CommitOf(t) \in Callbacks /\ NoCallback \in Callbacks
    BY CallbacksDiffer DEF Fresh
  <1>2. ASSUME NEW p \in PendingKinds, NEW s \in PendingStates,
               NEW display \in {"countdown", "paused"}, NEW c \in Callbacks,
               s = "pending" => display = "countdown" /\ c = CommitOf(t)
        PROVE  LET v == WithPending(w, p, t, s)
                   r == SendUiStateForActiveDevice(DispatchToUi(v, thread, display, c),
                                                   "pending")
               IN  r \in Worlds /\ Good(r, a)
    <2> DEFINE v == WithPending(w, p, t, s)
               u == DispatchToUi(v, thread, display, c)
               r == SendUiStateForActiveDevice(u, "pending")
    <2> SUFFICES r \in Worlds /\ Good(r, a)
      OBVIOUS
    <2>1. /\ v \in Worlds /\ Held(v, a) /\ (~v.late => Quiet(v, a))
          /\ v.co.session = w.co.session /\ v.co.sent_final = w.co.sent_final
          /\ v.co.text = t /\ v.co.state = s /\ v.co.device = w.co.device /\ v.late = w.late
      BY PendingIs
    <2> HIDE DEF v
    <2>2. display \in OverlayModes \ {"hidden"} /\ display # "error"
      BY DEF OverlayModes
    <2>3. /\ u \in Worlds /\ Unchanged(v, u) /\ u.shown = v.shown
          /\ ErrorsRecover(v) => ErrorsRecover(u)
          /\ display \in {"countdown", "error"} => PostedIn(u, display) \/ Coming(u) = c
      BY <1>2, <2>1, <2>2, ShowIs
    <2> HIDE DEF u
    <2>4. (Others(v) => Others(u)) /\ ErrorsRecover(u) /\ u.co.device = w.co.device
      BY <2>1, <2>3 DEF Others, Unchanged, Same, SameRecording, Held
    <2>5. "pending" \in Shows
      BY DEF Shows
    <2>6. /\ r \in Worlds /\ Unchanged(u, r) /\ r.overlay = u.overlay /\ r.posted = u.posted
          /\ Others(u) /\ u.co.device # None => Others(r)
      BY <2>3, <2>5, SendIs, SendTellsOthers
    <2> HIDE DEF r
    <2>7. /\ Same(v, r) /\ r.co.state = s /\ r.co.device = w.co.device /\ r.co.text = t
          /\ r.co.session = w.co.session /\ r.co.sent_final = w.co.sent_final
          /\ r.late = w.late
      BY <2>1, <2>3, <2>6, SameTwice DEF Unchanged, Same, SameRecording
    <2>8. ErrorsRecover(r)
      BY <2>4, <2>6 DEF ErrorsRecover
    <2>9. ~v.late => Others(r) /\ Quiet(v, a)
      BY <2>1, <2>4, <2>6 DEF Held
    <2>10. s # "ready" /\ s # "finalizing" /\ s # "error"
      BY DEF PendingStates
    <2>11. v.cycle # 0
      BY <2>1, <2>10 DEF Held, Numbered
    <2>12. Held(r, a)
      BY <2>1, <2>7, <2>8, <2>9, <2>11, SameHeld
    <2>13. EndsBy(r, a, Coming(r))
      BY <1>2, <2>3, <2>6, <2>7, <2>10 DEF EndsBy, PostedIn, Coming
    <2> QED
      BY <2>6, <2>7, <2>10, <2>12, <2>13 DEF Good
  <1>3. /\ EnterPendingConfirmation(w, thread, t) \in Worlds
        /\ Good(EnterPendingConfirmation(w, thread, t), a)
    BY <1>1, <1>2 DEF PendingKinds, PendingStates, WithPending, EnterPendingConfirmation
  <1>4. /\ EnterPausedConfirmation(w, thread, t) \in Worlds
        /\ Good(EnterPausedConfirmation(w, thread, t), a)
    BY <1>1, <1>2 DEF PendingKinds, PendingStates, WithPending, EnterPausedConfirmation
  <1> QED
    BY <1>3, <1>4

-----------------------------------------------------------------------------
(* The callbacks of the overlay *)

\* FinishRecognitionCycle with nothing pending any more.
Cleared(w, r) ==
    /\ ~r.co.waiting /\ ~r.co.asr_started /\ ~r.co.sent_final /\ ~r.co.pasted_final
    /\ r.co.pending = "idle" /\ r.co.text = 0
    /\ r.co.session = w.co.session /\ r.asr = w.asr
    /\ w.cancelled \subseteq r.cancelled
    /\ r.co.last = w.co.last /\ r.co.last_device = w.co.last_device
    /\ r.translating = w.translating /\ r.cycle = w.cycle
    /\ r.pastes = w.pastes /\ r.late = w.late /\ r.connected = w.connected
    /\ r.co.state = w.co.state /\ r.co.device = w.co.device /\ r.co.error = w.co.error
    /\ r.overlay = w.overlay /\ r.posted = w.posted /\ r.shown = w.shown

\* A recording whose text is done is still told apart from the others.
LEMMA ClearedHeld ==
    ASSUME NEW w \in Worlds, NEW r, NEW a, Held(w, a), Cleared(w, r), ~w.late => Quiet(w, a)
    PROVE  Held(r, a) /\ (~r.late => Quiet(r, a))
  <1>1. r.cycle \in Nat
    BY Bounds DEF Cleared, Worlds
  <1>2. Numbered(r, a)
    BY <1>1 DEF Held, Numbered, Cleared
  <1>3. TextsApart(r, a)
    <2>1. ASSUME NEW t \in Cycles, Apart(w, a, t)
          PROVE  Apart(r, a, t)
      <3>1. t # 0
        BY Bounds
      <3> QED
        BY <2>1, <3>1 DEF Apart, Source, Cleared
    <2> QED
      BY <2>1 DEF Held, TextsApart
  <1>4. MembersAgree(r, a)
    BY DEF Held, MembersAgree, Cleared
  <1>5. ErrorsRecover(r)
    BY DEF Held, ErrorsRecover, Cleared
  <1>6. ASSUME ~r.late
        PROVE  Quiet(r, a) /\ OnlyLast(r, a) /\ Stages(r, a) /\ Others(r)
    <2>1. Quiet(w, a) /\ OnlyLast(w, a) /\ Stages(w, a) /\ Others(w)
      BY <1>6 DEF Held, Cleared
    <2>2. Quiet(r, a)
      BY <2>1 DEF Quiet, Cleared
    <2>3. OnlyLast(r, a)
      BY <2>1, <2>2 DEF Quiet, OnlyLast, Cleared
    <2>4. Stages(r, a)
      BY <2>2 DEF Quiet, Stages, Cleared
    <2>5. Others(r)
      BY <2>1 DEF Others, Cleared
    <2> QED
      BY <2>2, <2>3, <2>4, <2>5
  <1> QED
    BY <1>2, <1>3, <1>4, <1>5, <1>6 DEF Held

\* No text is pending.
WithoutText(w) == [w EXCEPT !.co.pending = "idle", !.co.text = 0]

\* FinishRecognitionCycle closes what a recording without a text holds.
LEMMA WithoutTextIs ==
    ASSUME NEW w \in Worlds
    PROVE  LET r == FinishRecognitionCycle(WithoutText(w)) IN r \in Worlds /\ Cleared(w, r)
  <1> DEFINE v == WithoutText(w)
             r == FinishRecognitionCycle(v)
  <1> SUFFICES r \in Worlds /\ Cleared(w, r)
    OBVIOUS
  <1>1. v \in Worlds
    BY Bounds DEF Worlds, Members, WithoutText
  <1>2. /\ v.co.session = w.co.session /\ v.co.pending = "idle" /\ v.co.text = 0
        /\ v.asr = w.asr /\ v.cancelled = w.cancelled
        /\ v.co.last = w.co.last /\ v.co.last_device = w.co.last_device
        /\ v.translating = w.translating /\ v.cycle = w.cycle
        /\ v.pastes = w.pastes /\ v.late = w.late /\ v.connected = w.connected
        /\ v.co.state = w.co.state /\ v.co.device = w.co.device /\ v.co.error = w.co.error
        /\ v.overlay = w.overlay /\ v.posted = w.posted /\ v.shown = w.shown
    BY DEF Worlds, Members, WithoutText
  <1> HIDE DEF v
  <1>3. /\ r \in Worlds
        /\ ~r.co.waiting /\ ~r.co.asr_started /\ ~r.co.sent_final /\ ~r.co.pasted_final
        /\ r.co.session = v.co.session /\ r.co.text = v.co.text
        /\ r.co.last = v.co.last /\ r.co.last_device = v.co.last_device
        /\ r.co.pending = v.co.pending /\ r.asr = v.asr
        /\ r.translating = v.translating /\ r.cycle = v.cycle /\ r.cancelled = v.cancelled
        /\ r.pastes = v.pastes /\ r.late = v.late /\ r.connected = v.connected
        /\ r.co.state = v.co.state /\ r.co.device = v.co.device /\ r.co.error = v.co.error
        /\ r.overlay = v.overlay /\ r.posted = v.posted /\ r.shown = v.shown
    BY <1>1, FinishIs
  <1> HIDE DEF r
  <1> QED
    BY <1>2, <1>3 DEF Cleared

\* A text is pasted that was not pasted yet.
Pasted(w, t) == [w EXCEPT !.pastes[t] = IF @ < 2 THEN @ + 1 ELSE @]

\* Pasting a text nobody else comes from keeps the rest.
LEMMA PastedGood ==
    ASSUME NEW w \in Worlds, NEW a, NEW t \in Cycles, Good(w, a), w.co.text = 0,
           t <= w.cycle, w.pastes[t] = 0,
           ~Source(w, t) /\ a.of # t /\ t \notin w.translating
    PROVE  Pasted(w, t) \in Worlds /\ Good(Pasted(w, t), a)
  <1> DEFINE r == Pasted(w, t)
  <1> SUFFICES r \in Worlds /\ Good(r, a)
    OBVIOUS
  <1>1. w.pastes \in [Cycles -> 0..2]
    BY DEF Worlds
  <1>2. r \in Worlds
    <2> DEFINE p == [w.pastes EXCEPT ![t] = IF @ < 2 THEN @ + 1 ELSE @]
    <2>1. w.pastes[t] + 1 = 1 /\ w.pastes[t] < 2
      OBVIOUS
    <2>2. p \in [Cycles -> 0..2]
      BY <1>1, <2>1
    <2> HIDE DEF p
    <2>3. [w EXCEPT !.pastes = p] \in Worlds
      BY <2>2 DEF Worlds
    <2> QED
      BY <2>3 DEF Pasted, p
  <1>3. r.pastes = [w.pastes EXCEPT ![t] = 1]
    BY <1>1 DEF Worlds, Pasted
  <1>4. /\ r.co = w.co /\ r.overlay = w.overlay /\ r.posted = w.posted /\ r.asr = w.asr
        /\ r.translating = w.translating /\ r.connected = w.connected /\ r.shown = w.shown
        /\ r.cycle = w.cycle /\ r.cancelled = w.cancelled /\ r.late = w.late
    BY DEF Worlds, Pasted
  <1> HIDE DEF r
  <1>5. \A u \in Cycles : r.pastes[u] = IF u = t THEN 1 ELSE w.pastes[u]
    BY <1>1, <1>3
  <1>6. Numbered(r, a)
    <2>1. ASSUME NEW u \in Cycles, u > w.cycle
          PROVE  r.pastes[u] = 0
      <3>1. u # t
        BY <2>1, Bounds DEF Worlds
      <3> QED
        BY <1>5, <2>1, <3>1 DEF Good, Held, Numbered
    <2> QED
      BY <1>4, <2>1 DEF Good, Held, Numbered
  <1>7. TextsApart(r, a)
    <2>1. ASSUME NEW u \in Cycles, Apart(w, a, u)
          PROVE  Apart(r, a, u)
      <3>1. CASE u = t
        BY <1>4, <1>5, <2>1, <3>1, Bounds DEF Apart, Source
      <3>2. CASE u # t
        BY <1>4, <1>5, <2>1, <3>2 DEF Apart, Source
      <3> QED
        BY <3>1, <3>2
    <2> QED
      BY <2>1 DEF Good, Held, TextsApart
  <1>8. MembersAgree(r, a) /\ ErrorsRecover(r)
    BY <1>4 DEF Good, Held, MembersAgree, ErrorsRecover
  <1>9. ASSUME ~r.late
        PROVE  /\ Busy(r) \/ Quiet(r, a)
               /\ OnlyLast(r, a) /\ Stages(r, a) /\ Others(r)
    BY <1>4, <1>9 DEF Good, Held, Busy, Quiet, OnlyLast, Stages, Others
  <1>10. Held(r, a)
    BY <1>6, <1>7, <1>8, <1>9 DEF Held
  <1>11. EndsBy(w, a, Coming(w)) => EndsBy(r, a, Coming(r))
    BY <1>4 DEF EndsBy, Coming, RecoversBy, PostedIn, Awaited
  <1> QED
    BY <1>2, <1>4, <1>10, <1>11 DEF Good

\* CompletePendingPaste, of the text that is pending.
LEMMA CompleteGood ==
    ASSUME NEW w \in Worlds, NEW a, Held(w, a), w.co.text # 0
    PROVE  LET r == CompletePendingPaste(w, w.co.text) IN r \in Worlds /\ Good(r, a)
  <1> DEFINE t == w.co.text
             f == FinishRecognitionCycle(WithoutText(w))
             e == EnterReadyShown(f)
  <1>1. t \in Cycles /\ t <= w.cycle
    BY DEF Worlds, Members, Texts, Held, Numbered
  <1>2. /\ ~Source(w, t) /\ a.of # t /\ t \notin w.translating /\ w.pastes[t] = 0
    <2>1. Apart(w, a, t)
      BY <1>1 DEF Held, TextsApart
    <2> QED
      BY <2>1 DEF Apart
  <1>3. ~w.late => Quiet(w, a)
    BY DEF Held, Busy, MembersAgree
  <1>4. f \in Worlds /\ Cleared(w, f)
    BY WithoutTextIs
  <1> HIDE DEF f
  <1>5. Held(f, a) /\ (~f.late => Quiet(f, a)) /\ ~f.co.sent_final
    BY <1>3, <1>4, ClearedHeld DEF Cleared
  <1>6. /\ e \in Worlds /\ Same(f, e) /\ e.co.state = "ready" /\ e.co.device = None
        /\ e.posted = f.posted /\ (Others(f) => Others(e))
    BY <1>4, ReadyShownIs, AllReadyOthers
  <1> HIDE DEF e
  <1>7. ErrorsRecover(e)
    BY <1>5, <1>6 DEF Held, ErrorsRecover
  <1>8. Good(e, a)
    BY <1>5, <1>6, <1>7, SettledGood
  <1>9. /\ e.co.text = 0 /\ t <= e.cycle /\ e.pastes[t] = 0
        /\ ~Source(e, t) /\ a.of # t /\ t \notin e.translating
    BY <1>1, <1>2, <1>4, <1>6 DEF Cleared, Same, SameRecording, Source
  <1>10. Pasted(e, t) \in Worlds /\ Good(Pasted(e, t), a)
    BY <1>1, <1>6, <1>8, <1>9, PastedGood
  <1>11. CompletePendingPaste(w, t) = Pasted(e, t)
    BY DEF CompletePendingPaste, Pasted, e, f, WithoutText
  <1> QED
    BY <1>10, <1>11

\* The handlers that only show something keep who ends what is going on.
LEMMA EndsByKept ==
    ASSUME NEW w, NEW r, NEW a, NEW callback, Unchanged(w, r), EndsBy(w, a, callback),
           \A m \in OverlayModes : PostedIn(w, m) => PostedIn(r, m)
    PROVE  EndsBy(r, a, callback)
  <1>1. "error" \in OverlayModes /\ "countdown" \in OverlayModes
    BY DEF OverlayModes
  <1>2. RecoversBy(w, callback) => RecoversBy(r, callback)
    BY <1>1 DEF RecoversBy, Unchanged
  <1>3. Awaited(w, a) => Awaited(r, a)
    BY DEF Awaited, Unchanged, Same, SameRecording
  <1> QED
    BY <1>1, <1>2, <1>3 DEF EndsBy, Unchanged, Same, SameRecording

\* The callback of the overlay runs, and nothing else of it is left.
LEMMA RunGood ==
    ASSUME NEW w \in Worlds, NEW a, NEW c \in Callbacks, Held(w, a),
           w.co.session # 0 => ~w.co.sent_final, Coming(w) = NoCallback,
           ~w.late => EndsBy(w, a, c) /\ (w.co.state = "ready" <=> w.co.device = None)
    PROVE  Run(w, c) \in Worlds /\ Good(Run(w, c), a)
  <1>1. CASE c.run = "commit" /\ c.text = w.co.text
    <2>1. c.text # 0
      BY <1>1, CallbacksDiffer, Bounds
    <2>2. Run(w, c) = CompletePendingPaste(w, w.co.text)
      BY <1>1 DEF Run, CommitPendingPaste
    <2> QED
      BY <1>1, <2>1, <2>2, CompleteGood
  <1>2. CASE c.run = "recover" /\ w.co.error
    <2> DEFINE r == RecoverFromAsrError(w)
    <2>1. Run(w, c) = r
      BY <1>2 DEF Run
    <2>2. /\ r \in Worlds /\ Same(w, r) /\ r.posted = w.posted
          /\ r.co.state = "ready" /\ r.co.device = None /\ (Others(w) => Others(r))
      BY <1>2, RecoverIs
    <2> HIDE DEF r
    <2>3. ErrorsRecover(r)
      BY <2>2 DEF Held, ErrorsRecover
    <2>4. ~w.late => Quiet(w, a)
      BY <1>2 DEF Held, Busy
    <2>5. Good(r, a)
      BY <2>2, <2>3, <2>4, SettledGood
    <2> QED
      BY <2>1, <2>2, <2>5
  <1>3. CASE ~(c.run = "commit" /\ c.text = w.co.text) /\ ~(c.run = "recover" /\ w.co.error)
    <2>1. Run(w, c) = w
      BY <1>3 DEF Run, CommitPendingPaste, RecoverFromAsrError
    <2>2. c # CommitOf(w.co.text)
      BY <1>3 DEF CommitOf
    <2>3. c = RecoverIt => ~w.co.error
      BY <1>3, CallbacksDiffer
    <2>4. EndsBy(w, a, c) => EndsBy(w, a, NoCallback)
      BY <2>2, <2>3 DEF EndsBy, RecoversBy
    <2> QED
      BY <2>1, <2>4 DEF Good
  <1> QED
    BY <1>1, <1>2, <1>3

\* OverlayWindow::Hide, of what is shown and of what the front button brings.
LEMMA HideGood ==
    ASSUME NEW w \in Worlds, NEW a, Held(w, a), w.co.session # 0 => ~w.co.sent_final,
           NEW c \in Callbacks,
           ~w.late => /\ EndsBy(w, a, IF c = NoCallback THEN w.overlay.callback ELSE c)
                      /\ w.co.state = "ready" <=> w.co.device = None
    PROVE  Hide(w, c) \in Worlds /\ Good(Hide(w, c), a)
  <1> DEFINE h == [w EXCEPT !.overlay = [mode |-> "hidden", callback |-> NoCallback,
                                         timer |-> FALSE]]
             b == IF c = NoCallback THEN w.overlay.callback ELSE c
  <1>1. Hide(w, c) = Run(h, b)
    BY DEF Hide
  <1>2. b \in Callbacks
    BY DEF Worlds, OverlayState
  <1>3. /\ h \in Worlds /\ Unchanged(w, h) /\ h.shown = w.shown /\ h.posted = w.posted
        /\ Coming(h) = NoCallback
    BY OverlayHiddenIs
  <1> HIDE DEF h, b
  <1>4. /\ ErrorsRecover(h) /\ (Others(w) => Others(h)) /\ (Busy(w) => Busy(h))
        /\ \A m \in OverlayModes : PostedIn(w, m) => PostedIn(h, m)
    BY <1>3 DEF ErrorsRecover, Held, Others, Busy, PostedIn, Unchanged, Same, SameRecording
  <1>5. h.co.state # "ready" => w.cycle # 0
    BY <1>3 DEF Unchanged, Held, Numbered
  <1>6. ~w.late => Others(h) /\ (Busy(h) \/ Quiet(w, a))
    BY <1>4 DEF Held
  <1>7. Held(h, a)
    BY <1>3, <1>4, <1>5, <1>6, SameHeld DEF Unchanged
  <1>8. EndsBy(w, a, b) => EndsBy(h, a, b)
    BY <1>3, <1>4, EndsByKept
  <1>9. h.co.session # 0 => ~h.co.sent_final
    BY <1>3 DEF Unchanged, Same, SameRecording
  <1>10. ~h.late => EndsBy(h, a, b) /\ (h.co.state = "ready" <=> h.co.device = None)
    BY <1>3, <1>8 DEF Unchanged, Same, b
  <1> QED
    BY <1>1, <1>2, <1>3, <1>7, <1>9, <1>10, RunGood

\* OverlayWindow::OnTimer.
LEMMA TimerGood ==
    ASSUME NEW w \in Worlds, NEW a, Good(w, a), w.overlay.timer
    PROVE  Hide(w, NoCallback) \in Worlds /\ Good(Hide(w, NoCallback), a)
  <1>1. NoCallback \in Callbacks /\ Coming(w) = w.overlay.callback
    BY CallbacksDiffer DEF Coming
  <1>2. /\ Held(w, a) /\ (w.co.session # 0 => ~w.co.sent_final)
        /\ ~w.late => EndsBy(w, a, Coming(w)) /\ (w.co.state = "ready" <=> w.co.device = None)
    BY DEF Good
  <1> QED
    BY <1>1, <1>2, HideGood

\* HandleFrontButtonDuringPendingPaste.
LEMMA FrontButtonGood ==
    ASSUME NEW w \in Worlds, NEW a, Good(w, a), w.co.pending # "idle", NEW d \in Devices
    PROVE  LET r == HandleFrontButtonDuringPendingPaste(w, d) IN r \in Worlds /\ Good(r, a)
  <1> DEFINE t == w.co.text
  <1>1. t \in Cycles /\ t # 0 /\ t <= w.cycle
    BY DEF Good, Held, MembersAgree, Numbered, Worlds, Members, Texts
  <1>2. d # None
    BY Bounds
  <1>3. Held(w, a) /\ (w.co.session # 0 => ~w.co.sent_final)
    BY DEF Good
  <1>4. ~w.late => Quiet(w, a)
    BY <1>3 DEF Held, Busy
  <1>5. CASE w.co.device # d
    BY <1>5 DEF HandleFrontButtonDuringPendingPaste
  <1>6. CASE w.co.device = d /\ w.co.pending = "waiting"
    <2>1. Apart(w, a, t)
      BY <1>1, <1>3 DEF Held, TextsApart
    <2>2. Fresh(w, a, t)
      BY <1>1, <2>1 DEF Fresh, Apart
    <2>3. HandleFrontButtonDuringPendingPaste(w, d) = EnterPausedConfirmation(w, "ui", t)
      BY <1>6 DEF HandleFrontButtonDuringPendingPaste
    <2> HIDE DEF t
    <2> QED
      BY <1>2, <1>3, <1>4, <1>6, <2>2, <2>3, ConfirmationGood
  <1>7. CASE w.co.device = d /\ w.co.pending # "waiting"
    <2> DEFINE h == [w EXCEPT !.overlay = [mode |-> "hidden", callback |-> NoCallback,
                                           timer |-> FALSE]]
    <2>1. CommitOf(t) # NoCallback /\ CommitOf(t).run = "commit" /\ CommitOf(t).text = t
      BY <1>1, CallbacksDiffer
    <2>2. /\ h \in Worlds /\ Unchanged(w, h) /\ h.shown = w.shown /\ h.posted = w.posted
      BY OverlayHiddenIs
    <2>3. HandleFrontButtonDuringPendingPaste(w, d) = Run(h, CommitOf(t))
      BY <1>7, <2>1 DEF HandleFrontButtonDuringPendingPaste, Hide
    <2> HIDE DEF h
    <2>4. h.co.text = t
      BY <2>2 DEF Unchanged, Same, SameRecording
    <2>5. Run(h, CommitOf(t)) = CompletePendingPaste(h, h.co.text)
      BY <2>1, <2>4 DEF Run, CommitPendingPaste
    <2>6. /\ ErrorsRecover(h) /\ (Others(w) => Others(h))
          /\ h.co.state # "ready" => w.cycle # 0
      BY <1>3, <2>2
         DEF ErrorsRecover, Held, Others, Numbered, Unchanged, Same, SameRecording
    <2>7. ~w.late => Others(h) /\ Quiet(w, a)
      BY <1>3, <1>4, <2>6 DEF Held
    <2>8. Held(h, a)
      BY <1>3, <2>2, <2>6, <2>7, SameHeld DEF Unchanged
    <2> QED
      BY <1>1, <2>2, <2>3, <2>4, <2>5, <2>8, CompleteGood
  <1> QED
    BY <1>5, <1>6, <1>7

-----------------------------------------------------------------------------
(* The calls that are posted *)

\* A call is taken that may be out of date.
Popped(w, out) == [w EXCEPT !.posted = Tail(@), !.late = @ \/ out]

\* A call that still fits.
Current(w, call) ==
    /\ call.mode = "countdown" => w.co.state = "pending" /\ call.callback = CommitOf(w.co.text)
    /\ call.mode = "error" => w.co.error /\ w.co.state \in {"error", "finalizing"}
    /\ call.mode = "listening" => w.co.state \in {"recording", "finalizing"} /\ ~w.co.error
    /\ call.mode \in {"hidden", "paused"} => w.co.state = "ready"

\* What a call taken from the queue leaves behind, out of date or not.
LEMMA PoppedIs ==
    ASSUME NEW w \in Worlds, NEW a, Good(w, a), w.posted # <<>>, NEW out \in BOOLEAN
    PROVE  LET r == Popped(w, out)
               call == Head(w.posted)
           IN  /\ r \in Worlds /\ Held(r, a) /\ (r.co.session # 0 => ~r.co.sent_final)
               /\ r.co = w.co /\ (r.late <=> w.late \/ out)
               /\ r.asr = w.asr /\ r.translating = w.translating /\ r.overlay = w.overlay
               /\ \A m \in OverlayModes : PostedIn(w, m) /\ m # call.mode => PostedIn(r, m)
               /\ call \in Calls /\ (call.mode = "error" => call.callback = RecoverIt)
  <1> DEFINE q == w.posted
             p == Tail(q)
             l == w.late \/ out
             call == Head(q)
             r == [w EXCEPT !.posted = p, !.late = l]
  <1>1. q \in Seq(Calls) /\ q # <<>>
    BY DEF Worlds
  <1>2. ErrorsRecover(w)
    BY DEF Good, Held
  <1>3. w.late \in BOOLEAN /\ l \in BOOLEAN
    BY DEF Worlds
  <1> SUFFICES /\ r \in Worlds /\ Held(r, a) /\ (r.co.session # 0 => ~r.co.sent_final)
               /\ r.co = w.co /\ (r.late <=> w.late \/ out)
               /\ r.asr = w.asr /\ r.translating = w.translating /\ r.overlay = w.overlay
               /\ \A m \in OverlayModes : PostedIn(w, m) /\ m # call.mode => PostedIn(r, m)
               /\ call \in Calls /\ (call.mode = "error" => call.callback = RecoverIt)
    BY DEF Popped
  <1> HIDE DEF q
  <1>4. /\ p \in Seq(Calls) /\ Len(p) = Len(q) - 1 /\ Len(q) \in Nat /\ Len(q) > 0
        /\ call = q[1] /\ q[1] \in Calls /\ \A i \in 1..Len(p) : p[i] = q[i + 1]
    BY <1>1
  <1> HIDE DEF p, call
  <1>5. r \in Worlds
    BY <1>3, <1>4 DEF Worlds
  <1>6. /\ r.posted = p /\ r.late = l /\ SameRecording(w, r) /\ r.shown = w.shown
        /\ r.co = w.co /\ r.overlay = w.overlay /\ r.connected = w.connected
    BY DEF Worlds, SameRecording
  <1> HIDE DEF r
  <1>7. ErrorsRecover(r)
    <2>1. ASSUME NEW i \in 1..Len(p)
          PROVE  i + 1 \in 1..Len(q)
      BY <1>4
    <2> QED
      BY <1>2, <1>4, <1>6, <2>1 DEF ErrorsRecover, q
  <1>8. ASSUME NEW m \in OverlayModes, PostedIn(w, m), m # call.mode
        PROVE  PostedIn(r, m)
    <2>1. PICK i \in 1..Len(q) : q[i].mode = m
      BY <1>8 DEF PostedIn, q
    <2>2. i # 1
      BY <1>4, <1>8, <2>1
    <2>3. i - 1 \in 1..Len(p) /\ (i - 1) + 1 = i
      BY <1>4, <2>2
    <2>4. p[i - 1] = q[i]
      BY <1>4, <2>3
    <2> QED
      BY <1>6, <2>1, <2>3, <2>4 DEF PostedIn
  <1>9. call.mode = "error" => call.callback = RecoverIt
    <2>1. 1 \in 1..Len(q)
      BY <1>4
    <2> QED
      BY <1>2, <1>4, <2>1 DEF ErrorsRecover, q
  <1>10. r.co.state # "ready" => w.cycle # 0
    BY <1>6 DEF Good, Held, Numbered
  <1>11. ~r.late => Others(r) /\ (Busy(r) \/ Quiet(w, a))
    BY <1>6 DEF Good, Held, Others, Busy, SameRecording
  <1>12. Held(r, a)
    BY <1>6, <1>7, <1>10, <1>11, LaterHeld DEF Good
  <1>13. r.co.session # 0 => ~r.co.sent_final
    BY <1>6 DEF Good
  <1> QED
    BY <1>4, <1>5, <1>6, <1>8, <1>9, <1>12, <1>13 DEF SameRecording

\* kUiDispatchMessage.
LEMMA PerformGood ==
    ASSUME NEW w \in Worlds, NEW a, Good(w, a), w.posted # <<>>, NEW out \in BOOLEAN,
           ~out => Current(w, Head(w.posted))
    PROVE  LET r == Perform(Popped(w, out), Head(w.posted)) IN r \in Worlds /\ Good(r, a)
  <1> DEFINE p == Popped(w, out)
             call == Head(w.posted)
             r == DispatchToUi(p, "ui", call.mode, call.callback)
  <1>1. /\ p \in Worlds /\ Held(p, a) /\ (p.co.session # 0 => ~p.co.sent_final)
        /\ p.co = w.co /\ (p.late <=> w.late \/ out)
        /\ p.asr = w.asr /\ p.translating = w.translating /\ p.overlay = w.overlay
        /\ \A m \in OverlayModes : PostedIn(w, m) /\ m # call.mode => PostedIn(p, m)
        /\ call \in Calls /\ (call.mode = "error" => call.callback = RecoverIt)
    BY PoppedIs
  <1>2. ~p.late => /\ EndsBy(w, a, Coming(w)) /\ (w.co.state = "ready" <=> w.co.device = None)
                   /\ Current(w, call)
    BY <1>1 DEF Good
  <1> HIDE DEF p, call
  <1>3. call.mode \in OverlayModes /\ call.callback \in Callbacks
    BY <1>1 DEF Calls
  <1>4. CASE call.mode = "hidden"
    <2>1. Perform(p, call) = Hide(p, call.callback)
      BY <1>4 DEF Perform
    <2>2. ~p.late => /\ \A c : EndsBy(p, a, c)
                     /\ p.co.state = "ready" <=> p.co.device = None
      BY <1>1, <1>2, <1>4 DEF EndsBy, Current
    <2>3. Hide(p, call.callback) \in Worlds /\ Good(Hide(p, call.callback), a)
      BY <1>1, <1>3, <2>2, HideGood
    <2> QED
      BY <2>1, <2>3 DEF p, call
  <1>5. CASE call.mode # "hidden"
    <2>1. Perform(p, call) = r
      BY <1>5 DEF Perform, DispatchToUi
    <2>2. /\ r \in Worlds /\ Unchanged(p, r) /\ r.shown = p.shown
          /\ ErrorsRecover(p) => ErrorsRecover(r)
          /\ \A m \in OverlayModes : PostedIn(p, m) => PostedIn(r, m)
          /\ call.mode \in {"countdown", "error"} =>
                PostedIn(r, call.mode) \/ Coming(r) = call.callback
      <3> DEFINE display == call.mode
                 callback == call.callback
      <3>1. /\ p \in Worlds /\ display \in OverlayModes \ {"hidden"} /\ callback \in Callbacks
            /\ display = "error" => callback = RecoverIt
        BY <1>1, <1>3, <1>5
      <3> HIDE DEF display, callback
      <3>2. /\ r \in Worlds /\ Unchanged(p, r) /\ r.shown = p.shown
            /\ ErrorsRecover(p) => ErrorsRecover(r)
            /\ \A m \in OverlayModes : PostedIn(p, m) => PostedIn(r, m)
            /\ display \in {"countdown", "error"} =>
                  PostedIn(r, display) \/ Coming(r) = callback
        BY <3>1, ShowIs DEF display, callback
      <3> QED
        BY <3>2 DEF display, callback
    <2> HIDE DEF r
    <2>3. /\ ErrorsRecover(r) /\ (Others(p) => Others(r)) /\ (Busy(p) => Busy(r))
          /\ r.co.state # "ready" => p.cycle # 0
      BY <1>1, <2>2
         DEF Held, Numbered, Others, Busy, Unchanged, Same, SameRecording
    <2>4. ~p.late => Others(r) /\ (Busy(r) \/ Quiet(p, a))
      BY <1>1, <2>3 DEF Held
    <2>5. Held(r, a)
      BY <1>1, <2>2, <2>3, <2>4, SameHeld DEF Unchanged
    <2>6. ASSUME ~p.late
          PROVE  EndsBy(r, a, Coming(r)) /\ (r.co.state = "ready" <=> r.co.device = None)
      <3>1. /\ r.co.state = w.co.state /\ r.co.device = w.co.device
            /\ r.co.error = w.co.error /\ r.co.text = w.co.text
            /\ r.co.waiting = w.co.waiting /\ r.co.session = w.co.session
            /\ r.asr = w.asr /\ r.translating = w.translating
        BY <1>1, <2>2 DEF Unchanged, Same, SameRecording
      <3> SUFFICES EndsBy(r, a, Coming(r))
        BY <1>2, <2>6, <3>1
      <3>2. EndsBy(w, a, Coming(w)) /\ Current(w, call)
        BY <1>2, <2>6
      <3>3. Awaited(w, a) <=> Awaited(r, a)
        BY <3>1 DEF Awaited
      <3>4. CASE call.mode = "countdown"
        BY <1>1, <2>2, <3>1, <3>2, <3>4 DEF EndsBy, Current
      <3>5. CASE call.mode = "error"
        <4>1. RecoversBy(r, Coming(r))
          BY <1>1, <2>2, <3>1, <3>2, <3>5 DEF RecoversBy, Current
        <4> QED
          BY <3>1, <3>2, <3>5, <4>1 DEF EndsBy, Current
      <3>6. CASE call.mode = "listening"
        BY <3>1, <3>2, <3>3, <3>6 DEF EndsBy, RecoversBy, Current
      <3>7. CASE call.mode = "paused"
        BY <3>1, <3>2, <3>7 DEF EndsBy, Current
      <3> QED
        BY <1>3, <1>5, <3>4, <3>5, <3>6, <3>7 DEF OverlayModes
    <2>7. r.co.session # 0 => ~r.co.sent_final
      BY <1>1, <2>2 DEF Unchanged, Same, SameRecording
    <2>8. Good(r, a)
      BY <2>2, <2>5, <2>6, <2>7 DEF Good, Unchanged, Same
    <2> QED
      BY <2>1, <2>2, <2>8 DEF p, call
  <1> QED
    BY <1>4, <1>5

-----------------------------------------------------------------------------
(* Audio *)

\* A handler that leaves the overlay and the recording alone.
LEMMA GoodKept ==
    ASSUME NEW w, NEW r, NEW a, Good(w, a), Unchanged(w, r), r.overlay = w.overlay,
           r.posted = w.posted, ~w.late /\ Others(w) => Others(r)
    PROVE  Good(r, a)
  <1>1. Held(w, a)
    BY DEF Good
  <1>2. /\ ErrorsRecover(r) /\ (Busy(w) => Busy(r)) /\ (r.co.state # "ready" => w.cycle # 0)
        /\ \A m \in OverlayModes : PostedIn(w, m) => PostedIn(r, m)
    BY <1>1 DEF Held, ErrorsRecover, Numbered, Busy, PostedIn, Unchanged, Same, SameRecording
  <1>3. ~w.late => Others(r) /\ (Busy(r) \/ Quiet(w, a))
    BY <1>1, <1>2 DEF Held
  <1>4. Held(r, a)
    BY <1>1, <1>2, <1>3, SameHeld DEF Unchanged
  <1>5. Coming(r) = Coming(w)
    BY DEF Coming
  <1>6. EndsBy(w, a, Coming(w)) => EndsBy(r, a, Coming(r))
    BY <1>2, <1>5, EndsByKept
  <1> QED
    BY <1>4, <1>6 DEF Good, Unchanged, Same, SameRecording

\* While there is a recording it is the last one, and it has a device.
LEMMA RecordingIs ==
    ASSUME NEW w \in Worlds, NEW a, Held(w, a), w.co.session # 0
    PROVE  /\ w.co.session = w.cycle /\ w.cycle # 0 /\ w.cycle \in Cycles
           /\ ~w.late => Busy(w) /\ w.co.device # None
  BY Bounds DEF Held, Numbered, Quiet, Busy, Worlds, Members, Cycles

\* END is waited for, or it was handled and its audio may be the last.
Ends(w, r) ==
    /\ r.co.session \in {0, w.co.session} /\ (r.co.waiting => r.co.session # 0)
    /\ r.co.text = w.co.text /\ r.co.last = w.co.last /\ r.co.last_device = w.co.last_device
    /\ r.co.pending = w.co.pending /\ r.co.asr_started = w.co.asr_started
    /\ r.co.pasted_final = w.co.pasted_final /\ r.asr = w.asr
    /\ r.translating = w.translating /\ r.cycle = w.cycle /\ r.cancelled = w.cancelled
    /\ r.pastes = w.pastes /\ r.late = w.late /\ r.connected = w.connected
    /\ r.co.state = w.co.state /\ r.co.device = w.co.device /\ r.co.error = w.co.error
    /\ r.overlay = w.overlay /\ r.posted = w.posted /\ r.shown = w.shown

\* A recording whose audio ends keeps what is held of it.
LEMMA EndsHeld ==
    ASSUME NEW w \in Worlds, NEW r, NEW a, Held(w, a), Ends(w, r)
    PROVE  Held(r, a)
  <1>1. Numbered(r, a)
    BY DEF Held, Numbered, Ends
  <1>2. TextsApart(r, a)
    <2>1. ASSUME NEW t \in Cycles, Apart(w, a, t)
          PROVE  Apart(r, a, t)
      <3>1. t # 0
        BY Bounds
      <3> QED
        BY <2>1, <3>1 DEF Apart, Source, Ends
    <2> QED
      BY <2>1 DEF Held, TextsApart
  <1>3. MembersAgree(r, a)
    <2>1. r.asr.last => r.co.session # r.asr.of
      BY DEF Held, MembersAgree, Ends
    <2> QED
      BY <2>1 DEF Held, MembersAgree, Ends
  <1>4. ErrorsRecover(r)
    BY DEF Held, ErrorsRecover, Ends
  <1>5. ASSUME ~r.late
        PROVE  (Busy(r) \/ Quiet(r, a)) /\ OnlyLast(r, a) /\ Stages(r, a) /\ Others(r)
    <2>1. (Busy(w) \/ Quiet(w, a)) /\ OnlyLast(w, a) /\ Stages(w, a) /\ Others(w)
      BY <1>5 DEF Held, Ends
    <2>2. (Busy(w) => Busy(r)) /\ (Quiet(w, a) => Quiet(r, a))
      BY DEF Busy, Quiet, Ends
    <2>3. OnlyLast(r, a)
      BY <2>1 DEF OnlyLast, Ends
    <2>4. Stages(r, a)
      BY <2>1 DEF Stages, Ends
    <2>5. Others(r)
      BY <2>1 DEF Others, Ends
    <2> QED
      BY <2>1, <2>2, <2>3, <2>4, <2>5
  <1> QED
    BY <1>1, <1>2, <1>3, <1>4, <1>5 DEF Held

\* The ASR client has a session for the recording.
Given(w, last) == [w EXCEPT !.co.asr_started = TRUE, !.asr = [of |-> w.cycle, last |-> last]]

\* Giving audio to the ASR client changes only the client and asr_started.
LEMMA GivenIs ==
    ASSUME NEW w \in Worlds, NEW last \in BOOLEAN
    PROVE  LET r == Given(w, last) IN
           /\ r \in Worlds
           /\ r.asr.of = w.cycle /\ (r.asr.last <=> last) /\ r.co.asr_started
           /\ r.co.session = w.co.session /\ r.co.text = w.co.text
           /\ r.co.last = w.co.last /\ r.co.last_device = w.co.last_device
           /\ r.co.waiting = w.co.waiting /\ r.co.sent_final = w.co.sent_final
           /\ r.co.pending = w.co.pending /\ r.co.pasted_final = w.co.pasted_final
           /\ r.translating = w.translating /\ r.cycle = w.cycle /\ r.cancelled = w.cancelled
           /\ r.pastes = w.pastes /\ r.late = w.late /\ r.connected = w.connected
           /\ r.co.state = w.co.state /\ r.co.device = w.co.device /\ r.co.error = w.co.error
           /\ r.overlay = w.overlay /\ r.posted = w.posted /\ r.shown = w.shown
  <1>1. TRUE \in BOOLEAN
    OBVIOUS
  <1>2. [of |-> w.cycle, last |-> last] \in AsrSessions
    BY Bounds DEF AsrSessions, Worlds
  <1> DEFINE x == [of |-> w.cycle, last |-> last]
  <1>3. x.of = w.cycle /\ (x.last <=> last)
    OBVIOUS
  <1> HIDE DEF x
  <1>4. Given(w, last) = [w EXCEPT !.co.asr_started = TRUE, !.asr = x]
    BY DEF Given, x
  <1>5. x \in AsrSessions
    BY <1>2 DEF x
  <1>6. Given(w, last) \in Worlds
    <2> DEFINE m == [w.co EXCEPT !.asr_started = TRUE]
    <2>1. m \in Members
      BY <1>1 DEF Worlds, Members
    <2> HIDE DEF m
    <2>2. [w EXCEPT !.co = m, !.asr = x] \in Worlds
      BY <1>5, <2>1 DEF Worlds
    <2>3. Given(w, last) = [w EXCEPT !.co = m, !.asr = x]
      BY <1>4 DEF m
    <2> QED
      BY <2>2, <2>3
  <1> QED
    BY <1>3, <1>4, <1>6 DEF Worlds, Members

\* The session is the one of the recording that is going on (v), also when it
\* has just ended (w).
LEMMA GivenHeld ==
    ASSUME NEW v \in Worlds, NEW w \in Worlds, NEW a, NEW last \in BOOLEAN,
           Held(v, a), v.co.session # 0, Held(w, a),
           w.co.session = IF last THEN 0 ELSE v.co.session,
           w.co.pasted_final = v.co.pasted_final, w.translating = v.translating,
           w.cancelled = v.cancelled, w.co.last = v.co.last, w.co.text = v.co.text,
           w.pastes = v.pastes, w.cycle = v.cycle, w.late = v.late,
           w.co.state = v.co.state, w.co.device = v.co.device, w.co.error = v.co.error,
           w.co.pending = v.co.pending
    PROVE  Given(w, last) \in Worlds /\ Held(Given(w, last), a)
  <1> DEFINE r == Given(w, last)
  <1> SUFFICES r \in Worlds /\ Held(r, a)
    OBVIOUS
  <1>1. /\ r \in Worlds
        /\ r.asr.of = w.cycle /\ (r.asr.last <=> last) /\ r.co.asr_started
        /\ r.co.session = w.co.session /\ r.co.text = w.co.text
        /\ r.co.last = w.co.last /\ r.co.last_device = w.co.last_device
        /\ r.co.waiting = w.co.waiting /\ r.co.sent_final = w.co.sent_final
        /\ r.co.pending = w.co.pending /\ r.co.pasted_final = w.co.pasted_final
        /\ r.translating = w.translating /\ r.cycle = w.cycle /\ r.cancelled = w.cancelled
        /\ r.pastes = w.pastes /\ r.late = w.late /\ r.connected = w.connected
        /\ r.co.state = w.co.state /\ r.co.device = w.co.device /\ r.co.error = w.co.error
        /\ r.overlay = w.overlay /\ r.posted = w.posted /\ r.shown = w.shown
    BY GivenIs
  <1> HIDE DEF r
  <1>2. /\ v.co.session = v.cycle /\ v.cycle # 0 /\ v.cycle \in Cycles
        /\ ~v.late => Busy(v)
    BY RecordingIs
  <1>3. Numbered(r, a)
    <2>1. r.asr.of <= r.cycle
      BY <1>1, <1>2, Bounds DEF Worlds
    <2> QED
      BY <1>1, <2>1 DEF Held, Numbered
  <1>4. TextsApart(r, a)
    <2>1. ASSUME NEW t \in Cycles, Apart(w, a, t), Apart(v, a, t)
          PROVE  Apart(r, a, t)
      BY <1>1, <1>2, <2>1 DEF Apart, Source
    <2> QED
      BY <2>1 DEF Held, TextsApart
  <1>5. MembersAgree(r, a)
    BY <1>1, <1>2 DEF Held, MembersAgree
  <1>6. ErrorsRecover(r)
    BY <1>1 DEF Held, ErrorsRecover
  <1>7. ASSUME ~r.late
        PROVE  Busy(r) /\ OnlyLast(r, a) /\ Stages(r, a) /\ Others(r)
    <2>1. /\ Busy(v) /\ Stages(v, a)
          /\ OnlyLast(w, a) /\ Others(w)
      BY <1>1, <1>2, <1>7 DEF Held
    <2>2. Busy(r)
      BY <1>1, <2>1 DEF Busy
    <2>3. OnlyLast(r, a)
      BY <1>1, <2>1 DEF OnlyLast
    <2>4. Stages(r, a)
      BY <1>1, <1>2, <2>1 DEF Stages
    <2>5. Others(r)
      BY <1>1, <2>1 DEF Others
    <2> QED
      BY <2>2, <2>3, <2>4, <2>5
  <1> QED
    BY <1>1, <1>3, <1>4, <1>5, <1>6, <1>7 DEF Held

\* A frame that is not the last one.
LEMMA AudioGood ==
    ASSUME NEW w \in Worlds, NEW a, NEW thread, NEW start, NEW ok \in BOOLEAN,
           Good(w, a), w.co.session # 0
    PROVE  LET r == SendOrBufferOggChunk(w, thread, FALSE, start, ok) IN
           r \in Worlds /\ Good(r, a)
  <1>1. Held(w, a) /\ ~w.co.sent_final
    BY DEF Good
  <1>2. w.cycle # 0 /\ (~w.late => Busy(w) /\ w.co.device # None)
    BY <1>1, RecordingIs
  <1>3. CASE ~w.co.asr_started /\ ~start
    BY <1>3 DEF SendOrBufferOggChunk
  <1>4. CASE ~(~w.co.asr_started /\ ~start) /\ ok
    <2> DEFINE r == Given(w, FALSE)
    <2>1. SendOrBufferOggChunk(w, thread, FALSE, start, ok) = r
      BY <1>4 DEF SendOrBufferOggChunk, Given
    <2>2. FALSE \in BOOLEAN
      OBVIOUS
    <2>3. r \in Worlds /\ Held(r, a)
      BY <1>1, <2>2, GivenHeld
    <2>4. /\ r.asr.of = w.cycle /\ r.co.waiting = w.co.waiting /\ r.co.session = w.co.session
          /\ r.co.sent_final = w.co.sent_final /\ r.late = w.late /\ r.co.text = w.co.text
          /\ r.co.state = w.co.state /\ r.co.device = w.co.device /\ r.co.error = w.co.error
          /\ r.overlay = w.overlay /\ r.posted = w.posted
      BY <2>2, GivenIs
    <2> HIDE DEF r
    <2>5. EndsBy(w, a, Coming(w)) => EndsBy(r, a, Coming(r))
      BY <1>2, <2>4 DEF EndsBy, RecoversBy, PostedIn, Coming, Awaited
    <2>6. Good(r, a)
      BY <1>1, <2>3, <2>4, <2>5 DEF Good
    <2> QED
      BY <2>1, <2>3, <2>6
  <1>5. CASE ~(~w.co.asr_started /\ ~start) /\ ~ok
    BY <1>1, <1>2, <1>5, AsrErrorGood DEF SendOrBufferOggChunk
  <1> QED
    BY <1>3, <1>4, <1>5

\* The last of the audio, without a waiting END.
LastSent(w) == [w EXCEPT !.co.sent_final = TRUE, !.co.waiting = FALSE]

\* Marking the audio as sent ends the recording, with or without its session.
LEMMA LastSentIs ==
    ASSUME NEW w \in Worlds
    PROVE  LET s == LastSent(w)
               e == [s EXCEPT !.co.session = 0]
           IN  s \in Worlds /\ Ends(w, s) /\ e \in Worlds /\ Ends(w, e) /\ e.co.session = 0
  <1> DEFINE s == LastSent(w)
             e == [s EXCEPT !.co.session = 0]
  <1>1. TRUE \in BOOLEAN /\ FALSE \in BOOLEAN
    OBVIOUS
  <1>2. s \in Worlds /\ Ends(w, s) /\ ~s.co.waiting
    BY <1>1 DEF Worlds, Members, Ends, LastSent
  <1> HIDE DEF s
  <1>3. e \in Worlds
    BY <1>2, Bounds DEF Worlds, Members
  <1>4. Ends(s, e) /\ e.co.session = 0
    BY <1>2 DEF Worlds, Members, Ends
  <1> HIDE DEF e
  <1>5. Ends(w, e)
    BY <1>2, <1>4 DEF Ends
  <1> QED
    BY <1>2, <1>3, <1>4, <1>5 DEF e, s

\* SendFinalOggChunkIfNeeded.
LEMMA FinalGood ==
    ASSUME NEW w \in Worlds, NEW a, NEW thread, NEW ok \in BOOLEAN,
           Held(w, a), w.co.session # 0, ~w.co.sent_final
    PROVE  LET r == SendFinalOggChunkIfNeeded(w, thread, ok) IN r \in Worlds /\ Good(r, a)
  <1> DEFINE s == LastSent(w)
             e == [s EXCEPT !.co.session = 0]
  <1>1. w.cycle # 0 /\ (~w.late => Busy(w) /\ w.co.device # None)
    BY RecordingIs
  <1>2. s \in Worlds /\ Ends(w, s) /\ e \in Worlds /\ Ends(w, e) /\ e.co.session = 0
    BY LastSentIs
  <1>3. Held(s, a) /\ Held(e, a)
    BY <1>2, EndsHeld
  <1>4. /\ s.cycle # 0 /\ (~s.late => s.co.device # None)
        /\ e.cycle # 0 /\ (~e.late => e.co.device # None)
    BY <1>1, <1>2 DEF Ends
  <1>5. CASE ~w.co.asr_started /\ ~w.long
    <2>1. SendFinalOggChunkIfNeeded(w, thread, ok) = EnterReady(Abandon(s), thread)
      BY <1>5 DEF SendFinalOggChunkIfNeeded, CancelShortRecording, LastSent
    <2> HIDE DEF s, e
    <2> QED
      BY <1>2, <1>3, <2>1, CancelGood
  <1>6. CASE (w.co.asr_started \/ w.long) /\ ~w.co.frames
    <2>1. SendFinalOggChunkIfNeeded(w, thread, ok) = FinishWithAsrError(s, thread)
      BY <1>6 DEF SendFinalOggChunkIfNeeded, LastSent
    <2> HIDE DEF s, e
    <2> QED
      BY <1>2, <1>3, <1>4, <2>1, AsrErrorGood
  <1>7. CASE (w.co.asr_started \/ w.long) /\ w.co.frames
    <2> DEFINE u == SendOrBufferOggChunk(e, thread, TRUE, TRUE, ok)
    <2>1. SendFinalOggChunkIfNeeded(w, thread, ok) = EnterFinalizing(u)
      BY <1>7 DEF SendFinalOggChunkIfNeeded, LastSent
    <2> HIDE DEF s
    <2>2. TRUE \in BOOLEAN
      OBVIOUS
    <2>3. u = IF ok THEN Given(e, TRUE) ELSE FinishWithAsrError(e, thread)
      BY DEF SendOrBufferOggChunk, Given
    <2> HIDE DEF e, u
    <2>4. CASE ok
      <3>1. u \in Worlds /\ Held(u, a)
        BY <1>2, <1>3, <2>2, <2>3, <2>4, GivenHeld DEF Ends
      <3>2. /\ u.asr.of = e.cycle /\ u.co.session = e.co.session /\ u.cycle = e.cycle
            /\ u.late = e.late /\ u.co.device = e.co.device
        BY <1>2, <2>2, <2>3, <2>4, GivenIs
      <3>3. Awaited(u, a)
        BY <1>4, <3>2 DEF Awaited
      <3> QED
        BY <1>2, <1>4, <2>1, <3>1, <3>2, <3>3, EnterFinalizingGood
    <2>5. CASE ~ok
      <3>1. /\ u \in Worlds /\ Good(u, a) /\ u.cycle = e.cycle /\ u.late = e.late
            /\ u.co.device = e.co.device /\ u.co.session = 0 /\ RecoversBy(u, Coming(u))
        BY <1>2, <1>3, <1>4, <2>3, <2>5, AsrErrorGood
      <3>2. Held(u, a)
        BY <3>1 DEF Good
      <3> QED
        BY <1>4, <2>1, <3>1, <3>2, EnterFinalizingGood
    <2> QED
      BY <2>4, <2>5
  <1> QED
    BY <1>5, <1>6, <1>7

\* END alone.
LEMMA WaitingIs ==
    ASSUME NEW w \in Worlds, NEW b \in BOOLEAN, b => w.co.session # 0
    PROVE  LET r == [w EXCEPT !.co.waiting = b] IN
           /\ r \in Worlds /\ Ends(w, r) /\ (r.co.waiting <=> b)
           /\ r.co.session = w.co.session /\ r.co.sent_final = w.co.sent_final
  <1> DEFINE m == [w.co EXCEPT !.waiting = b]
             r == [w EXCEPT !.co = m]
  <1>1. /\ m \in Members /\ (m.waiting <=> b)
        /\ m.session = w.co.session /\ m.sent_final = w.co.sent_final
        /\ m.text = w.co.text /\ m.last = w.co.last /\ m.last_device = w.co.last_device
        /\ m.pending = w.co.pending /\ m.asr_started = w.co.asr_started
        /\ m.pasted_final = w.co.pasted_final
        /\ m.state = w.co.state /\ m.device = w.co.device /\ m.error = w.co.error
    BY DEF Worlds, Members
  <1> HIDE DEF m
  <1>2. r \in Worlds /\ r.co = m
    BY <1>1 DEF Worlds
  <1>3. Ends(w, r)
    BY <1>1 DEF Ends, Worlds
  <1>4. r.co.waiting <=> b
    BY <1>1, <1>2
  <1>5. r.co.session = w.co.session /\ r.co.sent_final = w.co.sent_final
    BY <1>1, <1>2
  <1> HIDE DEF r
  <1> QED
    BY <1>2, <1>3, <1>4, <1>5 DEF r, m

\* HandleAudioFrame.
LEMMA AudioFrameGood ==
    ASSUME NEW w \in Worlds, NEW a, Good(w, a), NEW d, NEW end \in BOOLEAN, NEW ok \in BOOLEAN
    PROVE  LET r == HandleAudioFrame(w, d, end, ok) IN r \in Worlds /\ Good(r, a)
  <1> DEFINE e == [w EXCEPT !.co.waiting = FALSE]
             f == [w EXCEPT !.co.frames = TRUE]
  <1>1. TRUE \in BOOLEAN /\ FALSE \in BOOLEAN
    OBVIOUS
  <1>2. Held(w, a) /\ (w.co.session # 0 => ~w.co.sent_final)
    BY DEF Good
  <1>3. CASE w.co.session = 0 \/ w.co.device # d
    BY <1>3 DEF HandleAudioFrame
  <1>4. CASE w.co.session # 0 /\ w.co.device = d /\ end
    <2>1. HandleAudioFrame(w, d, end, ok) = SendFinalOggChunkIfNeeded(e, "ui", ok)
      BY <1>4 DEF HandleAudioFrame
    <2>2. /\ e \in Worlds /\ Ends(w, e)
          /\ e.co.session = w.co.session /\ e.co.sent_final = w.co.sent_final
      BY <1>1, WaitingIs
    <2> HIDE DEF e
    <2>3. Held(e, a)
      BY <1>2, <2>2, EndsHeld
    <2> QED
      BY <1>2, <1>4, <2>1, <2>2, <2>3, FinalGood
  <1>5. CASE w.co.session # 0 /\ w.co.device = d /\ ~end
    <2> DEFINE start == w.long /\ ~w.co.waiting
    <2>1. HandleAudioFrame(w, d, end, ok) = SendOrBufferOggChunk(f, "ui", FALSE, start, ok)
      BY <1>5 DEF HandleAudioFrame
    <2>2. /\ f \in Worlds /\ Unchanged(w, f) /\ f.overlay = w.overlay /\ f.posted = w.posted
          /\ f.shown = w.shown
      BY <1>1 DEF Worlds, Members, Unchanged, Same, SameRecording
    <2> HIDE DEF f, start
    <2>3. (Others(w) => Others(f)) /\ f.co.session = w.co.session
      BY <2>2 DEF Others, Unchanged, Same, SameRecording
    <2>4. Good(f, a)
      BY <2>2, <2>3, GoodKept
    <2> QED
      BY <1>5, <2>1, <2>2, <2>3, <2>4, AudioGood
  <1> QED
    BY <1>3, <1>4, <1>5

\* BeginWaitingForAudioEnd.
LEMMA WaitGood ==
    ASSUME NEW w \in Worlds, NEW a, Good(w, a), w.co.session # 0
    PROVE  BeginWaitingForAudioEnd(w) \in Worlds /\ Good(BeginWaitingForAudioEnd(w), a)
  <1> DEFINE e == [w EXCEPT !.co.waiting = TRUE]
  <1>1. Held(w, a) /\ ~w.co.sent_final
    BY DEF Good
  <1>2. CASE w.co.waiting
    BY <1>2 DEF BeginWaitingForAudioEnd
  <1>3. CASE ~w.co.waiting
    <2>1. BeginWaitingForAudioEnd(w) = EnterFinalizing(e)
      BY <1>3 DEF BeginWaitingForAudioEnd
    <2>2. TRUE \in BOOLEAN
      OBVIOUS
    <2>3. /\ e \in Worlds /\ Ends(w, e) /\ e.co.waiting
          /\ e.co.session = w.co.session /\ e.co.sent_final = w.co.sent_final
      BY <2>2, WaitingIs
    <2> HIDE DEF e
    <2>4. Held(e, a)
      BY <1>1, <2>3, EndsHeld
    <2>5. Awaited(e, a)
      BY <2>3 DEF Awaited
    <2>6. e.cycle # 0 /\ (~e.late => e.co.device # None)
      BY <2>3, <2>4, RecordingIs
    <2> QED
      BY <1>1, <2>1, <2>3, <2>4, <2>5, <2>6, EnterFinalizingGood
  <1> QED
    BY <1>2, <1>3

-----------------------------------------------------------------------------
(* Buttons *)

\* HandlePrimaryButtonUp.
LEMMA UpGood ==
    ASSUME NEW w \in Worlds, NEW a, Good(w, a), NEW d
    PROVE  HandlePrimaryButtonUp(w, d) \in Worlds /\ Good(HandlePrimaryButtonUp(w, d), a)
  <1>1. Held(w, a)
    BY DEF Good
  <1>2. CASE w.co.session = 0 \/ w.co.device # d
    BY <1>2 DEF HandlePrimaryButtonUp
  <1>3. CASE w.co.session # 0 /\ w.co.device = d /\ ~w.long
    BY <1>1, <1>3, CancelGood DEF HandlePrimaryButtonUp, CancelShortRecording
  <1>4. CASE w.co.session # 0 /\ w.co.device = d /\ w.long
    BY <1>4, WaitGood DEF HandlePrimaryButtonUp
  <1> QED
    BY <1>2, <1>3, <1>4

\* RefreshDeviceUiState, and a device that is told nothing new.
LEMMA RefreshGood ==
    ASSUME NEW w \in Worlds, NEW a, Good(w, a), NEW d \in Devices
    PROVE  /\ RefreshDeviceUiState(w, d) \in Worlds /\ Good(RefreshDeviceUiState(w, d), a)
           /\ SendUiState(w, d, "ready") \in Worlds /\ Good(SendUiState(w, d, "ready"), a)
           /\ w.co.device = d =>
                 SendUiState(w, d, "thinking") \in Worlds /\ Good(SendUiState(w, d, "thinking"), a)
  <1>1. ASSUME NEW show \in Shows, w.co.device = d \/ show = "ready"
        PROVE  SendUiState(w, d, show) \in Worlds /\ Good(SendUiState(w, d, show), a)
    <2> DEFINE r == SendUiState(w, d, show)
    <2>1. /\ r \in Worlds /\ Unchanged(w, r) /\ r.overlay = w.overlay /\ r.posted = w.posted
          /\ Others(w) => Others(r)
      BY <1>1, SendToIs
    <2> HIDE DEF r
    <2>2. Good(r, a)
      BY <2>1, GoodKept
    <2> QED
      BY <2>1, <2>2 DEF r
  <1>2. "ready" \in Shows /\ "thinking" \in Shows /\ "pending" \in Shows
    BY DEF Shows
  <1> DEFINE show == IF w.co.device # d THEN "ready"
                     ELSE CASE w.co.state = "finalizing"            -> "thinking"
                            [] w.co.state \in {"pending", "paused"} -> "pending"
                            [] OTHER                                -> w.co.state
  <1>3. show \in Shows /\ (w.co.device = d \/ show = "ready")
    BY DEF Worlds, Members, States, Shows
  <1>4. RefreshDeviceUiState(w, d) = SendUiState(w, d, show)
    BY DEF RefreshDeviceUiState
  <1> HIDE DEF show
  <1> QED
    BY <1>1, <1>2, <1>3, <1>4

\* A text is brought back.
Restored(w, d) ==
    [w EXCEPT !.co.device = d, !.pastes[w.co.last] = 0, !.cancelled = @ \ {w.co.last}]

\* A text that is brought back may be pasted again: nothing else has it.
LEMMA RestoredHeld ==
    ASSUME NEW w \in Worlds, NEW a, Good(w, a), NEW d \in Devices \cup {None},
           w.co.state = "ready", w.co.session = 0, w.co.last # 0
    PROVE  LET r == Restored(w, d) IN
           /\ r \in Worlds /\ Held(r, a) /\ Fresh(r, a, w.co.last)
           /\ r.co.session = 0 /\ r.co.device = d /\ r.late = w.late
           /\ ~r.late => Quiet(r, a)
  <1> DEFINE t == w.co.last
             p == [w.pastes EXCEPT ![t] = 0]
             m == [w.co EXCEPT !.device = d]
             r == [w EXCEPT !.co = m, !.pastes = p, !.cancelled = @ \ {t}]
  <1>1. t \in Cycles /\ t <= w.cycle /\ t # 0
    BY DEF Worlds, Members, Texts, Good, Held, Numbered
  <1>2. w.pastes \in [Cycles -> 0..2]
    BY DEF Worlds
  <1> HIDE DEF t
  <1>3. p \in [Cycles -> 0..2] /\ \A u \in Cycles : p[u] = IF u = t THEN 0 ELSE w.pastes[u]
    BY <1>1, <1>2
  <1> HIDE DEF p
  <1>4. /\ m \in Members /\ m.device = d /\ m.state = w.co.state /\ m.session = w.co.session
        /\ m.text = w.co.text /\ m.last = w.co.last /\ m.last_device = w.co.last_device
        /\ m.waiting = w.co.waiting /\ m.pending = w.co.pending
        /\ m.asr_started = w.co.asr_started /\ m.pasted_final = w.co.pasted_final
    BY DEF Worlds, Members
  <1> HIDE DEF m
  <1>5. /\ r \in Worlds /\ r.co = m /\ r.pastes = p /\ r.cancelled = w.cancelled \ {t}
        /\ r.asr = w.asr /\ r.translating = w.translating /\ r.connected = w.connected
        /\ r.posted = w.posted /\ r.shown = w.shown /\ r.cycle = w.cycle /\ r.late = w.late
    BY <1>3, <1>4 DEF Worlds
  <1>6. Restored(w, d) = r
    BY DEF Restored, m, p, t
  <1> HIDE DEF r
  <1>7. Held(w, a) /\ w.co.last = t /\ (~w.late => w.co.device = None)
    BY DEF Good, t
  <1>8. Apart(w, a, t)
    BY <1>1, <1>7 DEF Held, TextsApart
  <1>9. ~Source(w, t) /\ a.of # t /\ t \notin w.translating
    BY <1>7, <1>8 DEF Apart
  <1>10. Fresh(r, a, t)
    BY <1>1, <1>3, <1>4, <1>5, <1>9 DEF Fresh, Source
  <1>11. Numbered(r, a)
    BY <1>3, <1>4, <1>5, <1>7 DEF Held, Numbered
  <1>12. TextsApart(r, a)
    <2>1. ASSUME NEW u \in Cycles, Apart(w, a, u)
          PROVE  Apart(r, a, u)
      BY <1>3, <1>4, <1>5, <2>1 DEF Apart, Source
    <2> QED
      BY <1>7, <2>1 DEF Held, TextsApart
  <1>13. MembersAgree(r, a)
    BY <1>4, <1>5, <1>7 DEF Held, MembersAgree
  <1>14. ErrorsRecover(r)
    BY <1>5, <1>7 DEF Held, ErrorsRecover
  <1>15. ASSUME ~r.late
         PROVE  Quiet(r, a) /\ OnlyLast(r, a) /\ Stages(r, a) /\ Others(r)
    <2>1. (Busy(w) \/ Quiet(w, a)) /\ OnlyLast(w, a) /\ Stages(w, a) /\ Others(w)
      BY <1>5, <1>7, <1>15 DEF Held
    <2>2. Quiet(w, a)
      BY <2>1 DEF Busy
    <2>3. Quiet(r, a)
      BY <1>4, <1>5, <1>9, <2>2 DEF Quiet
    <2>4. OnlyLast(r, a)
      BY <1>4, <1>5, <2>1, <2>3 DEF OnlyLast, Quiet
    <2>5. Stages(r, a)
      BY <1>4, <1>5, <2>1, <2>3 DEF Stages, Quiet
    <2>6. Others(r)
      BY <1>5, <1>7, <1>15, <2>1, Bounds DEF Others, Worlds
    <2> QED
      BY <2>3, <2>4, <2>5, <2>6
  <1>16. Held(r, a)
    BY <1>11, <1>12, <1>13, <1>14, <1>15 DEF Held
  <1>17. Fresh(r, a, w.co.last)
    BY <1>7, <1>10
  <1> QED
    BY <1>4, <1>5, <1>6, <1>15, <1>16, <1>17

\* RestoreLastInputConfirmation, for a button or the menu.
LEMMA RestoreGood ==
    ASSUME NEW w \in Worlds, NEW a, Good(w, a), NEW d \in Devices \cup {None},
           ~w.late /\ w.co.last # 0 => d # None
    PROVE  LET r == RestoreLastInputConfirmation(w, d) IN r \in Worlds /\ Good(r, a)
  <1> DEFINE may == /\ w.co.pending = "idle" /\ w.co.state = "ready"
                    /\ w.co.session = 0 /\ w.co.last # 0
             s == Restored(w, d)
  <1>1. CASE may
    <2>1. RestoreLastInputConfirmation(w, d) = EnterPausedConfirmation(s, "ui", w.co.last)
      BY <1>1 DEF RestoreLastInputConfirmation, Restored
    <2>2. /\ s \in Worlds /\ Held(s, a) /\ Fresh(s, a, w.co.last)
          /\ s.co.session = 0 /\ s.co.device = d /\ s.late = w.late
          /\ ~s.late => Quiet(s, a)
      BY <1>1, RestoredHeld
    <2> HIDE DEF s
    <2> QED
      BY <1>1, <2>1, <2>2, ConfirmationGood
  <1>2. CASE ~may
    BY <1>2 DEF RestoreLastInputConfirmation
  <1> QED
    BY <1>1, <1>2

\* A recording begins.
Started(w, session, d) ==
    [w EXCEPT
        !.co = [state |-> "recording", session |-> session, device |-> d,
                frames |-> FALSE, asr_started |-> FALSE, sent_final |-> FALSE,
                pasted_final |-> FALSE, waiting |-> w.co.waiting, pending |-> "idle",
                text |-> 0, last |-> w.co.last, last_device |-> w.co.last_device,
                error |-> FALSE],
        !.long = FALSE, !.cycle = session]

\* A new recording has a number that no text has yet.
LEMMA StartedHeld ==
    ASSUME NEW w \in Worlds, NEW a \in Answers, Held(w, a), NEW d \in Devices,
           w.co.state = "ready", ~w.late => w.co.device = None,
           NEW session \in Cycles, session = w.cycle + 1
    PROVE  LET r == Started(w, session, d) IN
           /\ r \in Worlds /\ Held(r, a) /\ (~r.late => Busy(r))
           /\ r.co.state = "recording" /\ r.co.device = d /\ ~r.co.sent_final
           /\ r.late = w.late
  <1> DEFINE m == [state |-> "recording", session |-> session, device |-> d,
                   frames |-> FALSE, asr_started |-> FALSE, sent_final |-> FALSE,
                   pasted_final |-> FALSE, waiting |-> w.co.waiting, pending |-> "idle",
                   text |-> 0, last |-> w.co.last, last_device |-> w.co.last_device,
                   error |-> FALSE]
             r == [w EXCEPT !.co = m, !.long = FALSE, !.cycle = session]
  <1>1. FALSE \in BOOLEAN /\ w.co.waiting \in BOOLEAN /\ session \in Texts /\ 0 \in Texts
        /\ session \in 0..MaxCycles /\ w.cycle \in Nat
    BY Bounds DEF Worlds, Members, Texts, Cycles
  <1>2. w.co.last \in Texts /\ w.co.last_device \in Devices \cup {None}
    BY DEF Worlds, Members
  <1>3. m \in Members
    BY <1>1, <1>2 DEF Members, States
  <1>4. /\ m.state = "recording" /\ m.session = session /\ m.device = d
        /\ ~m.asr_started /\ ~m.sent_final /\ ~m.pasted_final /\ m.pending = "idle"
        /\ m.text = 0 /\ m.last = w.co.last /\ m.last_device = w.co.last_device /\ ~m.error
    OBVIOUS
  <1> HIDE DEF m
  <1>5. r \in Worlds
    BY <1>1, <1>3 DEF Worlds
  <1>6. /\ r.co = m /\ r.cycle = session /\ r.pastes = w.pastes /\ r.cancelled = w.cancelled
        /\ r.asr = w.asr /\ r.translating = w.translating /\ r.connected = w.connected
        /\ r.posted = w.posted /\ r.shown = w.shown /\ r.late = w.late
    BY DEF Worlds
  <1>7. Started(w, session, d) = r
    BY DEF Started, m
  <1> HIDE DEF r
  <1>8. w.asr.of <= w.cycle /\ a.of <= w.cycle /\ w.co.last <= w.cycle
        /\ (\A t \in w.translating : t <= w.cycle)
        /\ \A t \in Cycles : t > w.cycle => w.pastes[t] = 0
    BY DEF Held, Numbered
  <1>9. /\ w.asr.of \in Nat /\ w.co.last \in Nat /\ w.translating \subseteq Nat
        /\ session \in Nat /\ session # 0 /\ \A t \in Cycles : t \in Nat
        /\ a.of \in Nat
    <2>1. w.asr.of \in Texts /\ a.of \in Texts /\ w.translating \subseteq Cycles
      BY DEF Worlds, AsrSessions, Answers
    <2>2. Texts \subseteq Nat
      BY Bounds
    <2> QED
      BY <1>2, <2>1, <2>2, Bounds
  <1>10. w.asr.of # session /\ a.of # session /\ session \notin w.translating
         /\ w.co.last # session /\ w.pastes[session] = 0
    BY <1>1, <1>8, <1>9
  <1>11. Numbered(r, a)
    <2>1. w.asr.of <= session /\ w.co.last <= session /\ 0 <= session
      BY <1>1, <1>8, <1>9
    <2>2. a.of <= session
      BY <1>1, <1>8, <1>9
    <2>3. \A t \in w.translating : t <= session
      BY <1>1, <1>8, <1>9
    <2>4. \A t \in Cycles : t > session => w.pastes[t] = 0
      BY <1>1, <1>8, <1>9
    <2> QED
      BY <1>4, <1>6, <1>9, <2>1, <2>2, <2>3, <2>4 DEF Numbered
  <1>12. TextsApart(r, a)
    <2>1. ASSUME NEW t \in Cycles, Apart(w, a, t)
          PROVE  Apart(r, a, t)
      <3>1. t # 0
        BY Bounds
      <3> QED
        BY <1>4, <1>6, <1>10, <2>1, <3>1 DEF Apart, Source
    <2> QED
      BY <2>1 DEF Held, TextsApart
  <1>13. MembersAgree(r, a)
    BY <1>4, <1>6, <1>9, <1>10 DEF Held, MembersAgree
  <1>14. ErrorsRecover(r)
    BY <1>6 DEF Held, ErrorsRecover
  <1>15. Busy(r)
    BY <1>4, <1>6, Bounds DEF Busy
  <1>16. ASSUME ~r.late
         PROVE  OnlyLast(r, a) /\ Stages(r, a) /\ Others(r)
    <2>1. /\ Busy(w) \/ Quiet(w, a)
          /\ OnlyLast(w, a) /\ Others(w) /\ w.co.device = None
      BY <1>6, <1>16 DEF Held
    <2>2. Quiet(w, a)
      BY <2>1 DEF Busy
    <2>3. OnlyLast(r, a)
      BY <1>4, <1>6, <2>1, <2>2 DEF OnlyLast, Quiet
    <2>4. Stages(r, a)
      BY <1>4, <1>6, <2>2 DEF Stages, Quiet
    <2>5. Others(r)
      BY <1>4, <1>6, <2>1, Bounds DEF Others, Worlds
    <2> QED
      BY <2>3, <2>4, <2>5
  <1>17. Held(r, a)
    BY <1>11, <1>12, <1>13, <1>14, <1>15, <1>16 DEF Held
  <1> QED
    BY <1>4, <1>5, <1>6, <1>7, <1>15, <1>17

\* HandlePrimaryButtonDown.
LEMMA DownGood ==
    ASSUME NEW w \in Worlds, NEW a \in Answers, Good(w, a), NEW d \in Devices,
           NEW session \in {0, w.cycle + 1} \cap Texts
    PROVE  LET r == HandlePrimaryButtonDown(w, session, d) IN r \in Worlds /\ Good(r, a)
  <1>1. Held(w, a)
    BY DEF Good
  <1>2. CASE w.co.pending # "idle"
    BY <1>2, FrontButtonGood DEF HandlePrimaryButtonDown
  <1>3. CASE w.co.pending = "idle" /\ (w.co.state # "ready" \/ w.co.device # None)
    BY <1>3, RefreshGood DEF HandlePrimaryButtonDown
  <1>4. CASE w.co.pending = "idle" /\ w.co.state = "ready" /\ w.co.device = None /\ session = 0
    BY <1>4, RefreshGood DEF HandlePrimaryButtonDown
  <1>5. CASE w.co.pending = "idle" /\ w.co.state = "ready" /\ w.co.device = None /\ session # 0
    <2> DEFINE s == Started(w, session, d)
               u == DispatchToUi(s, "ui", "listening", NoCallback)
               r == SendUiStateForActiveDevice(u, "recording")
    <2>1. HandlePrimaryButtonDown(w, session, d) = r
      BY <1>5 DEF HandlePrimaryButtonDown, Started
    <2>2. session \in Cycles /\ session = w.cycle + 1
      BY <1>5 DEF Texts
    <2>3. /\ s \in Worlds /\ Held(s, a) /\ (~s.late => Busy(s))
          /\ s.co.state = "recording" /\ s.co.device = d /\ ~s.co.sent_final
      BY <1>1, <1>5, <2>2, StartedHeld
    <2> HIDE DEF s
    <2>4. NoCallback \in Callbacks /\ "listening" \in OverlayModes \ {"hidden"}
          /\ "recording" \in Shows /\ d # None
      BY CallbacksDiffer, Bounds DEF OverlayModes, Shows
    <2>5. /\ u \in Worlds /\ Unchanged(s, u) /\ u.shown = s.shown
          /\ ErrorsRecover(s) => ErrorsRecover(u)
      BY <2>3, <2>4, ShowIs
    <2> HIDE DEF u
    <2>6. (Others(s) => Others(u)) /\ u.co.device = d
      BY <2>3, <2>5 DEF Others, Unchanged, Same, SameRecording
    <2>7. /\ r \in Worlds /\ Unchanged(u, r) /\ r.overlay = u.overlay /\ r.posted = u.posted
          /\ Others(u) => Others(r)
      BY <2>4, <2>5, <2>6, SendIs, SendTellsOthers
    <2> HIDE DEF r
    <2>8. /\ Same(s, r) /\ r.co.state = "recording" /\ r.co.device = d
          /\ ~r.co.sent_final /\ (Busy(s) => Busy(r))
      BY <2>3, <2>5, <2>7, SameTwice DEF Unchanged, Same, SameRecording, Busy
    <2>9. ErrorsRecover(r) /\ s.cycle # 0
      BY <2>3, <2>5, <2>7 DEF ErrorsRecover, Held, Numbered
    <2>10. ~s.late => Others(r) /\ Busy(r)
      BY <2>3, <2>6, <2>7, <2>8 DEF Held
    <2>11. Held(r, a)
      BY <2>3, <2>8, <2>9, <2>10, SameHeld
    <2>12. EndsBy(r, a, Coming(r))
      BY <2>8 DEF EndsBy
    <2>13. Good(r, a)
      BY <2>4, <2>8, <2>11, <2>12 DEF Good
    <2> QED
      BY <2>1, <2>7, <2>13
  <1> QED
    BY <1>2, <1>3, <1>4, <1>5

\* HandleButtonClick.
LEMMA ClickGood ==
    ASSUME NEW w \in Worlds, NEW a \in Answers, Good(w, a), NEW d \in Devices,
           NEW session \in {0, w.cycle + 1} \cap Texts
    PROVE  LET r == HandleButtonClick(w, session, d) IN r \in Worlds /\ Good(r, a)
  <1>1. CASE w.co.pending # "idle"
    BY <1>1, FrontButtonGood DEF HandleButtonClick
  <1>2. CASE w.co.pending = "idle" /\ mode # "click"
    BY <1>2, RefreshGood DEF HandleButtonClick
  <1>3. CASE w.co.pending = "idle" /\ mode = "click" /\ w.co.state = "recording"
             /\ w.co.device = d
    BY <1>3, UpGood DEF HandleButtonClick
  <1>4. CASE w.co.pending = "idle" /\ mode = "click" /\ w.co.state = "finalizing"
             /\ w.co.device = d
    BY <1>4, RefreshGood DEF HandleButtonClick
  <1>5. CASE w.co.pending = "idle" /\ mode = "click"
             /\ ~(w.co.state = "recording" /\ w.co.device = d)
             /\ ~(w.co.state = "finalizing" /\ w.co.device = d)
    BY <1>5, DownGood DEF HandleButtonClick
  <1> QED
    BY <1>1, <1>2, <1>3, <1>4, <1>5

\* A text that is pending is dropped.
Dropped(w) ==
    [w EXCEPT !.co.pending = "idle", !.co.text = 0, !.cancelled = @ \cup {w.co.text}]

\* A pending text that is dropped is cancelled.
LEMMA DroppedIs ==
    ASSUME NEW w \in Worlds, w.co.text # 0
    PROVE  LET r == FinishRecognitionCycle(Dropped(w)) IN r \in Worlds /\ Cleared(w, r)
  <1> DEFINE g == w.cancelled \cup {w.co.text}
             v == [w EXCEPT !.co.pending = "idle", !.co.text = 0, !.cancelled = g]
             r == FinishRecognitionCycle(v)
  <1>1. Dropped(w) = v
    BY DEF Dropped
  <1>2. g \in SUBSET Cycles /\ w.cancelled \subseteq g
    BY DEF Worlds, Members, Texts
  <1> HIDE DEF g
  <1>3. v \in Worlds
    BY <1>2, Bounds DEF Worlds, Members
  <1>4. /\ v.co.session = w.co.session /\ v.co.pending = "idle" /\ v.co.text = 0
        /\ v.asr = w.asr /\ v.cancelled = g
        /\ v.co.last = w.co.last /\ v.co.last_device = w.co.last_device
        /\ v.translating = w.translating /\ v.cycle = w.cycle
        /\ v.pastes = w.pastes /\ v.late = w.late /\ v.connected = w.connected
        /\ v.co.state = w.co.state /\ v.co.device = w.co.device /\ v.co.error = w.co.error
        /\ v.overlay = w.overlay /\ v.posted = w.posted /\ v.shown = w.shown
    BY DEF Worlds, Members
  <1> HIDE DEF v
  <1>5. /\ r \in Worlds
        /\ ~r.co.waiting /\ ~r.co.asr_started /\ ~r.co.sent_final /\ ~r.co.pasted_final
        /\ r.co.session = v.co.session /\ r.co.text = v.co.text
        /\ r.co.last = v.co.last /\ r.co.last_device = v.co.last_device
        /\ r.co.pending = v.co.pending /\ r.asr = v.asr
        /\ r.translating = v.translating /\ r.cycle = v.cycle /\ r.cancelled = v.cancelled
        /\ r.pastes = v.pastes /\ r.late = v.late /\ r.connected = v.connected
        /\ r.co.state = v.co.state /\ r.co.device = v.co.device /\ r.co.error = v.co.error
        /\ r.overlay = v.overlay /\ r.posted = v.posted /\ r.shown = v.shown
    BY <1>3, FinishIs
  <1> HIDE DEF r
  <1>6. r \in Worlds /\ Cleared(w, r)
    BY <1>2, <1>4, <1>5 DEF Cleared
  <1> QED
    BY <1>1, <1>6 DEF r

\* CancelPendingPaste: the side button.
LEMMA SideButtonGood ==
    ASSUME NEW w \in Worlds, NEW a, Good(w, a), NEW d \in Devices
    PROVE  CancelPendingPaste(w, d) \in Worlds /\ Good(CancelPendingPaste(w, d), a)
  <1> DEFINE busy == w.co.session # 0 \/ w.co.state = "finalizing"
  <1>1. Held(w, a)
    BY DEF Good
  <1>2. CASE busy /\ w.co.device = d
    BY <1>1, <1>2, CancelGood DEF CancelPendingPaste, CancelRecognitionInProgress
  <1>3. CASE busy /\ w.co.device # d
    BY <1>3, RefreshGood DEF CancelPendingPaste
  <1>4. CASE ~busy /\ w.co.pending = "idle"
    <2>1. d # None
      BY Bounds
    <2> QED
      BY <1>4, <2>1, RestoreGood DEF CancelPendingPaste
  <1>5. CASE ~busy /\ w.co.pending # "idle" /\ w.co.device # d
    BY <1>5 DEF CancelPendingPaste
  <1>6. CASE ~busy /\ w.co.pending # "idle" /\ w.co.device = d
    <2> DEFINE s == FinishRecognitionCycle(Dropped(w))
    <2>1. CancelPendingPaste(w, d) = EnterReady(s, "ui")
      BY <1>6 DEF CancelPendingPaste, Dropped
    <2>2. w.co.text # 0 /\ (~w.late => Quiet(w, a))
      BY <1>1, <1>6 DEF Held, MembersAgree, Busy
    <2>3. s \in Worlds /\ Cleared(w, s)
      BY <2>2, DroppedIs
    <2> HIDE DEF s
    <2>4. Held(s, a) /\ (~s.late => Quiet(s, a)) /\ s.co.text = 0 /\ ~s.co.sent_final
      BY <1>1, <2>2, <2>3, ClearedHeld DEF Cleared
    <2> QED
      BY <2>1, <2>3, <2>4, EnterReadyGood
  <1> QED
    BY <1>2, <1>3, <1>4, <1>5, <1>6

-----------------------------------------------------------------------------
(* Callbacks of the ASR client *)

\* A call that another thread posts.
LEMMA PostGood ==
    ASSUME NEW w \in Worlds, NEW a, Good(w, a), NEW display \in OverlayModes \ {"error"},
           NEW callback \in Callbacks
    PROVE  LET r == DispatchToUi(w, "asr", display, callback) IN
           /\ r \in Worlds /\ Unchanged(w, r) /\ Good(r, a)
  <1> DEFINE c == [mode |-> display, callback |-> callback]
             r == [w EXCEPT !.posted = Append(@, c)]
  <1>1. c \in Calls /\ c.mode # "error"
    BY DEF Calls
  <1>2. DispatchToUi(w, "asr", display, callback) = r
    BY DEF DispatchToUi
  <1> HIDE DEF c
  <1>3. /\ r \in Worlds /\ Unchanged(w, r) /\ r.overlay = w.overlay /\ r.shown = w.shown
        /\ ErrorsRecover(w) => ErrorsRecover(r)
        /\ \A m \in OverlayModes : PostedIn(w, m) => PostedIn(r, m)
    BY <1>1, PostIs
  <1> HIDE DEF r
  <1>4. Held(w, a)
    BY DEF Good
  <1>5. /\ ErrorsRecover(r) /\ (Busy(w) => Busy(r)) /\ (r.co.state # "ready" => w.cycle # 0)
        /\ Others(w) => Others(r)
    BY <1>3, <1>4 DEF Held, Numbered, Busy, Others, Unchanged, Same, SameRecording
  <1>6. ~w.late => Others(r) /\ (Busy(r) \/ Quiet(w, a))
    BY <1>4, <1>5 DEF Held
  <1>7. Held(r, a)
    BY <1>3, <1>4, <1>5, <1>6, SameHeld DEF Unchanged
  <1>8. Coming(r) = Coming(w)
    BY <1>3 DEF Coming
  <1>9. EndsBy(w, a, Coming(w)) => EndsBy(r, a, Coming(r))
    BY <1>3, <1>8, EndsByKept
  <1>10. Good(r, a)
    BY <1>3, <1>7, <1>9 DEF Good, Unchanged, Same, SameRecording
  <1> QED
    BY <1>2, <1>3, <1>10

\* A callback may come late.
Told(w, b) == [w EXCEPT !.late = @ \/ b]

\* A callback is in time unless its recording was cancelled meanwhile.
LEMMA ToldIs ==
    ASSUME NEW w \in Worlds, NEW a \in Answers, Good(w, a)
    PROVE  LET r == Told(w, a.of \in w.cancelled) IN
           /\ r \in Worlds /\ Held(r, a) /\ Held(r, NoAnswer)
           /\ r.co.session # 0 => ~r.co.sent_final
           /\ ~r.late => /\ EndsBy(r, a, Coming(r))
                         /\ r.co.state = "ready" <=> r.co.device = None
                         /\ a.of \notin r.cancelled
                         /\ a.kind # "none" => Busy(r)
  <1> DEFINE l == w.late \/ a.of \in w.cancelled
             r == [w EXCEPT !.late = l]
  <1>1. Told(w, a.of \in w.cancelled) = r
    BY DEF Told
  <1>2. l \in BOOLEAN
    BY DEF Worlds
  <1>3. l <=> w.late \/ a.of \in w.cancelled
    OBVIOUS
  <1> HIDE DEF l
  <1>4. /\ r \in Worlds /\ r.late = l /\ r.co = w.co /\ r.overlay = w.overlay
        /\ r.posted = w.posted /\ r.shown = w.shown /\ r.connected = w.connected
        /\ r.cancelled = w.cancelled /\ SameRecording(w, r) /\ r.asr = w.asr
        /\ r.translating = w.translating
    BY <1>2 DEF Worlds, SameRecording
  <1> HIDE DEF r
  <1>5. Held(w, a) /\ (w.late => l)
    BY <1>3 DEF Good
  <1>6. ErrorsRecover(r) /\ (r.co.state # "ready" => w.cycle # 0)
    BY <1>4, <1>5 DEF Held, ErrorsRecover, Numbered
  <1>7. ~r.late => Others(r) /\ (Busy(r) \/ Quiet(w, a))
    BY <1>4, <1>5 DEF Held, Others, Busy
  <1>8. Held(r, a)
    BY <1>4, <1>5, <1>6, <1>7, LaterHeld
  <1>9. Held(r, NoAnswer)
    BY <1>4, <1>8, MadeHeld
  <1>10. EndsBy(w, a, Coming(w)) => EndsBy(r, a, Coming(r))
    BY <1>4 DEF EndsBy, Coming, RecoversBy, PostedIn, Awaited
  <1>11. ASSUME ~r.late
         PROVE  /\ EndsBy(r, a, Coming(r))
                /\ r.co.state = "ready" <=> r.co.device = None
                /\ a.of \notin r.cancelled
                /\ a.kind # "none" => Busy(r)
    <2>1. ~w.late /\ a.of \notin r.cancelled
      BY <1>3, <1>4, <1>11
    <2>2. a.kind # "none" => Busy(r)
      BY <1>8, <1>11, <2>1 DEF Held, Quiet
    <2> QED
      BY <1>4, <1>10, <2>1, <2>2 DEF Good
  <1>12. r.co.session # 0 => ~r.co.sent_final
    BY <1>4 DEF Good
  <1> QED
    BY <1>1, <1>4, <1>8, <1>9, <1>11, <1>12

\* OnPartial.
LEMMA PartialGood ==
    ASSUME NEW w \in Worlds, Good(w, NoAnswer), ~w.late => w.co.device # None
    PROVE  OnPartial(w) \in Worlds /\ Good(OnPartial(w), NoAnswer)
  <1> DEFINE p == DispatchToUi(w, "asr", "listening", NoCallback)
             r == SendUiStateForActiveDevice(p, "thinking")
  <1>1. /\ NoCallback \in Callbacks /\ "listening" \in OverlayModes \ {"error"}
        /\ "thinking" \in Shows
    BY CallbacksDiffer DEF OverlayModes, Shows
  <1>2. p \in Worlds /\ Unchanged(w, p) /\ Good(p, NoAnswer)
    BY <1>1, PostGood
  <1>3. OnPartial(w) = IF w.co.sent_final THEN r ELSE p
    BY DEF OnPartial
  <1> HIDE DEF p
  <1>4. /\ r \in Worlds /\ Unchanged(p, r) /\ r.overlay = p.overlay /\ r.posted = p.posted
        /\ Others(p) /\ p.co.device # None => Others(r)
    BY <1>1, <1>2, SendIs, SendTellsOthers
  <1> HIDE DEF r
  <1>5. ~p.late => p.co.device # None
    BY <1>2 DEF Unchanged, Same
  <1>6. Good(r, NoAnswer)
    BY <1>2, <1>4, <1>5, GoodKept
  <1> QED
    BY <1>2, <1>3, <1>4, <1>6

\* The text of a recording has come.
Got(w) == [w EXCEPT !.co.pasted_final = TRUE]

\* The text of a recording is taken once: the client has given up its session.
LEMMA GotIs ==
    ASSUME NEW w \in Worlds, NEW a \in Answers, Held(w, a), Held(w, NoAnswer),
           a.kind \in {"final", "empty"},
           ~w.late => a.of \notin w.cancelled /\ Busy(w)
    PROVE  LET r == Got(w) IN
           /\ r \in Worlds /\ Held(r, NoAnswer)
           /\ r.co.pasted_final /\ r.co.state = w.co.state /\ r.co.device = w.co.device
           /\ r.co.session = w.co.session /\ r.co.sent_final = w.co.sent_final
           /\ r.co.text = w.co.text /\ r.co.last = w.co.last /\ r.asr = w.asr
           /\ r.translating = w.translating /\ r.cycle = w.cycle /\ r.late = w.late
           /\ r.cancelled = w.cancelled /\ r.pastes = w.pastes
           /\ ~r.late => /\ Busy(r) /\ Quiet(r, NoAnswer) /\ ~w.co.pasted_final
                         /\ a.of = r.cycle
  <1> DEFINE m == [w.co EXCEPT !.pasted_final = TRUE]
             r == [w EXCEPT !.co = m]
  <1>1. TRUE \in BOOLEAN
    OBVIOUS
  <1>2. /\ m \in Members /\ m.pasted_final
        /\ m.session = w.co.session /\ m.sent_final = w.co.sent_final
        /\ m.text = w.co.text /\ m.last = w.co.last /\ m.last_device = w.co.last_device
        /\ m.pending = w.co.pending /\ m.asr_started = w.co.asr_started
        /\ m.waiting = w.co.waiting
        /\ m.state = w.co.state /\ m.device = w.co.device /\ m.error = w.co.error
    BY <1>1 DEF Worlds, Members
  <1> HIDE DEF m
  <1>3. /\ r \in Worlds /\ r.co = m /\ r.asr = w.asr /\ r.translating = w.translating
        /\ r.cycle = w.cycle /\ r.cancelled = w.cancelled /\ r.pastes = w.pastes
        /\ r.late = w.late /\ r.connected = w.connected
        /\ r.posted = w.posted /\ r.shown = w.shown
    BY <1>2 DEF Worlds
  <1>4. Got(w) = r
    BY DEF Got, m
  <1> HIDE DEF r
  <1>5. NoAnswer.kind = "none" /\ NoAnswer.of = 0
    BY DEF NoAnswer
  <1>6. Numbered(r, NoAnswer)
    BY <1>2, <1>3 DEF Held, Numbered
  <1>7. TextsApart(r, NoAnswer)
    <2>1. ASSUME NEW t \in Cycles, Apart(w, NoAnswer, t)
          PROVE  Apart(r, NoAnswer, t)
      BY <1>2, <1>3, <2>1 DEF Apart, Source
    <2> QED
      BY <2>1 DEF Held, TextsApart
  <1>8. MembersAgree(r, NoAnswer)
    BY <1>2, <1>3 DEF Held, MembersAgree
  <1>9. ErrorsRecover(r)
    BY <1>3 DEF Held, ErrorsRecover
  <1>10. ASSUME ~r.late
         PROVE  /\ Busy(r) /\ Quiet(r, NoAnswer) /\ ~w.co.pasted_final /\ a.of = r.cycle
                /\ OnlyLast(r, NoAnswer) /\ Stages(r, NoAnswer) /\ Others(r)
    <2>1. /\ Busy(w) /\ Stages(w, a) /\ OnlyLast(w, a) /\ Others(w) /\ a.of \notin w.cancelled
          /\ OnlyLast(w, NoAnswer)
      BY <1>3, <1>10 DEF Held
    <2>2. /\ ~w.co.pasted_final /\ w.co.session = 0 /\ w.asr.of = 0
          /\ w.translating \subseteq w.cancelled /\ a.of = w.cycle
      BY <2>1 DEF Stages, OnlyLast
    <2>3. Quiet(r, NoAnswer)
      BY <1>2, <1>3, <1>5, <2>2 DEF Quiet
    <2>4. Busy(r) /\ Others(r) /\ OnlyLast(r, NoAnswer)
      BY <1>2, <1>3, <2>1 DEF Busy, Others, OnlyLast
    <2>5. Stages(r, NoAnswer)
      BY <1>2, <1>3, <1>5, <2>2 DEF Stages
    <2> QED
      BY <1>3, <2>2, <2>3, <2>4, <2>5
  <1>11. Held(r, NoAnswer)
    BY <1>6, <1>7, <1>8, <1>9, <1>10 DEF Held
  <1> QED
    BY <1>2, <1>3, <1>4, <1>10, <1>11

\* The text is kept for another confirmation.
WithLast(w, t) == [w EXCEPT !.co.last = t, !.co.last_device = w.co.device]

\* The text that is kept is one that nothing else comes from.
LEMMA WithLastIs ==
    ASSUME NEW w \in Worlds, NEW a, Held(w, a), NEW t \in Cycles, t <= w.cycle,
           ~Source(w, t), a.of # t, t \notin w.translating, ~w.late => w.co.device # None
    PROVE  LET r == WithLast(w, t) IN
           /\ r \in Worlds /\ Held(r, a)
           /\ r.co.device = w.co.device /\ r.co.session = w.co.session
           /\ r.co.sent_final = w.co.sent_final /\ r.late = w.late
           /\ Quiet(w, a) => Quiet(r, a)
           /\ w.pastes[t] = 0 => Fresh(r, a, t)
  <1> DEFINE m == [w.co EXCEPT !.last = t, !.last_device = w.co.device]
             r == [w EXCEPT !.co = m]
  <1>1. t \in Texts /\ t # 0 /\ t \in Nat
    BY Bounds DEF Texts
  <1>2. /\ m \in Members /\ m.last = t /\ m.last_device = w.co.device
        /\ m.session = w.co.session /\ m.sent_final = w.co.sent_final
        /\ m.text = w.co.text /\ m.pasted_final = w.co.pasted_final
        /\ m.pending = w.co.pending /\ m.asr_started = w.co.asr_started
        /\ m.waiting = w.co.waiting
        /\ m.state = w.co.state /\ m.device = w.co.device /\ m.error = w.co.error
    BY <1>1 DEF Worlds, Members
  <1> HIDE DEF m
  <1>3. /\ r \in Worlds /\ r.co = m /\ r.asr = w.asr /\ r.translating = w.translating
        /\ r.cycle = w.cycle /\ r.cancelled = w.cancelled /\ r.pastes = w.pastes
        /\ r.late = w.late /\ r.connected = w.connected
        /\ r.posted = w.posted /\ r.shown = w.shown
    BY <1>2 DEF Worlds
  <1>4. WithLast(w, t) = r
    BY DEF WithLast, m
  <1> HIDE DEF r
  <1>5. Numbered(r, a)
    BY <1>2, <1>3 DEF Held, Numbered
  <1>6. TextsApart(r, a)
    <2>1. ASSUME NEW u \in Cycles, Apart(w, a, u)
          PROVE  Apart(r, a, u)
      BY <1>2, <1>3, <2>1 DEF Apart, Source
    <2> QED
      BY <2>1 DEF Held, TextsApart
  <1>7. MembersAgree(r, a)
    BY <1>2, <1>3 DEF Held, MembersAgree
  <1>8. ErrorsRecover(r)
    BY <1>3 DEF Held, ErrorsRecover
  <1>9. Quiet(w, a) => Quiet(r, a)
    BY <1>2, <1>3 DEF Quiet
  <1>10. ASSUME ~r.late
         PROVE  /\ Busy(r) \/ Quiet(r, a)
                /\ OnlyLast(r, a) /\ Stages(r, a) /\ Others(r)
    <2>1. /\ Busy(w) \/ Quiet(w, a)
          /\ OnlyLast(w, a) /\ Stages(w, a) /\ Others(w) /\ w.co.device # None
      BY <1>3, <1>10 DEF Held
    <2>2. Busy(w) => Busy(r)
      BY <1>2, <1>3 DEF Busy
    <2>3. OnlyLast(r, a)
      BY <1>2, <1>3, <2>1 DEF OnlyLast
    <2>4. Stages(r, a)
      BY <1>2, <1>3, <2>1 DEF Stages
    <2>5. Others(r)
      BY <1>2, <1>3, <2>1 DEF Others
    <2> QED
      BY <1>9, <2>1, <2>2, <2>3, <2>4, <2>5
  <1>11. Held(r, a)
    BY <1>5, <1>6, <1>7, <1>8, <1>10 DEF Held
  <1>12. w.pastes[t] = 0 => Fresh(r, a, t)
    BY <1>2, <1>3 DEF Fresh, Source
  <1> QED
    BY <1>2, <1>3, <1>4, <1>9, <1>11, <1>12

\* A text that is translated.
Translates(w, t) == [w EXCEPT !.translating = @ \cup {t}]

\* A text that goes to the translation comes from nowhere else.
LEMMA TranslatesGood ==
    ASSUME NEW w \in Worlds, Held(w, NoAnswer), w.co.session # 0 => ~w.co.sent_final,
           NEW t \in Cycles, t <= w.cycle,
           ~Source(w, t), w.co.last # t, w.co.text # t, w.pastes[t] = 0, w.co.pasted_final,
           ~w.late => Busy(w) /\ Quiet(w, NoAnswer) /\ t = w.cycle
    PROVE  Translates(w, t) \in Worlds /\ Good(Translates(w, t), NoAnswer)
  <1> DEFINE g == w.translating \cup {t}
             r == [w EXCEPT !.translating = g]
  <1>1. g \in SUBSET Cycles /\ t \in g
    BY DEF Worlds
  <1>2. \A u \in g : u \in w.translating \/ u = t
    OBVIOUS
  <1>3. Translates(w, t) = r
    BY DEF Translates
  <1> HIDE DEF g
  <1>4. /\ r \in Worlds /\ r.co = w.co /\ r.asr = w.asr /\ r.translating = g
        /\ r.cycle = w.cycle /\ r.cancelled = w.cancelled /\ r.pastes = w.pastes
        /\ r.late = w.late /\ r.connected = w.connected
        /\ r.posted = w.posted /\ r.shown = w.shown /\ r.overlay = w.overlay
    BY <1>1 DEF Worlds
  <1> HIDE DEF r
  <1>5. NoAnswer.kind = "none" /\ NoAnswer.of = 0
    BY DEF NoAnswer
  <1>6. Numbered(r, NoAnswer)
    BY <1>2, <1>4 DEF Held, Numbered
  <1>7. TextsApart(r, NoAnswer)
    <2>1. ASSUME NEW u \in Cycles, Apart(w, NoAnswer, u)
          PROVE  Apart(r, NoAnswer, u)
      <3>1. u # 0
        BY Bounds
      <3> QED
        BY <1>2, <1>4, <1>5, <2>1, <3>1 DEF Apart, Source
    <2> QED
      BY <2>1 DEF Held, TextsApart
  <1>8. MembersAgree(r, NoAnswer) /\ ErrorsRecover(r)
    BY <1>4 DEF Held, MembersAgree, ErrorsRecover
  <1>9. ASSUME ~r.late
        PROVE  /\ Busy(r) /\ OnlyLast(r, NoAnswer) /\ Stages(r, NoAnswer) /\ Others(r)
               /\ EndsBy(r, NoAnswer, Coming(r))
               /\ r.co.state = "ready" <=> r.co.device = None
    <2>1. /\ Busy(w) /\ Quiet(w, NoAnswer) /\ t = w.cycle
          /\ OnlyLast(w, NoAnswer) /\ Others(w)
      BY <1>4, <1>9 DEF Held
    <2>2. Busy(r) /\ Others(r)
      BY <1>4, <2>1 DEF Busy, Others
    <2>3. OnlyLast(r, NoAnswer)
      BY <1>2, <1>4, <1>5, <2>1 DEF OnlyLast, Quiet
    <2>4. Stages(r, NoAnswer)
      BY <1>4, <1>5, <2>1 DEF Stages, Quiet
    <2>5. Awaited(r, NoAnswer)
      BY <1>1, <1>4 DEF Awaited
    <2>6. EndsBy(r, NoAnswer, Coming(r)) /\ (r.co.state = "ready" <=> r.co.device = None)
      BY <2>2, <2>5 DEF EndsBy, Busy
    <2> QED
      BY <2>2, <2>3, <2>4, <2>6
  <1>10. Held(r, NoAnswer)
    BY <1>6, <1>7, <1>8, <1>9 DEF Held
  <1> QED
    BY <1>3, <1>4, <1>9, <1>10 DEF Good

\* FinishWithFinalText, of a text.
LEMMA FinalTextGood ==
    ASSUME NEW w \in Worlds, NEW a \in Answers, Held(w, a), Held(w, NoAnswer),
           w.co.session # 0 => ~w.co.sent_final, a.kind = "final",
           ~w.late => a.of \notin w.cancelled /\ Busy(w)
    PROVE  LET r == FinishWithFinalText(w, "asr", a.of) IN r \in Worlds /\ Good(r, NoAnswer)
  <1> DEFINE t == a.of
             g == Got(w)
             s == WithLast(g, t)
  <1>1. t \in Cycles /\ t # 0 /\ t <= w.cycle
    BY DEF Held, MembersAgree, Numbered, Answers, Texts
  <1>2. Apart(w, a, t)
    BY <1>1 DEF Held, TextsApart
  <1>3. ~Source(w, t) /\ w.co.last # t /\ w.co.text # t /\ w.pastes[t] = 0
        /\ t \notin w.translating
    BY <1>2 DEF Apart
  <1>4. /\ g \in Worlds /\ Held(g, NoAnswer)
        /\ g.co.pasted_final /\ g.co.state = w.co.state /\ g.co.device = w.co.device
        /\ g.co.session = w.co.session /\ g.co.sent_final = w.co.sent_final
        /\ g.co.text = w.co.text /\ g.co.last = w.co.last /\ g.asr = w.asr
        /\ g.translating = w.translating /\ g.cycle = w.cycle /\ g.late = w.late
        /\ g.pastes = w.pastes
        /\ ~g.late => /\ Busy(g) /\ Quiet(g, NoAnswer) /\ ~w.co.pasted_final
                      /\ t = g.cycle
    BY GotIs
  <1>5. ~Source(g, t)
    BY <1>3, <1>4 DEF Source
  <1>6. NoAnswer.of = 0
    BY DEF NoAnswer
  <1>7. CASE w.co.pasted_final
    <2>1. w.late
      BY <1>4, <1>7
    <2> QED
      BY <1>7, <2>1 DEF FinishWithFinalText, Good
  <1>8. CASE ~w.co.pasted_final /\ translate
    <2>1. FinishWithFinalText(w, "asr", t) = Translates(g, t)
      BY <1>1, <1>8 DEF FinishWithFinalText, Translates, Got
    <2> HIDE DEF g, t
    <2>2. /\ t <= g.cycle /\ g.co.last # t /\ g.co.text # t /\ g.pastes[t] = 0
          /\ g.co.session # 0 => ~g.co.sent_final
      BY <1>1, <1>3, <1>4
    <2>3. Translates(g, t) \in Worlds /\ Good(Translates(g, t), NoAnswer)
      BY <1>1, <1>4, <1>5, <2>2, TranslatesGood
    <2> QED
      BY <2>1, <2>3 DEF t
  <1>9. CASE ~w.co.pasted_final /\ ~translate
    <2>1. FinishWithFinalText(w, "asr", t) = EnterPendingConfirmation(s, "asr", t)
      BY <1>1, <1>4, <1>9 DEF FinishWithFinalText, WithLast, Got
    <2> HIDE DEF g, t
    <2>2. /\ s \in Worlds /\ Held(s, NoAnswer)
          /\ s.co.device = g.co.device /\ s.co.session = g.co.session
          /\ s.co.sent_final = g.co.sent_final /\ s.late = g.late
          /\ Quiet(g, NoAnswer) => Quiet(s, NoAnswer)
          /\ g.pastes[t] = 0 => Fresh(s, NoAnswer, t)
      <3>1. /\ t <= g.cycle /\ NoAnswer.of # t /\ t \notin g.translating
            /\ ~g.late => g.co.device # None
        BY <1>1, <1>3, <1>4, <1>6 DEF Busy
      <3> QED
        BY <1>1, <1>4, <1>5, <3>1, WithLastIs
    <2> HIDE DEF s
    <2>3. Fresh(s, NoAnswer, t)
      BY <1>3, <1>4, <2>2
    <2>4. ~s.late => Quiet(s, NoAnswer) /\ s.co.device # None
      BY <1>4, <2>2 DEF Busy
    <2>5. s.co.session # 0 => ~s.co.sent_final
      BY <1>4, <2>2
    <2>6. /\ EnterPendingConfirmation(s, "asr", t) \in Worlds
          /\ Good(EnterPendingConfirmation(s, "asr", t), NoAnswer)
      BY <2>2, <2>3, <2>4, <2>5, ConfirmationGood
    <2> QED
      BY <2>1, <2>6 DEF t
  <1> QED
    BY <1>7, <1>8, <1>9

\* The same without words.
LEMMA EmptyTextGood ==
    ASSUME NEW w \in Worlds, NEW a \in Answers, Held(w, a), Held(w, NoAnswer),
           a.kind = "empty", w.co.session # 0 => ~w.co.sent_final,
           ~w.late => a.of \notin w.cancelled /\ Busy(w)
    PROVE  LET r == FinishWithFinalText(w, "asr", 0) IN r \in Worlds /\ Good(r, NoAnswer)
  <1> DEFINE g == Got(w)
             f == FinishRecognitionCycle(WithoutText(g))
             h == DispatchToUi(f, "asr", "hidden", NoCallback)
             r == EnterReadyShown(h)
  <1>1. /\ g \in Worlds /\ Held(g, NoAnswer) /\ g.late = w.late
        /\ ~g.late => Quiet(g, NoAnswer) /\ ~w.co.pasted_final
    BY GotIs
  <1>2. CASE w.co.pasted_final
    <2>1. w.late
      BY <1>1, <1>2
    <2> QED
      BY <1>2, <2>1 DEF FinishWithFinalText, Good
  <1>3. CASE ~w.co.pasted_final
    <2>1. FinishWithFinalText(w, "asr", 0) = r
      BY <1>3 DEF FinishWithFinalText, WithoutText, Got
    <2> HIDE DEF g
    <2>2. f \in Worlds /\ Cleared(g, f)
      BY <1>1, WithoutTextIs
    <2> HIDE DEF f
    <2>3. Held(f, NoAnswer) /\ (~f.late => Quiet(f, NoAnswer))
      BY <1>1, <2>2, ClearedHeld
    <2>4. f.co.text = 0 /\ ~f.co.sent_final
      BY <2>2 DEF Cleared
    <2>5. /\ h \in Worlds /\ Same(f, h) /\ (Others(f) => Others(h))
          /\ ErrorsRecover(f) => ErrorsRecover(h)
      BY <2>2, <2>4, HideIs
    <2> HIDE DEF h
    <2>6. /\ r \in Worlds /\ Same(h, r) /\ r.co.state = "ready" /\ r.co.device = None
          /\ r.posted = h.posted /\ (Others(h) => Others(r))
      BY <2>5, ReadyShownIs, AllReadyOthers
    <2> HIDE DEF r
    <2>7. Same(f, r) /\ (Others(f) => Others(r)) /\ ErrorsRecover(r)
      BY <2>3, <2>5, <2>6, SameTwice DEF Held, ErrorsRecover
    <2>8. Good(r, NoAnswer)
      BY <2>3, <2>4, <2>6, <2>7, SettledGood
    <2> QED
      BY <2>1, <2>6, <2>8
  <1> QED
    BY <1>2, <1>3

\* OnUpgrade, after the error was shown.
LEMMA UpgradeGood ==
    ASSUME NEW w \in Worlds, NEW a, Held(w, a), w.cycle # 0, ~w.late => w.co.device # None
    PROVE  OnUpgrade(w) \in Worlds /\ Good(OnUpgrade(w), a)
  <1> DEFINE g == FinishWithAsrError(w, "asr")
             r == RecoverFromAsrError(g)
  <1>1. g \in Worlds /\ Good(g, a) /\ g.co.error /\ g.co.session = 0
    BY AsrErrorGood
  <1> HIDE DEF g
  <1>2. /\ r \in Worlds /\ Same(g, r) /\ r.posted = g.posted
        /\ r.co.state = "ready" /\ r.co.device = None /\ (Others(g) => Others(r))
    BY <1>1, RecoverIs
  <1> HIDE DEF r
  <1>3. ErrorsRecover(r) /\ (~g.late => Quiet(g, a))
    BY <1>1, <1>2 DEF Good, Held, ErrorsRecover, Busy
  <1>4. Good(r, a)
    BY <1>1, <1>2, <1>3, SettledGood DEF Good
  <1>5. ShowDialog \in Callbacks /\ "hidden" \in OverlayModes \ {"error"}
    BY CallbacksDiffer DEF OverlayModes
  <1>6. OnUpgrade(w) = DispatchToUi(r, "asr", "hidden", ShowDialog)
    BY DEF OnUpgrade, r, g
  <1> QED
    BY <1>2, <1>4, <1>5, <1>6, PostGood

\* The callback that the worker is about to make.
LEMMA DeliverGood ==
    ASSUME NEW w \in Worlds, answer \in Answers, Good(w, answer)
    PROVE  Deliver(w) \in Worlds /\ Good(Deliver(w), NoAnswer)
  <1> PICK a \in Answers : a = answer
    OBVIOUS
  <1> DEFINE t == Told(w, a.of \in w.cancelled)
  <1>1. /\ t \in Worlds /\ Held(t, a) /\ Held(t, NoAnswer)
        /\ t.co.session # 0 => ~t.co.sent_final
        /\ ~t.late => /\ EndsBy(t, a, Coming(t))
                      /\ t.co.state = "ready" <=> t.co.device = None
                      /\ a.of \notin t.cancelled
                      /\ a.kind # "none" => Busy(t)
    BY ToldIs
  <1>2. Deliver(w) = CASE a.kind = "partial" -> OnPartial(t)
                       [] a.kind = "final"   -> FinishWithFinalText(t, "asr", a.of)
                       [] a.kind = "empty"   -> FinishWithFinalText(t, "asr", 0)
                       [] a.kind = "error"   -> FinishWithAsrError(t, "asr")
                       [] a.kind = "upgrade" -> OnUpgrade(t)
                       [] OTHER              -> t
    BY DEF Deliver, Told
  <1> HIDE DEF t
  <1>3. a.kind # "none" => t.cycle # 0 /\ (~t.late => t.co.device # None)
    <2>1. a.of \in Nat /\ t.cycle \in Nat
      BY <1>1, Bounds DEF Answers, Worlds
    <2>2. a.kind # "none" => a.of # 0 /\ a.of <= t.cycle
      BY <1>1 DEF Held, MembersAgree, Numbered
    <2> QED
      BY <1>1, <2>1, <2>2 DEF Busy
  <1>4. CASE a.kind \in {"none", "partial"}
    <2>1. NoAnswer.kind = "none"
      BY DEF NoAnswer
    <2>2. EndsBy(t, a, Coming(t)) => EndsBy(t, NoAnswer, Coming(t))
      BY <1>4, <2>1 DEF EndsBy, Awaited
    <2>3. Good(t, NoAnswer)
      BY <1>1, <2>2 DEF Good
    <2> QED
      BY <1>1, <1>2, <1>3, <1>4, <2>3, PartialGood
  <1>5. CASE a.kind = "final"
    <2>1. Deliver(w) = FinishWithFinalText(t, "asr", a.of)
      BY <1>2, <1>5
    <2> QED
      BY <1>1, <1>5, <2>1, FinalTextGood
  <1>6. CASE a.kind = "empty"
    <2>1. Deliver(w) = FinishWithFinalText(t, "asr", 0)
      BY <1>2, <1>6
    <2> QED
      BY <1>1, <1>6, <2>1, EmptyTextGood
  <1>7. CASE a.kind = "error"
    <2>1. Deliver(w) = FinishWithAsrError(t, "asr")
      BY <1>2, <1>7
    <2> QED
      BY <1>1, <1>3, <1>7, <2>1, AsrErrorGood
  <1>8. CASE a.kind = "upgrade"
    <2>1. Deliver(w) = OnUpgrade(t)
      BY <1>2, <1>8
    <2> QED
      BY <1>1, <1>3, <1>8, <2>1, UpgradeGood
  <1> QED
    BY <1>4, <1>5, <1>6, <1>7, <1>8 DEF Answers

\* A translation, that nobody may be waiting for any more.
Taken(w, t) == [w EXCEPT !.translating = @ \ {t}, !.late = @ \/ t \in w.cancelled]

\* A translation that is done leaves its text to its completion alone.
LEMMA TakenIs ==
    ASSUME NEW w \in Worlds, NEW a, Good(w, a), NEW t \in w.translating
    PROVE  LET r == Taken(w, t) IN
           /\ r \in Worlds /\ Held(r, a) /\ (r.co.session # 0 => ~r.co.sent_final)
           /\ t \in Cycles /\ t <= r.cycle /\ r.cycle # 0 /\ ~Source(r, t) /\ a.of # t
           /\ t \notin r.translating /\ r.pastes[t] = 0
           /\ ~r.late => Busy(r) /\ Quiet(r, a)
  <1> DEFINE l == w.late \/ t \in w.cancelled
             g == w.translating \ {t}
             r == [w EXCEPT !.translating = g, !.late = l]
  <1>1. Taken(w, t) = r
    BY DEF Taken
  <1>2. l \in BOOLEAN
    BY DEF Worlds
  <1>3. l <=> w.late \/ t \in w.cancelled
    OBVIOUS
  <1>4. /\ g \in SUBSET Cycles /\ t \notin g /\ t \in Cycles
        /\ \A u \in g : u \in w.translating /\ u # t
    BY DEF Worlds
  <1> HIDE DEF l, g
  <1>5. /\ r \in Worlds /\ r.co = w.co /\ r.asr = w.asr /\ r.translating = g
        /\ r.cycle = w.cycle /\ r.cancelled = w.cancelled /\ r.pastes = w.pastes
        /\ r.late = l /\ r.connected = w.connected
        /\ r.posted = w.posted /\ r.shown = w.shown
    BY <1>2, <1>4 DEF Worlds
  <1> HIDE DEF r
  <1>6. Held(w, a)
    BY DEF Good
  <1>7. Apart(w, a, t)
    BY <1>4, <1>6 DEF Held, TextsApart
  <1>8. /\ t <= r.cycle /\ ~Source(r, t) /\ a.of # t /\ r.pastes[t] = 0
    BY <1>5, <1>6, <1>7 DEF Apart, Source, Held, Numbered
  <1>9. r.cycle # 0
    BY <1>4, <1>5, <1>8, Bounds DEF Worlds
  <1>10. Numbered(r, a)
    BY <1>4, <1>5, <1>6 DEF Held, Numbered
  <1>11. TextsApart(r, a)
    <2>1. ASSUME NEW u \in Cycles, Apart(w, a, u)
          PROVE  Apart(r, a, u)
      BY <1>4, <1>5, <2>1 DEF Apart, Source
    <2> QED
      BY <1>6, <2>1 DEF Held, TextsApart
  <1>12. MembersAgree(r, a) /\ ErrorsRecover(r)
    BY <1>5, <1>6 DEF Held, MembersAgree, ErrorsRecover
  <1>13. ASSUME ~r.late
         PROVE  /\ Busy(r) /\ Quiet(r, a)
                /\ OnlyLast(r, a) /\ Stages(r, a) /\ Others(r)
    <2>1. ~w.late /\ t \notin w.cancelled
      BY <1>3, <1>5, <1>13
    <2>2. (Busy(w) \/ Quiet(w, a)) /\ OnlyLast(w, a) /\ Stages(w, a) /\ Others(w)
      BY <1>6, <2>1 DEF Held
    <2>3. Busy(w)
      BY <2>1, <2>2 DEF Quiet
    <2>4. w.co.pasted_final /\ t = w.cycle
      BY <2>1, <2>2 DEF Stages, OnlyLast
    <2>5. g \subseteq w.cancelled
      BY <1>4, <2>2, <2>4 DEF OnlyLast
    <2>6. Quiet(r, a)
      BY <1>5, <2>2, <2>4, <2>5 DEF Quiet, Stages
    <2>7. Busy(r) /\ Others(r)
      BY <1>5, <2>2, <2>3 DEF Busy, Others
    <2>8. OnlyLast(r, a)
      BY <1>5, <2>2, <2>5 DEF OnlyLast
    <2>9. Stages(r, a)
      BY <1>5, <2>6 DEF Stages, Quiet
    <2> QED
      BY <2>6, <2>7, <2>8, <2>9
  <1>14. Held(r, a)
    BY <1>10, <1>11, <1>12, <1>13 DEF Held
  <1>15. r.co.session # 0 => ~r.co.sent_final
    BY <1>5 DEF Good
  <1> QED
    BY <1>1, <1>4, <1>5, <1>8, <1>9, <1>13, <1>14, <1>15

\* The completion of a translation shows its text or an error.
LEMMA TranslatedGood ==
    ASSUME NEW w \in Worlds, NEW a, Good(w, a), NEW t \in w.translating
    PROVE  LET s == Taken(w, t)
               p == EnterPendingConfirmation(WithLast(s, t), "translator", t)
               e == FinishWithAsrError(s, "translator")
           IN  p \in Worlds /\ Good(p, a) /\ e \in Worlds /\ Good(e, a)
  <1> DEFINE s == Taken(w, t)
             u == WithLast(s, t)
             p == EnterPendingConfirmation(u, "translator", t)
             e == FinishWithAsrError(s, "translator")
  <1>1. /\ s \in Worlds /\ Held(s, a) /\ (s.co.session # 0 => ~s.co.sent_final)
        /\ t \in Cycles /\ t <= s.cycle /\ s.cycle # 0 /\ ~Source(s, t) /\ a.of # t
        /\ t \notin s.translating /\ s.pastes[t] = 0
        /\ ~s.late => Busy(s) /\ Quiet(s, a)
    BY TakenIs
  <1> HIDE DEF s
  <1>2. ~s.late => s.co.device # None
    BY <1>1 DEF Busy
  <1>3. e \in Worlds /\ Good(e, a)
    BY <1>1, <1>2, AsrErrorGood
  <1>4. /\ u \in Worlds /\ Held(u, a)
        /\ u.co.device = s.co.device /\ u.co.session = s.co.session
        /\ u.co.sent_final = s.co.sent_final /\ u.late = s.late
        /\ Quiet(s, a) => Quiet(u, a)
        /\ s.pastes[t] = 0 => Fresh(u, a, t)
    BY <1>1, <1>2, WithLastIs
  <1> HIDE DEF u
  <1>5. p \in Worlds /\ Good(p, a)
    BY <1>1, <1>2, <1>4, ConfirmationGood
  <1> QED
    BY <1>3, <1>5 DEF p, u, e, s

\* The worker settles on a callback for its session.
Decided(w, kind) == [w EXCEPT !.asr = IF kind = "partial" THEN @ ELSE NoSession]

\* A callback of the ASR client takes its session's text away from the client.
LEMMA DecidesGood ==
    ASSUME NEW w \in Worlds, Good(w, NoAnswer), w.asr.of # 0,
           NEW kind \in {"partial", "final", "empty", "error", "upgrade"},
           kind \in {"final", "empty"} => w.asr.last
    PROVE  LET a == [kind |-> kind, of |-> w.asr.of]
               r == Decided(w, kind)
           IN  a \in Answers /\ r \in Worlds /\ Good(r, a)
  <1> DEFINE a == [kind |-> kind, of |-> w.asr.of]
             x == IF kind = "partial" THEN w.asr ELSE NoSession
             r == [w EXCEPT !.asr = x]
  <1>1. a \in Answers /\ a.kind = kind /\ a.of = w.asr.of
    BY DEF Answers, Worlds, AsrSessions
  <1>2. NoSession \in AsrSessions /\ NoSession.of = 0 /\ ~NoSession.last
    <2>1. FALSE \in BOOLEAN /\ 0 \in Texts
      BY Bounds
    <2> QED
      BY <2>1 DEF NoSession, AsrSessions
  <1>3. /\ x \in AsrSessions
        /\ kind = "partial" => x = w.asr
        /\ kind # "partial" => x = NoSession
    BY <1>2 DEF Worlds
  <1>4. Decided(w, kind) = r
    BY DEF Decided
  <1> HIDE DEF x, a
  <1>5. /\ r \in Worlds /\ r.co = w.co /\ r.asr = x /\ r.translating = w.translating
        /\ r.cycle = w.cycle /\ r.cancelled = w.cancelled /\ r.pastes = w.pastes
        /\ r.late = w.late /\ r.connected = w.connected
        /\ r.posted = w.posted /\ r.shown = w.shown /\ r.overlay = w.overlay
    BY <1>3 DEF Worlds
  <1> HIDE DEF r
  <1>6. Held(w, NoAnswer) /\ NoAnswer.kind = "none" /\ NoAnswer.of = 0
    BY DEF Good, NoAnswer
  <1>7. x.of \in {0, w.asr.of} /\ (x.last => x = w.asr) /\ (x.of = 0 => ~x.last)
    BY <1>2, <1>3, <1>6 DEF Held, MembersAgree
  <1>8. kind \in {"final", "empty"} => x.of = 0 /\ w.co.session # w.asr.of
    BY <1>2, <1>3, <1>6 DEF Held, MembersAgree
  <1>9. Numbered(r, a)
    <2>1. r.asr.of <= r.cycle
      BY <1>5, <1>6, <1>7, Bounds DEF Held, Numbered, Worlds
    <2> QED
      BY <1>1, <1>5, <1>6, <2>1 DEF Held, Numbered
  <1>10. TextsApart(r, a)
    <2>1. ASSUME NEW t \in Cycles, Apart(w, NoAnswer, t)
          PROVE  Apart(r, a, t)
      <3>1. t # 0
        BY Bounds
      <3>2. Source(r, t) => Source(w, t)
        BY <1>5, <1>7, <3>1 DEF Source
      <3>3. a.of = t => Source(w, t)
        BY <1>1 DEF Source
      <3>4. Source(r, t) => a.of # t \/ a.kind \notin {"final", "empty"}
        BY <1>1, <1>5, <1>8, <3>1 DEF Source
      <3> QED
        BY <1>5, <2>1, <3>2, <3>3, <3>4 DEF Apart
    <2> QED
      BY <1>6, <2>1 DEF Held, TextsApart
  <1>11. MembersAgree(r, a)
    BY <1>1, <1>5, <1>6, <1>7 DEF Held, MembersAgree
  <1>12. ErrorsRecover(r)
    BY <1>5, <1>6 DEF Held, ErrorsRecover
  <1>13. ASSUME ~r.late
         PROVE  /\ Busy(r) /\ OnlyLast(r, a) /\ Stages(r, a) /\ Others(r)
                /\ EndsBy(r, a, Coming(r))
                /\ r.co.state = "ready" <=> r.co.device = None
    <2>1. /\ Busy(w) \/ Quiet(w, NoAnswer)
          /\ OnlyLast(w, NoAnswer) /\ Stages(w, NoAnswer) /\ Others(w)
      BY <1>5, <1>6, <1>13 DEF Held
    <2>2. Busy(r)
      BY <1>5, <2>1 DEF Busy, Quiet
    <2>3. w.asr.of = w.cycle /\ ~w.co.pasted_final
      BY <2>1 DEF OnlyLast, Stages
    <2>4. OnlyLast(r, a)
      BY <1>1, <1>5, <1>7, <2>1, <2>3 DEF OnlyLast
    <2>5. kind \in {"final", "empty"} => w.co.session = 0
      BY <1>6, <1>8, <2>3 DEF Held, Numbered
    <2>6. Stages(r, a)
      BY <1>1, <1>5, <1>7, <1>8, <2>1, <2>3, <2>5 DEF Stages
    <2>7. Others(r)
      BY <1>5, <2>1 DEF Others
    <2>8. Awaited(r, a)
      BY <1>1, <1>3, <1>5 DEF Awaited
    <2>9. EndsBy(r, a, Coming(r)) /\ (r.co.state = "ready" <=> r.co.device = None)
      BY <2>2, <2>8 DEF EndsBy, Busy
    <2> QED
      BY <2>2, <2>4, <2>6, <2>7, <2>9
  <1>14. Held(r, a)
    BY <1>9, <1>10, <1>11, <1>12, <1>13 DEF Held
  <1>15. Good(r, a)
    BY <1>5, <1>13, <1>14 DEF Good
  <1> QED
    BY <1>1, <1>4, <1>5, <1>15 DEF a

-----------------------------------------------------------------------------
(* Connections, and the menu *)

\* Sessions come and go without a word.
LEMMA ConnectionGood ==
    ASSUME NEW w, NEW r, NEW a, Good(w, a), SameRecording(w, r), r.late = w.late, r.co = w.co,
           r.overlay = w.overlay, r.posted = w.posted, Others(w) => Others(r)
    PROVE  Good(r, a)
  <1>1. Held(w, a)
    BY DEF Good
  <1>2. ErrorsRecover(r) /\ (Busy(w) => Busy(r)) /\ (r.co.state # "ready" => w.cycle # 0)
    BY <1>1 DEF Held, ErrorsRecover, Numbered, Busy
  <1>3. ~r.late => Others(r) /\ (Busy(r) \/ Quiet(w, a))
    BY <1>1, <1>2 DEF Held
  <1>4. Held(r, a)
    BY <1>1, <1>2, <1>3, LaterHeld
  <1>5. EndsBy(w, a, Coming(w)) => EndsBy(r, a, Coming(r))
    BY DEF EndsBy, Coming, RecoversBy, PostedIn, Awaited, SameRecording
  <1> QED
    BY <1>4, <1>5 DEF Good

\* CancelActiveCycleIfDeviceDisconnected.
LEMMA CancelActiveGood ==
    ASSUME NEW w \in Worlds, NEW a, NEW thread, NEW ok \in BOOLEAN, Good(w, a)
    PROVE  LET r == CancelActiveCycleIfDeviceDisconnected(w, thread, ok) IN
           r \in Worlds /\ Good(r, a)
  <1> DEFINE stays == w.co.device = None \/ w.co.device \in w.connected
  <1>1. Held(w, a) /\ (w.co.session # 0 => ~w.co.sent_final)
    BY DEF Good
  <1>2. CASE stays
    BY <1>2 DEF CancelActiveCycleIfDeviceDisconnected
  <1>3. CASE ~stays /\ w.co.waiting
    <2>1. w.co.session # 0
      BY <1>1, <1>3 DEF Held, MembersAgree
    <2> QED
      BY <1>1, <1>3, <2>1, FinalGood DEF CancelActiveCycleIfDeviceDisconnected
  <1>4. CASE ~stays /\ ~w.co.waiting
    BY <1>1, <1>4, CancelGood DEF CancelActiveCycleIfDeviceDisconnected
  <1> QED
    BY <1>2, <1>3, <1>4

\* The sessions that are left, without d or without any.
LEMMA DisconnectedGood ==
    ASSUME NEW w \in Worlds, NEW a, Good(w, a), NEW left \in SUBSET w.connected
    PROVE  LET r == [w EXCEPT !.connected = left] IN r \in Worlds /\ Good(r, a)
  <1> DEFINE r == [w EXCEPT !.connected = left]
  <1>1. r \in Worlds
    BY DEF Worlds
  <1>2. /\ SameRecording(w, r) /\ r.late = w.late /\ r.co = w.co /\ r.overlay = w.overlay
        /\ r.posted = w.posted /\ r.connected = left /\ r.shown = w.shown
    BY DEF Worlds, SameRecording
  <1> HIDE DEF r
  <1>3. Others(w) => Others(r)
    BY <1>2 DEF Others
  <1>4. Good(r, a)
    BY <1>2, <1>3, ConnectionGood
  <1> QED
    BY <1>1, <1>4 DEF r

\* A device that connects is told that it is ready.
LEMMA ConnectedGood ==
    ASSUME NEW w \in Worlds, NEW a, Good(w, a), NEW d \in Devices
    PROVE  LET r == [w EXCEPT !.connected = @ \cup {d}, !.shown[d] = "ready"] IN
           r \in Worlds /\ Good(r, a)
  <1> DEFINE c == w.connected \cup {d}
             s == [w.shown EXCEPT ![d] = "ready"]
             r == [w EXCEPT !.connected = c, !.shown = s]
  <1>1. c \in SUBSET Devices /\ \A e \in c : e = d \/ e \in w.connected
    BY DEF Worlds
  <1>2. s \in [Devices -> Shows] /\ \A e \in Devices : s[e] = IF e = d THEN "ready" ELSE w.shown[e]
    BY DEF Worlds, Shows
  <1> HIDE DEF c, s
  <1>3. r \in Worlds
    BY <1>1, <1>2 DEF Worlds
  <1>4. /\ SameRecording(w, r) /\ r.late = w.late /\ r.co = w.co /\ r.overlay = w.overlay
        /\ r.posted = w.posted /\ r.connected = c /\ r.shown = s
    BY DEF Worlds, SameRecording
  <1> HIDE DEF r
  <1>5. Others(w) => Others(r)
    BY <1>1, <1>2, <1>4 DEF Others
  <1>6. Good(r, a)
    BY <1>4, <1>5, ConnectionGood
  <1> QED
    BY <1>3, <1>6 DEF r, c, s

\* The ASR client is made anew when nothing is going on.
LEMMA RenewedGood ==
    ASSUME NEW w \in Worlds, NEW a, Good(w, a), ~w.co.asr_started
    PROVE  LET r == [w EXCEPT !.asr = NoSession] IN r \in Worlds /\ Good(r, a)
  <1> DEFINE r == [w EXCEPT !.asr = NoSession]
  <1>1. NoSession \in AsrSessions /\ NoSession.of = 0 /\ ~NoSession.last
    <2>1. FALSE \in BOOLEAN /\ 0 \in Texts
      BY Bounds
    <2> QED
      BY <2>1 DEF NoSession, AsrSessions
  <1>2. /\ r \in Worlds /\ r.co = w.co /\ r.asr = NoSession /\ r.translating = w.translating
        /\ r.cycle = w.cycle /\ r.cancelled = w.cancelled /\ r.pastes = w.pastes
        /\ r.late = w.late /\ r.connected = w.connected
        /\ r.posted = w.posted /\ r.shown = w.shown /\ r.overlay = w.overlay
    BY <1>1 DEF Worlds
  <1> HIDE DEF r
  <1>3. Held(w, a)
    BY DEF Good
  <1>4. Numbered(r, a)
    BY <1>1, <1>2, <1>3, Bounds DEF Held, Numbered, Worlds
  <1>5. TextsApart(r, a)
    <2>1. ASSUME NEW t \in Cycles, Apart(w, a, t)
          PROVE  Apart(r, a, t)
      <3>1. t # 0
        BY Bounds
      <3> QED
        BY <1>1, <1>2, <2>1, <3>1 DEF Apart, Source
    <2> QED
      BY <1>3, <2>1 DEF Held, TextsApart
  <1>6. MembersAgree(r, a) /\ ErrorsRecover(r)
    BY <1>1, <1>2, <1>3 DEF Held, MembersAgree, ErrorsRecover
  <1>7. ASSUME ~r.late
        PROVE  /\ Busy(r) \/ Quiet(r, a)
               /\ OnlyLast(r, a) /\ Stages(r, a) /\ Others(r)
               /\ EndsBy(r, a, Coming(r)) /\ (r.co.state = "ready" <=> r.co.device = None)
    <2>1. /\ Busy(w) \/ Quiet(w, a)
          /\ OnlyLast(w, a) /\ Stages(w, a) /\ Others(w)
      BY <1>2, <1>3, <1>7 DEF Held
    <2>2. w.asr.of = 0
      BY <2>1 DEF Stages
    <2>3. Busy(r) \/ Quiet(r, a)
      BY <1>1, <1>2, <2>1 DEF Busy, Quiet
    <2>4. OnlyLast(r, a) /\ Stages(r, a) /\ Others(r)
      BY <1>1, <1>2, <2>1, <2>2 DEF OnlyLast, Stages, Others
    <2>5. EndsBy(w, a, Coming(w)) => EndsBy(r, a, Coming(r))
      BY <1>1, <1>2, <2>2 DEF EndsBy, Coming, RecoversBy, PostedIn, Awaited
    <2> QED
      BY <1>2, <1>7, <2>3, <2>4, <2>5 DEF Good
  <1>8. Held(r, a)
    BY <1>4, <1>5, <1>6, <1>7 DEF Held
  <1>9. Good(r, a)
    BY <1>2, <1>7, <1>8 DEF Good
  <1> QED
    BY <1>2, <1>9 DEF r

-----------------------------------------------------------------------------
(* The steps *)

\* What a handler works on.
LEMMA WorldIs ==
    ASSUME TypeOK
    PROVE  /\ World \in Worlds
           /\ World.co = co /\ World.overlay = overlay /\ World.posted = posted
           /\ World.asr = asr /\ World.translating = translating /\ World.connected = connected
           /\ World.shown = shown /\ World.cycle = cycle /\ World.cancelled = cancelled
           /\ World.pastes = pastes /\ World.late = late
  <1>1. World \in Worlds
    BY DEF TypeOK, World, Worlds
  <1> QED
    BY <1>1 DEF World

\* A handler that ends well keeps the invariant.
LEMMA BecomesInv ==
    ASSUME TypeOK, NEW r \in Worlds, NEW a \in Answers, Good(r, a), Becomes(r),
           answer' = a, changed' \in BOOLEAN
    PROVE  IInv'
  <1>1. World' = [co |-> r.co, overlay |-> r.overlay, posted |-> r.posted, asr |-> r.asr,
                  translating |-> r.translating, connected |-> r.connected,
                  shown |-> r.shown, long |-> r.long, cycle |-> r.cycle,
                  cancelled |-> r.cancelled, pastes |-> r.pastes, late |-> r.late]
    BY DEF Becomes, World
  <1>2. World' = r
    BY <1>1 DEF Worlds
  <1>3. TypeOK'
    <2>1. /\ r.co \in Members /\ r.overlay \in OverlayState /\ r.posted \in Seq(Calls)
          /\ r.asr \in AsrSessions /\ r.translating \subseteq Cycles
          /\ r.connected \subseteq Devices /\ r.shown \in [Devices -> Shows]
          /\ r.long \in BOOLEAN /\ r.cycle \in 0..MaxCycles
          /\ r.cancelled \subseteq Cycles /\ r.pastes \in [Cycles -> 0..2]
          /\ r.late \in BOOLEAN
      BY DEF Worlds
    <2>2. mode' \in Modes /\ translate' \in Transforms
      BY DEF TypeOK, Becomes, config
    <2> QED
      BY <2>1, <2>2 DEF TypeOK, Becomes
  <1>4. Good(World, answer)'
    BY <1>2
  <1> QED
    BY <1>3, <1>4 DEF IInv

\* The invariant holds initially.
LEMMA InitInv == Init => IInv
  <1> SUFFICES ASSUME Init PROVE IInv
    OBVIOUS
  <1>1. TypeOK
    <2>1. FALSE \in BOOLEAN /\ <<>> \in Seq(Calls) /\ 0 \in Texts /\ 0 \in 0..MaxCycles
      BY Bounds
    <2>2. co \in Members
      BY <2>1 DEF Init, Members, States
    <2>3. overlay \in OverlayState
      BY <2>1, CallbacksDiffer DEF Init, OverlayState, OverlayModes
    <2>4. asr \in AsrSessions
      BY <2>1 DEF Init, NoSession, AsrSessions
    <2>5. answer \in Answers
      BY <2>1 DEF Init, NoAnswer, Answers
    <2>6. shown \in [Devices -> Shows] /\ pastes \in [Cycles -> 0..2]
      BY DEF Init, Shows
    <2> QED
      BY <2>1, <2>2, <2>3, <2>4, <2>5, <2>6 DEF Init, TypeOK
  <1> PICK w \in Worlds : w = World
    BY <1>1, WorldIs
  <1>2. /\ w.co = co /\ w.overlay = overlay /\ w.posted = posted
        /\ w.asr = asr /\ w.translating = translating /\ w.connected = connected
        /\ w.shown = shown /\ w.cycle = cycle /\ w.cancelled = cancelled
        /\ w.pastes = pastes /\ w.late = late
    BY <1>1, WorldIs
  <1>3. /\ w.co.state = "ready" /\ w.co.session = 0 /\ w.co.device = None
        /\ ~w.co.asr_started /\ ~w.co.sent_final /\ ~w.co.pasted_final /\ ~w.co.waiting
        /\ w.co.pending = "idle" /\ w.co.text = 0 /\ w.co.last = 0
    BY <1>2 DEF Init
  <1>4. /\ w.asr.of = 0 /\ ~w.asr.last /\ answer.kind = "none" /\ answer.of = 0
        /\ w.translating = {} /\ w.cycle = 0 /\ w.posted = <<>>
    BY <1>2 DEF Init, NoSession, NoAnswer
  <1>5. \A t \in Cycles : w.pastes[t] = 0 /\ t # 0
    BY <1>2, Bounds DEF Init
  <1>6. Numbered(w, answer) /\ MembersAgree(w, answer)
    BY <1>3, <1>4, <1>5 DEF Numbered, MembersAgree
  <1>7. TextsApart(w, answer)
    BY <1>3, <1>4, <1>5 DEF TextsApart, Apart, Source
  <1>8. ErrorsRecover(w)
    BY <1>4 DEF ErrorsRecover
  <1>9. Quiet(w, answer) /\ OnlyLast(w, answer) /\ Stages(w, answer)
    BY <1>3, <1>4 DEF Quiet, OnlyLast, Stages
  <1>10. Others(w)
    BY <1>2 DEF Others, Init
  <1>11. EndsBy(w, answer, Coming(w))
    BY <1>3 DEF EndsBy
  <1>12. Good(w, answer)
    BY <1>3, <1>6, <1>7, <1>8, <1>9, <1>10, <1>11 DEF Good, Held
  <1> QED
    BY <1>1, <1>12 DEF IInv

\* The UI thread keeps it: buttons, frames and the menu.
LEMMA ButtonsInv ==
    ASSUME IInv, NEW d \in Devices,
           \/ PrimaryButtonDown(d) \/ PrimaryButtonUp(d) \/ PrimaryButtonClick(d)
           \/ SecondaryButtonUp(d) \/ AudioFrame(d)
    PROVE  IInv'
  <1>1. TypeOK /\ answer \in Answers /\ changed \in BOOLEAN
    BY DEF IInv, TypeOK
  <1> PICK w \in Worlds : w = World
    BY <1>1, WorldIs
  <1> PICK a \in Answers : a = answer
    BY <1>1
  <1>2. Good(w, a) /\ w.cycle = cycle
    BY <1>1, WorldIs DEF IInv
  <1>3. UNCHANGED apart => answer' = a /\ changed' \in BOOLEAN
    BY <1>1 DEF apart
  <1>4. ASSUME NEW r \in Worlds, Good(r, a), Becomes(r), UNCHANGED apart
        PROVE  IInv'
    BY <1>1, <1>3, <1>4, BecomesInv
  <1>5. CASE PrimaryButtonDown(d)
    <2>1. PICK session \in {0, cycle + 1} \cap Texts :
             Becomes(HandlePrimaryButtonDown(w, session, d)) /\ UNCHANGED apart
      BY <1>5 DEF PrimaryButtonDown
    <2> PICK s \in {0, w.cycle + 1} \cap Texts : s = session
      BY <1>2
    <2>2. HandlePrimaryButtonDown(w, s, d) \in Worlds /\ Good(HandlePrimaryButtonDown(w, s, d), a)
      BY <1>2, DownGood
    <2> QED
      BY <1>4, <2>1, <2>2
  <1>6. CASE PrimaryButtonUp(d)
    <2>1. HandlePrimaryButtonUp(w, d) \in Worlds /\ Good(HandlePrimaryButtonUp(w, d), a)
      BY <1>2, UpGood
    <2> QED
      BY <1>4, <1>6, <2>1 DEF PrimaryButtonUp
  <1>7. CASE PrimaryButtonClick(d)
    <2>1. PICK session \in {0, cycle + 1} \cap Texts :
             Becomes(HandleButtonClick(w, session, d)) /\ UNCHANGED apart
      BY <1>7 DEF PrimaryButtonClick
    <2> PICK s \in {0, w.cycle + 1} \cap Texts : s = session
      BY <1>2
    <2>2. HandleButtonClick(w, s, d) \in Worlds /\ Good(HandleButtonClick(w, s, d), a)
      BY <1>2, ClickGood
    <2> QED
      BY <1>4, <2>1, <2>2
  <1>8. CASE SecondaryButtonUp(d)
    <2>1. CancelPendingPaste(w, d) \in Worlds /\ Good(CancelPendingPaste(w, d), a)
      BY <1>2, SideButtonGood
    <2> QED
      BY <1>4, <1>8, <2>1 DEF SecondaryButtonUp
  <1>9. CASE AudioFrame(d)
    <2>1. PICK end \in BOOLEAN, ok \in BOOLEAN :
             Becomes(HandleAudioFrame(w, d, end, ok)) /\ UNCHANGED apart
      BY <1>9 DEF AudioFrame, Gives
    <2>2. HandleAudioFrame(w, d, end, ok) \in Worlds /\ Good(HandleAudioFrame(w, d, end, ok), a)
      BY <1>2, AudioFrameGood
    <2> QED
      BY <1>4, <2>1, <2>2
  <1> QED
    BY <1>5, <1>6, <1>7, <1>8, <1>9

\* So do the connections, on whatever thread.
LEMMA ConnectionsInv ==
    ASSUME IInv,
           \/ ConnectionChange
           \/ \E d \in Devices : RemovePairedDevice(d) \/ Disconnected(d) \/ Connected(d)
    PROVE  IInv'
  <1>1. TypeOK /\ answer \in Answers /\ changed \in BOOLEAN
    BY DEF IInv, TypeOK
  <1> PICK w \in Worlds : w = World
    BY <1>1, WorldIs
  <1> PICK a \in Answers : a = answer
    BY <1>1
  <1>2. Good(w, a) /\ w.co = co /\ w.connected = connected
    BY <1>1, WorldIs DEF IInv
  <1>3. UNCHANGED apart => answer' = a /\ changed' \in BOOLEAN
    BY <1>1 DEF apart
  <1>4. TRUE \in BOOLEAN /\ FALSE \in BOOLEAN
    OBVIOUS
  <1>5. ASSUME NEW r \in Worlds, Good(r, a), Becomes(r), answer' = a, changed' \in BOOLEAN
        PROVE  IInv'
    BY <1>1, <1>5, BecomesInv
  <1>6. CASE ConnectionChange
    <2>1. PICK ok \in BOOLEAN :
             /\ Becomes(CancelActiveCycleIfDeviceDisconnected(w, "ui", ok))
             /\ answer' = a /\ changed' = FALSE
      BY <1>6 DEF ConnectionChange, Gives
    <2>2. /\ CancelActiveCycleIfDeviceDisconnected(w, "ui", ok) \in Worlds
          /\ Good(CancelActiveCycleIfDeviceDisconnected(w, "ui", ok), a)
      BY <1>2, CancelActiveGood
    <2> QED
      BY <1>4, <1>5, <2>1, <2>2
  <1>7. ASSUME NEW d \in Devices, RemovePairedDevice(d)
        PROVE  IInv'
    <2> DEFINE f == IF w.co.device = d THEN EnterReady(Abandon(w), "ui") ELSE w
               u == [f EXCEPT !.connected = {}]
               r == CancelActiveCycleIfDeviceDisconnected(u, "ui", FALSE)
    <2>1. f \in Worlds /\ Good(f, a)
      <3>1. Held(w, a)
        BY <1>2 DEF Good
      <3> QED
        BY <1>2, <3>1, CancelGood
    <2>2. Becomes(r) /\ UNCHANGED apart
      BY <1>2, <1>7 DEF RemovePairedDevice
    <2> HIDE DEF f
    <2>3. {} \in SUBSET f.connected
      OBVIOUS
    <2>4. u \in Worlds /\ Good(u, a)
      BY <2>1, <2>3, DisconnectedGood
    <2> HIDE DEF u
    <2>5. r \in Worlds /\ Good(r, a)
      BY <1>4, <2>4, CancelActiveGood
    <2> QED
      BY <1>3, <1>5, <2>2, <2>5
  <1>8. ASSUME NEW d \in Devices, Disconnected(d)
        PROVE  IInv'
    <2> DEFINE left == w.connected \ {d}
               r == [w EXCEPT !.connected = left]
    <2>1. Becomes(r) /\ changed' = TRUE /\ answer' = a
      BY <1>2, <1>8 DEF Disconnected
    <2>2. left \in SUBSET w.connected
      OBVIOUS
    <2> HIDE DEF left
    <2>3. r \in Worlds /\ Good(r, a)
      BY <1>2, <2>2, DisconnectedGood
    <2> QED
      BY <1>4, <1>5, <2>1, <2>3
  <1>9. ASSUME NEW d \in Devices, Connected(d)
        PROVE  IInv'
    <2> DEFINE u == [w EXCEPT !.connected = @ \cup {d}, !.shown[d] = "ready"]
    <2>1. PICK ok \in BOOLEAN :
             Becomes(CancelActiveCycleIfDeviceDisconnected(u, "pool", ok)) /\ UNCHANGED apart
      BY <1>9 DEF Connected, Gives
    <2>2. u \in Worlds /\ Good(u, a)
      BY <1>2, ConnectedGood
    <2> HIDE DEF u
    <2>3. /\ CancelActiveCycleIfDeviceDisconnected(u, "pool", ok) \in Worlds
          /\ Good(CancelActiveCycleIfDeviceDisconnected(u, "pool", ok), a)
      BY <2>2, CancelActiveGood
    <2> QED
      BY <1>3, <1>5, <2>1, <2>3
  <1> QED
    BY <1>6, <1>7, <1>8, <1>9

\* The menu, the posted calls, the timers and the clock.
LEMMA ShowsInv ==
    ASSUME IInv,
           \/ RestoreFromMenu \/ ProcessPosted \/ OnTimer \/ AudioEndTimeout \/ TimePasses
    PROVE  IInv'
  <1>1. TypeOK /\ answer \in Answers /\ changed \in BOOLEAN
    BY DEF IInv, TypeOK
  <1> PICK w \in Worlds : w = World
    BY <1>1, WorldIs
  <1> PICK a \in Answers : a = answer
    BY <1>1
  <1>2. Good(w, a) /\ w.co = co /\ w.posted = posted /\ w.overlay = overlay /\ w.late = late
    BY <1>1, WorldIs DEF IInv
  <1>3. Held(w, a) /\ (w.co.session # 0 => ~w.co.sent_final)
    BY <1>2 DEF Good
  <1>4. UNCHANGED apart => answer' = a /\ changed' \in BOOLEAN
    BY <1>1 DEF apart
  <1>5. ASSUME NEW r \in Worlds, Good(r, a), Becomes(r), UNCHANGED apart
        PROVE  IInv'
    BY <1>1, <1>4, <1>5, BecomesInv
  <1>6. CASE RestoreFromMenu
    <2> PICK d \in Devices \cup {None} : d = w.co.last_device
      BY DEF Worlds, Members
    <2>1. ~w.late /\ w.co.last # 0 => d # None
      BY <1>3 DEF Held, OnlyLast
    <2>2. /\ RestoreLastInputConfirmation(w, d) \in Worlds
          /\ Good(RestoreLastInputConfirmation(w, d), a)
      BY <1>2, <2>1, RestoreGood
    <2>3. Becomes(RestoreLastInputConfirmation(w, d)) /\ UNCHANGED apart
      BY <1>2, <1>6 DEF RestoreFromMenu
    <2> QED
      BY <1>5, <2>2, <2>3
  <1>7. CASE ProcessPosted
    <2> DEFINE call == Head(w.posted)
    <2>1. w.posted # <<>> /\ call \in Calls
      BY <1>2, <1>7 DEF ProcessPosted, Worlds
    <2>2. Outdated(call) \in BOOLEAN
      BY DEF Outdated
    <2> PICK out \in BOOLEAN : out = Outdated(call)
      BY <2>2
    <2>3. ~out => Current(w, call)
      <3>1. call.mode \in OverlayModes
        BY <2>1 DEF Calls
      <3> QED
        BY <1>2, <3>1 DEF Outdated, Current, OverlayModes
    <2>4. Becomes(Perform(Popped(w, out), call)) /\ UNCHANGED apart
      BY <1>2, <1>7 DEF ProcessPosted, Popped
    <2>5. Perform(Popped(w, out), call) \in Worlds /\ Good(Perform(Popped(w, out), call), a)
      BY <1>2, <2>1, <2>3, PerformGood
    <2> QED
      BY <1>5, <2>4, <2>5
  <1>8. CASE OnTimer
    <2>1. Hide(w, NoCallback) \in Worlds /\ Good(Hide(w, NoCallback), a)
      BY <1>2, <1>8, TimerGood DEF OnTimer
    <2> QED
      BY <1>5, <1>8, <2>1 DEF OnTimer
  <1>9. CASE AudioEndTimeout
    <2>1. PICK ok \in BOOLEAN :
             Becomes(SendFinalOggChunkIfNeeded(w, "timeout", ok)) /\ UNCHANGED apart
      BY <1>9 DEF AudioEndTimeout, Gives
    <2>2. w.co.session # 0
      BY <1>2, <1>9 DEF AudioEndTimeout
    <2>3. /\ SendFinalOggChunkIfNeeded(w, "timeout", ok) \in Worlds
          /\ Good(SendFinalOggChunkIfNeeded(w, "timeout", ok), a)
      BY <1>3, <2>2, FinalGood
    <2> QED
      BY <1>5, <2>1, <2>3
  <1>10. CASE TimePasses
    <2> DEFINE r == [w EXCEPT !.long = TRUE]
    <2>1. Becomes(r) /\ UNCHANGED apart
      BY <1>10 DEF TimePasses
    <2>2. TRUE \in BOOLEAN
      OBVIOUS
    <2>3. /\ r \in Worlds /\ Unchanged(w, r) /\ r.overlay = w.overlay /\ r.posted = w.posted
          /\ r.shown = w.shown
      BY <2>2 DEF Worlds, Unchanged, Same, SameRecording
    <2> HIDE DEF r
    <2>4. Others(w) => Others(r)
      BY <2>3 DEF Others, Unchanged, Same
    <2>5. Good(r, a)
      BY <1>2, <2>3, <2>4, GoodKept
    <2> QED
      BY <1>5, <2>1, <2>3, <2>5
  <1> QED
    BY <1>6, <1>7, <1>8, <1>9, <1>10

\* The ASR client, the configuration and the translations.
LEMMA ServicesInv ==
    ASSUME IInv,
           \/ AsrDecides \/ AsrDelivers \/ UpdateConfig
           \/ \E text \in Cycles : Translated(text)
    PROVE  IInv'
  <1>1. TypeOK /\ answer \in Answers /\ changed \in BOOLEAN
    BY DEF IInv, TypeOK
  <1> PICK w \in Worlds : w = World
    BY <1>1, WorldIs
  <1> PICK a \in Answers : a = answer
    BY <1>1
  <1>2. Good(w, a) /\ w.co = co /\ w.asr = asr /\ w.translating = translating
        /\ w.cancelled = cancelled
    BY <1>1, WorldIs DEF IInv
  <1>3. NoAnswer \in Answers
    BY DEF NoAnswer, Answers, Texts
  <1>4. CASE AsrDecides
    <2>1. PICK kind \in {"partial", "final", "empty", "error", "upgrade"} :
             /\ kind \in {"final", "empty"} => asr.last
             /\ answer' = [kind |-> kind, of |-> asr.of]
             /\ asr' = IF kind = "partial" THEN asr ELSE NoSession
             /\ UNCHANGED <<co, overlay, posted, translating, connected, changed, shown, long,
                            cycle, config, history>>
      BY <1>4 DEF AsrDecides
    <2>2. w.asr.of # 0 /\ a = NoAnswer
      BY <1>2, <1>4 DEF AsrDecides
    <2> DEFINE b == [kind |-> kind, of |-> w.asr.of]
               r == Decided(w, kind)
    <2>3. b \in Answers /\ r \in Worlds /\ Good(r, b)
      BY <1>2, <2>1, <2>2, DecidesGood
    <2>4. answer' = b
      BY <1>2, <2>1
    <2>5. Becomes(r)
      <3>1. /\ r.co = co /\ r.overlay = overlay /\ r.posted = posted /\ r.asr = asr'
            /\ r.translating = translating /\ r.connected = connected /\ r.shown = shown
            /\ r.long = long /\ r.cycle = cycle /\ r.cancelled = cancelled
            /\ r.pastes = pastes /\ r.late = late
        BY <2>1 DEF Decided, World
      <3> QED
        BY <2>1, <3>1 DEF Becomes, history
    <2>6. changed' \in BOOLEAN
      BY <1>1, <2>1
    <2> HIDE DEF b, r
    <2> QED
      BY <1>1, <2>3, <2>4, <2>5, <2>6, BecomesInv
  <1>5. CASE AsrDelivers
    <2>1. Deliver(w) \in Worlds /\ Good(Deliver(w), NoAnswer)
      BY <1>1, <1>2, DeliverGood
    <2>2. Becomes(Deliver(w)) /\ answer' = NoAnswer /\ changed' \in BOOLEAN
      BY <1>1, <1>5 DEF AsrDelivers
    <2> QED
      BY <1>1, <1>3, <2>1, <2>2, BecomesInv
  <1>6. CASE UpdateConfig
    <2> DEFINE busy == w.co.asr_started \/ w.co.session # 0 \/ w.co.pending # "idle"
               e == EnterReady(Abandon(w), "ui")
               n == [w EXCEPT !.asr = NoSession]
               u == IF busy THEN e ELSE n
    <2>1. Becomes(Deliver(u)) /\ answer' = NoAnswer /\ changed' \in BOOLEAN
      BY <1>1, <1>2, <1>6 DEF UpdateConfig
    <2>2. e \in Worlds /\ Good(e, a)
      <3>1. Held(w, a)
        BY <1>2 DEF Good
      <3> QED
        BY <3>1, CancelGood
    <2>3. CASE busy
      BY <1>1, <1>3, <2>1, <2>2, <2>3, DeliverGood, BecomesInv
    <2>4. CASE ~busy
      <3>1. n \in Worlds /\ Good(n, a)
        BY <1>2, <2>4, RenewedGood
      <3> QED
        BY <1>1, <1>3, <2>1, <2>4, <3>1, DeliverGood, BecomesInv
    <2> QED
      BY <2>3, <2>4
  <1>7. ASSUME NEW t \in Cycles, Translated(t)
        PROVE  IInv'
    <2> DEFINE s == Taken(w, t)
               p == EnterPendingConfirmation(WithLast(s, t), "translator", t)
               e == FinishWithAsrError(s, "translator")
    <2>1. t \in w.translating
      BY <1>2, <1>7 DEF Translated
    <2>2. p \in Worlds /\ Good(p, a) /\ e \in Worlds /\ Good(e, a)
      BY <1>2, <2>1, TranslatedGood
    <2>3. (Becomes(p) \/ Becomes(e)) /\ UNCHANGED apart
      BY <1>2, <1>7 DEF Translated, WithLast, Taken
    <2>4. answer' = a /\ changed' \in BOOLEAN
      BY <1>1, <2>3 DEF apart
    <2> HIDE DEF p, e
    <2> QED
      BY <1>1, <2>2, <2>3, <2>4, BecomesInv
  <1> QED
    BY <1>4, <1>5, <1>6, <1>7

\* Every step keeps the invariant.
LEMMA NextInv == IInv /\ [Next]_vars => IInv'
  <1> SUFFICES ASSUME IInv, [Next]_vars PROVE IInv'
    OBVIOUS
  <1>1. CASE UNCHANGED vars
    <2>1. World' = World
      BY <1>1 DEF vars, history, World
    <2>2. TypeOK'
      BY <1>1 DEF IInv, TypeOK, vars, config, history
    <2>3. answer' = answer
      BY <1>1 DEF vars
    <2> QED
      BY <2>1, <2>2, <2>3 DEF IInv
  <1>2. CASE Next
    <2>1. \/ RestoreFromMenu \/ UpdateConfig \/ ProcessPosted \/ OnTimer \/ ConnectionChange
          \/ AudioEndTimeout \/ TimePasses \/ AsrDecides \/ AsrDelivers
          \/ \E d \in Devices :
                \/ PrimaryButtonDown(d) \/ PrimaryButtonUp(d) \/ PrimaryButtonClick(d)
                \/ SecondaryButtonUp(d) \/ AudioFrame(d) \/ RemovePairedDevice(d)
                \/ Disconnected(d) \/ Connected(d)
          \/ \E text \in Cycles : Translated(text)
      BY <1>2 DEF Next
    <2> QED
      BY <2>1, ButtonsInv, ConnectionsInv, ShowsInv, ServicesInv
  <1> QED
    BY <1>1, <1>2

-----------------------------------------------------------------------------
(* The theorems *)

\* The inductive invariant holds of the coordinator.
THEOREM Invariant == Spec => []IInv
  <1>1. Init => IInv
    BY InitInv
  <1>2. IInv /\ [Next]_vars => IInv'
    BY NextInv
  <1> QED
    BY <1>1, <1>2, PTL DEF Spec

\* Every variable keeps its type: the records the handlers build keep their
\* shape, and nothing is numbered beyond the last recording.
THEOREM TypeCorrect == Spec => []TypeOK
  <1>1. IInv => TypeOK
    BY DEF IInv
  <1> QED
    BY <1>1, Invariant, PTL

\* However countdowns, buttons, posted calls and late callbacks interleave, a
\* text is pasted at most once for each time it is shown (CommitPendingPaste and
\* OnAsrFinal).
THEOREM TextsPastedOnce == Spec => []PastedOnce
  <1>1. IInv => PastedOnce
    <2> SUFFICES ASSUME IInv PROVE PastedOnce
      OBVIOUS
    <2>1. TextsApart(World, answer) /\ World.pastes = pastes
      BY WorldIs DEF IInv, Good, Held
    <2> QED
      BY <2>1 DEF TextsApart, Apart, PastedOnce
  <1> QED
    BY <1>1, Invariant, PTL

\* As long as nothing comes late, whatever is going on has somebody who ends it:
\* the end of the audio, the ASR service, a translation, or a timer of the
\* overlay, on the screen or on its way there (win32_app.cc posts it).
THEOREM SomebodyEnds == Spec => []NeverStuck
  <1>1. IInv => NeverStuck
    <2> SUFFICES ASSUME IInv, ~late PROVE NeverStuck
      BY DEF NeverStuck
    <2>1. TypeOK
      BY DEF IInv
    <2>2. /\ World.co = co /\ World.overlay = overlay /\ World.posted = posted
          /\ World.asr = asr /\ World.translating = translating /\ World.late = late
      BY <2>1, WorldIs
    <2>3. EndsBy(World, answer, Coming(World))
      BY <2>2 DEF IInv, Good
    <2>4. posted \in Seq(Calls)
      BY <2>1 DEF TypeOK
    <2>5. DOMAIN posted = 1..Len(posted)
      BY <2>4
    <2>6. \A m \in OverlayModes : PostedIn(World, m) => IsPosted(m)
      BY <2>2, <2>5 DEF PostedIn, IsPosted
    <2>7. "error" \in OverlayModes /\ "countdown" \in OverlayModes
      BY DEF OverlayModes
    <2>8. RecoversBy(World, Coming(World)) => Recovers
      BY <2>2, <2>6, <2>7, CallbacksDiffer DEF RecoversBy, Recovers, Coming
    <2>9. Awaited(World, answer) => \/ (co.waiting /\ co.session # 0)
                                    \/ asr.of # 0 \/ answer # NoAnswer \/ translating # {}
      BY <2>2 DEF Awaited, NoAnswer
    <2>10. co.state = "finalizing" => \/ (co.waiting /\ co.session # 0)
                                      \/ asr.of # 0 \/ answer # NoAnswer
                                      \/ translating # {} \/ Recovers
      BY <2>2, <2>3, <2>8, <2>9 DEF EndsBy
    <2>11. co.state = "pending" => IsPosted("countdown") \/ overlay.timer
      <3>1. Coming(World) = CommitOf(co.text) => overlay.timer
        BY <2>2 DEF Coming, CommitOf, NoCallback
      <3> QED
        BY <2>2, <2>3, <2>6, <2>7, <3>1 DEF EndsBy
    <2>12. co.state = "error" => Recovers
      BY <2>2, <2>3, <2>8 DEF EndsBy
    <2> QED
      BY <2>10, <2>11, <2>12 DEF NeverStuck
  <1> QED
    BY <1>1, Invariant, PTL

\* As long as nothing comes late, no device but the one of the recording shows
\* anything but ready: whoever ends a recording tells its device.
THEOREM OthersShowReady == Spec => []OthersReady
  <1>1. IInv => OthersReady
    <2> SUFFICES ASSUME IInv, ~late PROVE OthersReady
      BY DEF OthersReady
    <2>1. /\ World.co = co /\ World.connected = connected /\ World.shown = shown
          /\ World.late = late
      BY WorldIs DEF IInv
    <2>2. Others(World)
      BY <2>1 DEF IInv, Good, Held
    <2> QED
      BY <2>1, <2>2 DEF Others, OthersReady
  <1> QED
    BY <1>1, Invariant, PTL
=============================================================================
