-------------------------- MODULE WinSubtitleProofs --------------------------
(***************************************************************************)
(* Theorems about WinSubtitle, for any devices, any number of recordings,  *)
(* any bound on the posted calls, every mode and with or without a         *)
(* translation.  A handler takes a world to a world, in a sequence of calls *)
(* that each keep part of what Held and Shown say; what a call breaks is   *)
(* named in their second parameter until a later call of the handler mends *)
(* it.                                                                     *)
(***************************************************************************)
EXTENDS WinSubtitle, TLAPS

-----------------------------------------------------------------------------
(* The inductive invariant *)

\* What a handler works on.
Worlds ==
    [live : SUBSET Sessions, cycle : [Sessions -> SubtitleCycles],
     active : [Devices -> Sessions \cup {0}],
     asr : [Sessions -> {"idle", "open", "last"}], translating : SUBSET Texts,
     overlay : OverlayState, posted : Seq(Calls), connected : SUBSET Devices,
     shown : [Devices -> Shows], last : 0..MaxSessions,
     untold : SUBSET Devices, superseded : SUBSET Sessions]

\* Recordings and texts have numbers that were given out.
Numbered(w) ==
    /\ \A s \in w.live \cup w.superseded : s <= w.last
    /\ \A text \in w.translating : text.of <= w.last
    /\ \A s \in Sessions : s <= w.last => DeviceOf(w, s) \in Devices

\* What is active is a recording of that device.
ActiveLive(w) ==
    \A d \in Devices : w.active[d] # 0 =>
        w.active[d] \in w.live /\ DeviceOf(w, w.active[d]) = d

\* An ASR client has gone when its recording has.
ClientsLive(w) == \A s \in Sessions : w.asr[s] # "idle" => s \in w.live

\* The ASR client of a recording is there from its first audio to its text, and
\* knows when the audio was sent; the translation has the text.
Recognized(w, s) ==
    /\ w.cycle[s].finished => [of |-> s, final |-> TRUE] \in w.translating
    /\ w.cycle[s].asr_started => w.asr[s] # "idle" \/ w.cycle[s].finished
    /\ w.cycle[s].sent_final => w.asr[s] = "last" \/ w.cycle[s].finished

\* A recording that is not active any more was superseded or has its end.
Ended(w, s) ==
    \/ IsActiveSubtitleCycle(w, s)
    \/ s \in w.superseded
    \/ w.cycle[s].waiting
    \/ w.cycle[s].sent_final

\* What is known of the recordings, of ss only that there are such.
Held(w, ss) ==
    /\ Numbered(w) /\ ActiveLive(w) /\ ClientsLive(w)
    /\ \A s \in w.live \ ss : Recognized(w, s) /\ Ended(w, s)

\* The overlay has something to tell d.
Told(w, d) ==
    \/ w.overlay.tells = d
    \/ \E i \in DOMAIN w.posted : w.posted[i].call = "error" /\ w.posted[i].tells = d
    \/ d \in w.untold

\* What every device but e shows is accounted for.
Shown(w, e) ==
    \A d \in w.connected \ {e} :
        w.shown[d] # "ready" => w.active[d] # 0 \/ Told(w, d)

Good(w) == Held(w, {}) /\ Shown(w, None)

IInv == TypeOK /\ Good(World)

-----------------------------------------------------------------------------
(* What a handler leaves alone *)

\* The recordings, which no call of the overlay and no message to a device changes.
Same(w, r) ==
    /\ r.live = w.live /\ r.cycle = w.cycle /\ r.active = w.active /\ r.asr = w.asr
    /\ r.translating = w.translating /\ r.connected = w.connected
    /\ r.last = w.last /\ r.superseded = w.superseded

\* All but one recording and its ASR client.
Touched(w, r, s) ==
    /\ r.live = w.live /\ r.active = w.active /\ r.translating = w.translating
    /\ r.overlay = w.overlay /\ r.posted = w.posted /\ r.connected = w.connected
    /\ r.shown = w.shown /\ r.last = w.last
    /\ r.untold = w.untold /\ r.superseded = w.superseded
    /\ \A x \in Sessions \ {s} : r.cycle[x] = w.cycle[x] /\ r.asr[x] = w.asr[x]
    /\ DeviceOf(r, s) = DeviceOf(w, s)

\* What the assumptions on the constants give.
LEMMA Bounds ==
    /\ MaxSessions \in Nat /\ None \notin Devices
    /\ Sessions \subseteq Nat /\ 0 \notin Sessions
    /\ \A s \in Sessions : s <= MaxSessions
    /\ TRUE \in BOOLEAN /\ FALSE \in BOOLEAN
  BY BoundsAssumption, NoneAssumption DEF Sessions

\* A recording has a device that may be active with it.
LEMMA LiveDevice ==
    ASSUME NEW w \in Worlds, NEW ss, Held(w, ss), NEW s \in w.live
    PROVE  s \in Sessions /\ s <= w.last /\ DeviceOf(w, s) \in Devices
  BY DEF Worlds, Held, Numbered

\* What is known of more recordings is known of fewer.
LEMMA HeldLess ==
    ASSUME NEW w, NEW ss, Held(w, {})
    PROVE  Held(w, ss)
  BY DEF Held

\* A recording that is mended, or has gone, is as known as the others.
LEMMA HeldMore ==
    ASSUME NEW w, NEW s, Held(w, {s}), s \in w.live => Recognized(w, s) /\ Ended(w, s)
    PROVE  Held(w, {})
  BY DEF Held

\* A call that leaves the recordings alone keeps what is known of them.
LEMMA SameHeld ==
    ASSUME NEW w, NEW r, NEW ss, Same(w, r), Held(w, ss)
    PROVE  Held(r, ss)
  <1>1. Numbered(r) /\ ActiveLive(r) /\ ClientsLive(r)
    BY DEF Same, Held, Numbered, ActiveLive, ClientsLive, DeviceOf
  <1>2. ASSUME NEW s \in r.live \ ss
        PROVE  Recognized(r, s) /\ Ended(r, s)
    BY <1>2 DEF Same, Held, Recognized, Ended, IsActiveSubtitleCycle, DeviceOf
  <1> QED
    BY <1>1, <1>2 DEF Held

\* What stays the same over two calls stays the same.
LEMMA SameTwice ==
    ASSUME NEW v, NEW w, NEW r, Same(v, w), Same(w, r)
    PROVE  Same(v, r)
  BY DEF Same

\* A change of one recording keeps what is known of the others and of the devices.
LEMMA TouchedHeld ==
    ASSUME NEW w \in Worlds, NEW r, NEW s \in w.live, Touched(w, r, s), Held(w, {s})
    PROVE  Held(r, {s}) /\ (\A e : Shown(w, e) => Shown(r, e))
  <1>1. \A x \in Sessions : DeviceOf(r, x) = DeviceOf(w, x)
    BY DEF Touched, DeviceOf
  <1>2. Numbered(r)
    BY <1>1 DEF Touched, Held, Numbered
  <1>3. ActiveLive(r)
    BY <1>1 DEF Touched, Held, ActiveLive, Worlds
  <1>4. ClientsLive(r)
    BY DEF Touched, Held, ClientsLive
  <1>5. ASSUME NEW x \in r.live \ {s}
        PROVE  Recognized(r, x) /\ Ended(r, x)
    <2>1. /\ x \in Sessions /\ x \in w.live \ {s}
          /\ r.cycle[x] = w.cycle[x] /\ r.asr[x] = w.asr[x]
      BY <1>5 DEF Touched, Worlds
    <2>2. Recognized(w, x) /\ Ended(w, x)
      BY <2>1 DEF Held
    <2> QED
      BY <1>1, <2>1, <2>2 DEF Touched, Recognized, Ended, IsActiveSubtitleCycle
  <1>6. ASSUME NEW e, Shown(w, e)
        PROVE  Shown(r, e)
    BY <1>6 DEF Shown, Told, Touched
  <1> QED
    BY <1>2, <1>3, <1>4, <1>5, <1>6 DEF Held

-----------------------------------------------------------------------------
(* Messages to a device, and the overlay *)

\* SendUiState changes what one device shows.
LEMMA SendIs ==
    ASSUME NEW w \in Worlds, NEW d \in Devices, NEW show \in Shows
    PROVE  LET r == SendUiState(w, d, show) IN
           /\ r \in Worlds /\ Same(w, r)
           /\ r.overlay = w.overlay /\ r.posted = w.posted /\ r.untold = w.untold
           /\ \A x \in Devices : r.shown[x] = IF x = d /\ d \in w.connected THEN show
                                              ELSE w.shown[x]
  BY DEF Worlds, SendUiState, Same

\* A device that is told that it is ready shows what it should.
LEMMA ReadyShown ==
    ASSUME NEW w \in Worlds, NEW d \in Devices
    PROVE  LET r == SendUiState(w, d, "ready") IN
           /\ r \in Worlds /\ Same(w, r)
           /\ \A e : Shown(w, e) => Shown(r, e)
           /\ Shown(w, d) => Shown(r, None)
  <1> DEFINE r == SendUiState(w, d, "ready")
  <1>1. /\ r \in Worlds /\ Same(w, r)
        /\ r.overlay = w.overlay /\ r.posted = w.posted /\ r.untold = w.untold
        /\ \A x \in Devices : r.shown[x] = IF x = d /\ d \in w.connected THEN "ready"
                                           ELSE w.shown[x]
    BY SendIs DEF Shows
  <1>2. w.connected \subseteq Devices
    BY DEF Worlds
  <1> HIDE DEF r
  <1>3. \A x : Told(w, x) => Told(r, x)
    BY <1>1 DEF Told
  <1>4. ASSUME NEW e, Shown(w, e)
        PROVE  Shown(r, e)
    BY <1>1, <1>2, <1>3, <1>4 DEF Shown, Same
  <1>5. ASSUME Shown(w, d)
        PROVE  Shown(r, None)
    BY <1>1, <1>2, <1>3, <1>5 DEF Shown, Same
  <1> QED
    BY <1>1, <1>4, <1>5 DEF r

\* So does one with an active recording, whatever it is told.
LEMMA ActiveShown ==
    ASSUME NEW w \in Worlds, NEW d \in Devices, NEW show \in Shows, w.active[d] # 0
    PROVE  LET r == SendUiState(w, d, show) IN
           /\ r \in Worlds /\ Same(w, r)
           /\ \A e : Shown(w, e) => Shown(r, e)
           /\ Shown(w, d) => Shown(r, None)
  <1> DEFINE r == SendUiState(w, d, show)
  <1>1. /\ r \in Worlds /\ Same(w, r)
        /\ r.overlay = w.overlay /\ r.posted = w.posted /\ r.untold = w.untold
        /\ \A x \in Devices : r.shown[x] = IF x = d /\ d \in w.connected THEN show
                                           ELSE w.shown[x]
    BY SendIs
  <1>2. w.connected \subseteq Devices
    BY DEF Worlds
  <1> HIDE DEF r
  <1>3. \A x : Told(w, x) => Told(r, x)
    BY <1>1 DEF Told
  <1>4. ASSUME NEW e, Shown(w, e)
        PROVE  Shown(r, e)
    BY <1>1, <1>2, <1>3, <1>4 DEF Shown, Same
  <1>5. ASSUME Shown(w, d)
        PROVE  Shown(r, None)
    BY <1>1, <1>2, <1>3, <1>5 DEF Shown, Same
  <1> QED
    BY <1>1, <1>4, <1>5 DEF r

\* OverlayWindow::Hide tells the device that waits for it.
LEMMA HideIs ==
    ASSUME NEW w \in Worlds
    PROVE  LET r == Hide(w) IN
           r \in Worlds /\ Same(w, r) /\ \A e : Shown(w, e) => Shown(r, e)
  <1> DEFINE t == w.overlay.tells
             told == IF t = None THEN w ELSE SendUiState(w, t, "ready")
             o == [tells |-> None, timer |-> FALSE]
             r == [told EXCEPT !.overlay = o]
  <1>1. Hide(w) = r
    BY DEF Hide
  <1>2. t \in Devices \cup {None} /\ o \in OverlayState
    BY Bounds DEF Worlds, OverlayState
  <1> HIDE DEF o, t
  <1>3. /\ told \in Worlds /\ Same(w, told)
        /\ told.posted = w.posted /\ told.untold = w.untold
        /\ \A x \in Devices : told.shown[x] = w.shown[x]
                              \/ told.shown[x] = "ready"
        /\ \A x \in Devices : x = t /\ x \in w.connected => told.shown[x] = "ready"
    <2>1. CASE t = None
      BY <2>1, Bounds DEF Same
    <2>2. CASE t # None
      BY <1>2, <2>2, SendIs DEF Shows
    <2> QED
      BY <2>1, <2>2
  <1> HIDE DEF told
  <1>4. /\ r \in Worlds /\ Same(w, r)
        /\ r.posted = w.posted /\ r.untold = w.untold /\ r.shown = told.shown
    BY <1>2, <1>3 DEF Worlds, Same
  <1>5. ASSUME NEW x, Told(w, x), x # t
        PROVE  Told(r, x)
    BY <1>4, <1>5 DEF Told, t
  <1>6. w.connected \subseteq Devices /\ r.connected = w.connected /\ r.active = w.active
    BY <1>4 DEF Worlds, Same
  <1> HIDE DEF r
  <1>7. ASSUME NEW e, Shown(w, e)
        PROVE  Shown(r, e)
    BY <1>3, <1>4, <1>5, <1>6, <1>7 DEF Shown
  <1> QED
    BY <1>1, <1>4, <1>7 DEF r

\* Replace drops what waits on the overlay, and remembers for whom.
LEMMA ReplaceIs ==
    ASSUME NEW w \in Worlds, NEW d \in Devices \cup {None}, NEW timed \in BOOLEAN
    PROVE  LET r == Replace(w, d, timed) IN
           /\ r \in Worlds /\ Same(w, r) /\ r.shown = w.shown
           /\ \A x \in Devices : Told(w, x) => Told(r, x)
           /\ Told(r, d)
  <1> DEFINE o == [tells |-> d, timer |-> timed]
             u == w.untold \cup ({w.overlay.tells} \ {None, d})
             r == [w EXCEPT !.overlay = o, !.untold = u]
  <1>1. Replace(w, d, timed) = r
    BY DEF Replace
  <1>2. o \in OverlayState /\ o.tells = d
    BY DEF OverlayState
  <1>3. u \in SUBSET Devices
    BY DEF Worlds, OverlayState
  <1>4. \A x \in Devices : x \in w.untold \/ w.overlay.tells = x => x \in u \/ x = d
    BY Bounds
  <1> HIDE DEF o, u
  <1>5. /\ r \in Worlds /\ Same(w, r) /\ r.shown = w.shown
        /\ r.overlay.tells = d /\ r.untold = u /\ r.posted = w.posted
    BY <1>2, <1>3 DEF Worlds, Same
  <1> HIDE DEF r
  <1>6. Told(r, d) /\ \A x \in Devices : Told(w, x) => Told(r, x)
    BY <1>4, <1>5 DEF Told
  <1> QED
    BY <1>1, <1>5, <1>6

\* A call that takes nothing from the overlay keeps what is accounted for.
LEMMA ToldShown ==
    ASSUME NEW w \in Worlds, NEW r, NEW e, Same(w, r), r.shown = w.shown,
           \A x \in Devices : Told(w, x) => Told(r, x), Shown(w, e)
    PROVE  Shown(r, e) /\ (e \in Devices /\ Told(r, e) => Shown(r, None))
  BY DEF Worlds, Same, Shown

\* What is called on the overlay, at once or in its turn.
LEMMA PerformIs ==
    ASSUME NEW w \in Worlds, NEW call \in Calls
    PROVE  LET r == Perform(w, call) IN
           /\ r \in Worlds /\ Same(w, r)
           /\ \A e : Shown(w, e) => Shown(r, e)
           /\ call.call = "error" /\ Shown(w, call.tells) => Shown(r, None)
  <1> DEFINE r == Perform(w, call)
  <1>1. /\ call.call \in {"show", "hide", "error", "dialog"}
        /\ call.tells \in Devices \cup {None}
    BY DEF Calls
  <1>2. CASE call.call = "show"
    <2> DEFINE o == [w.overlay EXCEPT !.timer = FALSE]
    <2>1. r = [w EXCEPT !.overlay = o]
      BY <1>2 DEF Perform
    <2>2. o \in OverlayState /\ o.tells = w.overlay.tells
      BY Bounds DEF Worlds, OverlayState
    <2> HIDE DEF o
    <2>3. /\ r \in Worlds /\ Same(w, r) /\ r.shown = w.shown
          /\ r.overlay = o /\ r.posted = w.posted /\ r.untold = w.untold
      BY <2>1, <2>2 DEF Worlds, Same
    <2> HIDE DEF r
    <2>4. \A x \in Devices : Told(w, x) => Told(r, x)
      BY <2>2, <2>3 DEF Told
    <2> QED
      BY <1>2, <2>3, <2>4, ToldShown DEF r
  <1>3. CASE call.call = "hide"
    <2>1. r = Hide(w)
      BY <1>3 DEF Perform
    <2> QED
      BY <1>3, <2>1, HideIs
  <1>4. CASE call.call = "error"
    <2> DEFINE t == call.tells
    <2>1. r = Replace(w, t, TRUE) /\ t \in Devices \cup {None}
      BY <1>1, <1>4 DEF Perform
    <2> HIDE DEF r, t
    <2>2. /\ r \in Worlds /\ Same(w, r) /\ r.shown = w.shown
          /\ \A x \in Devices : Told(w, x) => Told(r, x)
          /\ Told(r, t)
      BY <2>1, Bounds, ReplaceIs
    <2>3. \A e : Shown(w, e) => Shown(r, e) /\ (e \in Devices /\ Told(r, e) => Shown(r, None))
      BY <2>2, ToldShown
    <2>4. Shown(w, t) => Shown(r, None)
      BY <2>1, <2>2, <2>3
    <2> QED
      BY <1>4, <2>2, <2>3, <2>4 DEF r, t
  <1>5. CASE call.call = "dialog"
    <2>1. r = Replace(w, None, FALSE)
      BY <1>5 DEF Perform
    <2>2. /\ r \in Worlds /\ Same(w, r) /\ r.shown = w.shown
          /\ \A x \in Devices : Told(w, x) => Told(r, x)
      BY <2>1, Bounds, ReplaceIs
    <2> QED
      BY <1>5, <2>2, ToldShown
  <1> QED
    BY <1>1, <1>2, <1>3, <1>4, <1>5

\* A call in the queue.
Queued(w, call) == [w EXCEPT !.posted = Append(@, call)]

\* A call that is posted takes nothing from the overlay, and an error brings its
\* device.
LEMMA QueuedIs ==
    ASSUME NEW w \in Worlds, NEW call \in Calls
    PROVE  LET r == Queued(w, call) IN
           /\ r \in Worlds /\ Same(w, r)
           /\ \A e : Shown(w, e) => Shown(r, e)
           /\ call.call = "error" /\ Shown(w, call.tells) => Shown(r, None)
  <1> DEFINE q == w.posted
             p == Append(q, call)
             r == [w EXCEPT !.posted = p]
  <1>1. Queued(w, call) = r
    BY DEF Queued
  <1>2. q \in Seq(Calls)
    BY DEF Worlds
  <1>3. /\ p \in Seq(Calls) /\ DOMAIN q = 1..Len(q) /\ DOMAIN p = 1..Len(p)
        /\ Len(p) = Len(q) + 1 /\ Len(q) \in Nat
        /\ \A i \in 1..Len(q) : p[i] = q[i]
        /\ p[Len(p)] = call
    BY <1>2
  <1>4. \A i \in DOMAIN q : i \in DOMAIN p /\ p[i] = q[i]
    BY <1>3
  <1>5. Len(p) \in DOMAIN p
    BY <1>3
  <1> HIDE DEF p
  <1>6. /\ r \in Worlds /\ Same(w, r) /\ r.shown = w.shown
        /\ r.overlay = w.overlay /\ r.untold = w.untold /\ r.posted = p
    BY <1>3 DEF Worlds, Same
  <1> HIDE DEF r
  <1>7. \A x \in Devices : Told(w, x) => Told(r, x)
    BY <1>4, <1>6 DEF Told
  <1>8. call.call = "error" => Told(r, call.tells)
    BY <1>3, <1>5, <1>6 DEF Told
  <1>9. \A e : Shown(w, e) => Shown(r, e) /\ (e \in Devices /\ Told(r, e) => Shown(r, None))
    BY <1>6, <1>7, ToldShown
  <1>10. call.call = "error" /\ Shown(w, call.tells) => Shown(r, None)
    <2>1. call.tells \in Devices \cup {None}
      BY DEF Calls
    <2> QED
      BY <1>8, <1>9, <2>1
  <1> QED
    BY <1>1, <1>6, <1>9, <1>10

\* A call of the overlay from any thread: an error accounts for its device.
LEMMA DispatchIs ==
    ASSUME NEW w \in Worlds, NEW thread, NEW name \in {"show", "hide", "error", "dialog"},
           NEW d \in Devices \cup {None}
    PROVE  LET r == DispatchToUi(w, thread, name, d) IN
           /\ r \in Worlds /\ Same(w, r)
           /\ \A e : Shown(w, e) => Shown(r, e)
           /\ name = "error" /\ Shown(w, d) => Shown(r, None)
  <1> DEFINE call == [call |-> name, tells |-> d]
  <1>1. call \in Calls /\ call.call = name /\ call.tells = d
    BY DEF Calls
  <1>2. DispatchToUi(w, thread, name, d)
            = IF thread = "ui" THEN Perform(w, call) ELSE Queued(w, call)
    BY DEF DispatchToUi, Queued
  <1> HIDE DEF call
  <1>3. CASE thread = "ui"
    BY <1>1, <1>2, <1>3, PerformIs
  <1>4. CASE thread # "ui"
    BY <1>1, <1>2, <1>4, QueuedIs
  <1> QED
    BY <1>3, <1>4

\* Calls of the overlay keep the invariant.
LEMMA DispatchGood ==
    ASSUME NEW w \in Worlds, NEW thread, NEW name \in {"show", "hide", "error", "dialog"},
           NEW d \in Devices \cup {None}, Good(w)
    PROVE  LET r == DispatchToUi(w, thread, name, d) IN
           r \in Worlds /\ Same(w, r) /\ Good(r)
  <1> DEFINE r == DispatchToUi(w, thread, name, d)
  <1>1. r \in Worlds /\ Same(w, r) /\ \A e : Shown(w, e) => Shown(r, e)
    BY DispatchIs
  <1> HIDE DEF r
  <1>2. Good(r)
    BY <1>1, SameHeld DEF Good
  <1> QED
    BY <1>1, <1>2 DEF r

\* HideOverlay is one of them.
LEMMA HideOverlayIs ==
    ASSUME NEW w \in Worlds, NEW thread
    PROVE  LET r == HideOverlay(w, thread) IN
           r \in Worlds /\ Same(w, r) /\ \A e : Shown(w, e) => Shown(r, e)
  <1>1. HideOverlay(w, thread) = DispatchToUi(w, thread, "hide", None)
    BY DEF HideOverlay
  <1> QED
    BY <1>1, DispatchIs

-----------------------------------------------------------------------------
(* The table of recordings *)

\* ClearActiveSubtitleSession leaves the recording without an end and its device
\* without a recording, unless a newer one is active.
LEMMA ClearIs ==
    ASSUME NEW w \in Worlds, NEW s \in w.live, Held(w, {s})
    PROVE  LET r == ClearActiveSubtitleSession(w, s) IN
           /\ r \in Worlds /\ Held(r, {s}) /\ \A d \in Devices : r.active[d] # s
           /\ r.live = w.live /\ r.cycle = w.cycle /\ r.connected = w.connected
           /\ r.last = w.last /\ r.translating = w.translating /\ r.shown = w.shown
           /\ r.asr = w.asr
           /\ \A d \in Devices : r.active[d] # 0 => r.active[d] = w.active[d]
           /\ Shown(w, None) => Shown(r, DeviceOf(w, s))
           /\ Shown(w, DeviceOf(w, s)) => Shown(r, DeviceOf(w, s))
  <1> DEFINE d == DeviceOf(w, s)
             f == [x \in Devices |-> IF x = d /\ w.active[d] = s THEN 0 ELSE w.active[x]]
             r == [w EXCEPT !.active = f]
  <1>1. s \in Sessions /\ s # 0 /\ d \in Devices
    BY LiveDevice, Bounds
  <1>2. w.active \in [Devices -> Sessions \cup {0}]
    BY DEF Worlds
  <1>3. ClearActiveSubtitleSession(w, s) = r
    <2>1. w.active[d] = s => f = [w.active EXCEPT ![d] = 0]
      BY <1>2
    <2>2. w.active[d] # s => f = w.active
      BY <1>2
    <2>3. w = [w EXCEPT !.active = w.active]
      BY DEF Worlds
    <2>4. ClearActiveSubtitleSession(w, s)
              = IF w.active[d] = s THEN [w EXCEPT !.active = [w.active EXCEPT ![d] = 0]] ELSE w
      BY DEF ClearActiveSubtitleSession, IsActiveSubtitleCycle, Worlds
    <2> QED
      BY <2>1, <2>2, <2>3, <2>4
  <1>41. f \in [Devices -> Sessions \cup {0}]
    BY <1>2
  <1>42. \A x \in Devices : f[x] = IF x = d /\ w.active[d] = s THEN 0 ELSE w.active[x]
    OBVIOUS
  <1> HIDE DEF f
  <1>43. \A x \in Devices : f[x] = w.active[x] \/ (x = d /\ f[x] = 0)
    BY <1>42
  <1>44. \A x \in Devices : f[x] # 0 => f[x] = w.active[x]
    BY <1>42
  <1>45. f[d] # s
    BY <1>1, <1>42
  <1>5. \A x \in Devices : w.active[x] = s => x = d
    BY <1>1 DEF Held, ActiveLive
  <1>6. \A x \in Devices : f[x] # s
    BY <1>1, <1>43, <1>45, <1>5
  <1>7. /\ r \in Worlds
        /\ r.live = w.live /\ r.cycle = w.cycle /\ r.connected = w.connected
        /\ r.last = w.last /\ r.translating = w.translating /\ r.active = f
        /\ r.asr = w.asr /\ r.superseded = w.superseded /\ r.untold = w.untold
        /\ r.overlay = w.overlay /\ r.posted = w.posted /\ r.shown = w.shown
    BY <1>41 DEF Worlds
  <1> HIDE DEF r
  <1>8. Numbered(r) /\ ActiveLive(r) /\ ClientsLive(r)
    BY <1>43, <1>44, <1>7 DEF Held, Numbered, ActiveLive, ClientsLive, DeviceOf
  <1>9. ASSUME NEW x \in r.live \ {s}
        PROVE  Recognized(r, x) /\ Ended(r, x)
    <2>1. x \in w.live \ {s} /\ DeviceOf(w, x) \in Devices
      BY <1>7, <1>9, LiveDevice
    <2>2. Recognized(w, x) /\ Ended(w, x)
      BY <2>1 DEF Held
    <2>3. w.active[DeviceOf(w, x)] = x => f[DeviceOf(w, x)] = x
      BY <2>1 DEF f
    <2> QED
      BY <1>7, <2>2, <2>3 DEF Recognized, Ended, IsActiveSubtitleCycle, DeviceOf
  <1>10. w.connected \subseteq Devices
    BY DEF Worlds
  <1>11. \A x : Told(w, x) => Told(r, x)
    BY <1>7 DEF Told
  <1>12. Shown(w, None) => Shown(r, d)
    BY <1>43, <1>44, <1>7, <1>10, <1>11, Bounds DEF Shown
  <1>13. Shown(w, d) => Shown(r, d)
    BY <1>43, <1>44, <1>7, <1>10, <1>11 DEF Shown
  <1> QED
    BY <1>3, <1>43, <1>44, <1>6, <1>7, <1>8, <1>9, <1>12, <1>13 DEF Held

\* Recordings that are erased leave nothing behind when none of them is active.
LEMMA EraseAllIs ==
    ASSUME NEW w \in Worlds, NEW ss \in SUBSET Sessions, Held(w, ss),
           \A d \in Devices : w.active[d] \notin ss
    PROVE  LET r == EraseAll(w, ss) IN
           /\ r \in Worlds /\ Held(r, {})
           /\ r.active = w.active /\ r.connected = w.connected
           /\ r.live = w.live \ ss /\ r.last = w.last
           /\ \A x \in Sessions : DeviceOf(r, x) = DeviceOf(w, x)
           /\ \A e : Shown(w, e) => Shown(r, e)
  <1> DEFINE l == w.live \ ss
             c == [x \in Sessions |-> IF x \in ss THEN Fresh(DeviceOf(w, x)) ELSE w.cycle[x]]
             a == [x \in Sessions |-> IF x \in ss THEN "idle" ELSE w.asr[x]]
             r == [w EXCEPT !.live = l, !.cycle = c, !.asr = a]
  <1>1. EraseAll(w, ss) = r
    BY DEF EraseAll
  <1>2. /\ w.cycle \in [Sessions -> SubtitleCycles]
        /\ w.asr \in [Sessions -> {"idle", "open", "last"}]
        /\ w.live \in SUBSET Sessions
    BY DEF Worlds
  <1>3. \A x \in Sessions : DeviceOf(w, x) \in Devices \cup {None}
    BY <1>2 DEF SubtitleCycles, DeviceOf
  <1>4. \A d \in Devices \cup {None} : Fresh(d) \in SubtitleCycles /\ Fresh(d).device = d
    BY Bounds DEF Fresh, SubtitleCycles
  <1>5. /\ c \in [Sessions -> SubtitleCycles] /\ a \in [Sessions -> {"idle", "open", "last"}]
        /\ l \in SUBSET Sessions
    BY <1>2, <1>3, <1>4
  <1>6. \A x \in Sessions : /\ c[x].device = DeviceOf(w, x)
                            /\ x \in ss => a[x] = "idle"
                            /\ x \notin ss => c[x] = w.cycle[x] /\ a[x] = w.asr[x]
    BY <1>3, <1>4 DEF DeviceOf
  <1>7. /\ l \subseteq w.live /\ \A x \in l : x \in Sessions /\ x \notin ss
        /\ \A x \in w.live : x \notin ss => x \in l
    BY <1>2
  <1> HIDE DEF c, a, l
  <1>8. /\ r \in Worlds /\ r.live = l /\ r.cycle = c /\ r.asr = a
        /\ r.active = w.active /\ r.translating = w.translating /\ r.connected = w.connected
        /\ r.last = w.last /\ r.superseded = w.superseded /\ r.untold = w.untold
        /\ r.overlay = w.overlay /\ r.posted = w.posted /\ r.shown = w.shown
    BY <1>5 DEF Worlds
  <1> HIDE DEF r
  <1>9. \A x \in Sessions : DeviceOf(r, x) = DeviceOf(w, x)
    BY <1>6, <1>8 DEF DeviceOf
  <1>10. Numbered(r)
    BY <1>7, <1>8, <1>9 DEF Held, Numbered
  <1>11. ActiveLive(r)
    BY <1>7, <1>8, <1>9 DEF Held, ActiveLive
  <1>12. ClientsLive(r)
    BY <1>6, <1>7, <1>8 DEF Held, ClientsLive
  <1>13. ASSUME NEW x \in r.live
         PROVE  Recognized(r, x) /\ Ended(r, x)
    <2>1. x \in Sessions /\ x \in w.live \ ss
      BY <1>7, <1>8, <1>13
    <2>2. Recognized(w, x) /\ Ended(w, x) /\ r.cycle[x] = w.cycle[x] /\ r.asr[x] = w.asr[x]
      BY <1>6, <1>8, <2>1 DEF Held
    <2> QED
      BY <1>8, <1>9, <2>1, <2>2 DEF Recognized, Ended, IsActiveSubtitleCycle
  <1>14. ASSUME NEW e, Shown(w, e)
         PROVE  Shown(r, e)
    BY <1>8, <1>14 DEF Shown, Told
  <1>15. Held(r, {})
    BY <1>10, <1>11, <1>12, <1>13 DEF Held
  <1> QED
    BY <1>1, <1>8, <1>9, <1>14, <1>15 DEF l

\* So does one.
LEMMA EraseIs ==
    ASSUME NEW w \in Worlds, NEW s \in Sessions, Held(w, {s}),
           \A d \in Devices : w.active[d] # s
    PROVE  LET r == Erase(w, s) IN
           /\ r \in Worlds /\ Held(r, {})
           /\ r.active = w.active /\ r.connected = w.connected
           /\ r.live = w.live \ {s} /\ r.last = w.last
           /\ \A x \in Sessions : DeviceOf(r, x) = DeviceOf(w, x)
           /\ \A e : Shown(w, e) => Shown(r, e)
  <1> DEFINE ss == {s}
             r == EraseAll(w, ss)
  <1>1. Erase(w, s) = r /\ ss \in SUBSET Sessions
    BY DEF Erase
  <1>2. Held(w, ss) /\ \A d \in Devices : w.active[d] \notin ss
    OBVIOUS
  <1> HIDE DEF ss
  <1>3. /\ r \in Worlds /\ Held(r, {})
        /\ r.active = w.active /\ r.connected = w.connected
        /\ r.live = w.live \ ss /\ r.last = w.last
        /\ \A x \in Sessions : DeviceOf(r, x) = DeviceOf(w, x)
        /\ \A e : Shown(w, e) => Shown(r, e)
    BY <1>1, <1>2, EraseAllIs
  <1> HIDE DEF r
  <1> QED
    BY <1>1, <1>3 DEF ss

\* An error ends a recording: its device is told by the overlay.
LEMMA ErrorGood ==
    ASSUME NEW w \in Worlds, NEW thread, NEW s \in Sessions, Held(w, {s}), Shown(w, None)
    PROVE  LET r == FinishSubtitleCycleWithError(w, thread, s) IN
           r \in Worlds /\ Good(r) /\ r.connected = w.connected
  <1> DEFINE d == DeviceOf(w, s)
             c == ClearActiveSubtitleSession(w, s)
             t == DispatchToUi(c, thread, "error", d)
             r == Erase(t, s)
  <1>1. CASE s \notin w.live
    <2>1. FinishSubtitleCycleWithError(w, thread, s) = w
      BY <1>1 DEF FinishSubtitleCycleWithError
    <2> QED
      BY <1>1, <2>1, HeldMore DEF Good
  <1>2. CASE s \in w.live
    <2>1. FinishSubtitleCycleWithError(w, thread, s) = r
      BY <1>2 DEF FinishSubtitleCycleWithError
    <2>2. d \in Devices
      BY <1>2, LiveDevice
    <2>3. /\ c \in Worlds /\ Held(c, {s}) /\ Shown(c, d) /\ c.connected = w.connected
          /\ \A x \in Devices : c.active[x] # s
      BY <1>2, ClearIs
    <2> HIDE DEF c, d
    <2>4. t \in Worlds /\ Same(c, t) /\ Shown(t, None)
      BY <2>2, <2>3, DispatchIs
    <2> HIDE DEF t
    <2>5. Held(t, {s}) /\ t.connected = w.connected /\ \A x \in Devices : t.active[x] # s
      BY <2>3, <2>4, SameHeld DEF Same
    <2>6. r \in Worlds /\ Held(r, {}) /\ Shown(r, None) /\ r.connected = w.connected
      BY <2>4, <2>5, EraseIs
    <2> QED
      BY <2>1, <2>6 DEF Good
  <1> QED
    BY <1>1, <1>2

\* A recording ends: its device is told unless a newer recording of it is active.
LEMMA FinishGood ==
    ASSUME NEW w \in Worlds, NEW thread, NEW s \in Sessions, Held(w, {s}), Shown(w, None),
           NEW hide
    PROVE  LET r == FinishSubtitleCycle(w, thread, s, hide) IN r \in Worlds /\ Good(r)
  <1> DEFINE d == DeviceOf(w, s)
             h == IF hide THEN HideOverlay(w, thread) ELSE w
             c == ClearActiveSubtitleSession(h, s)
             t == IF HasActiveSubtitleSession(c, d) THEN c ELSE SendUiState(c, d, "ready")
             r == Erase(t, s)
  <1>1. CASE s \notin w.live
    <2>1. FinishSubtitleCycle(w, thread, s, hide) = w
      BY <1>1 DEF FinishSubtitleCycle
    <2> QED
      BY <1>1, <2>1, HeldMore DEF Good
  <1>2. CASE s \in w.live
    <2>1. FinishSubtitleCycle(w, thread, s, hide) = r
      BY <1>2 DEF FinishSubtitleCycle
    <2>2. d \in Devices
      BY <1>2, LiveDevice
    <2>3. h \in Worlds /\ Same(w, h) /\ Shown(h, None)
      BY HideOverlayIs DEF Same
    <2>4. DeviceOf(h, s) = d
      BY <2>3 DEF Same, DeviceOf
    <2> HIDE DEF h
    <2>5. Held(h, {s}) /\ s \in h.live
      BY <1>2, <2>3, SameHeld DEF Same
    <2> HIDE DEF d
    <2>6. /\ c \in Worlds /\ Held(c, {s}) /\ Shown(c, d)
          /\ \A x \in Devices : c.active[x] # s
      BY <2>3, <2>4, <2>5, ClearIs
    <2> HIDE DEF c
    <2>7. t \in Worlds /\ Same(c, t) /\ Shown(t, None)
      <3>1. CASE c.active[d] # 0
        <4>1. t = c
          BY <3>1 DEF HasActiveSubtitleSession
        <4> QED
          BY <2>6, <3>1, <4>1 DEF Shown, Same
      <3>2. CASE c.active[d] = 0
        <4>1. t = SendUiState(c, d, "ready")
          BY <3>2 DEF HasActiveSubtitleSession
        <4> QED
          BY <2>2, <2>6, <4>1, ReadyShown
      <3> QED
        BY <3>1, <3>2
    <2> HIDE DEF t
    <2>8. Held(t, {s}) /\ \A x \in Devices : t.active[x] # s
      BY <2>6, <2>7, SameHeld DEF Same
    <2>9. r \in Worlds /\ Held(r, {}) /\ Shown(r, None)
      BY <2>7, <2>8, EraseIs
    <2> QED
      BY <2>1, <2>9 DEF Good
  <1> QED
    BY <1>1, <1>2

\* The active recording of a device is cancelled, and the device told.
LEMMA CancelGood ==
    ASSUME NEW w \in Worlds, NEW thread, NEW d \in Devices, Good(w)
    PROVE  LET r == CancelSubtitleCycle(w, thread, d) IN r \in Worlds /\ Good(r)
  <1> DEFINE s == w.active[d]
             h == HideOverlay(w, thread)
             t == SendUiState(h, d, "ready")
             c == ClearActiveSubtitleSession(t, s)
             r == Erase(c, s)
  <1>1. CASE s \notin w.live
    BY <1>1 DEF CancelSubtitleCycle
  <1>2. CASE s \in w.live
    <2>1. CancelSubtitleCycle(w, thread, d) = r
      BY <1>2 DEF CancelSubtitleCycle
    <2>2. s \in Sessions
      BY <1>2 DEF Worlds
    <2>3. s # 0 /\ DeviceOf(w, s) = d
      BY <2>2, Bounds DEF Good, Held, ActiveLive
    <2>4. h \in Worlds /\ Same(w, h) /\ Shown(h, None)
      BY HideOverlayIs DEF Good
    <2> HIDE DEF h, s
    <2>5. /\ t \in Worlds /\ Same(h, t) /\ Shown(t, None)
          /\ d \in t.connected => t.shown[d] = "ready"
      <3>1. t \in Worlds /\ Same(h, t) /\ Shown(t, None)
        BY <2>4, ReadyShown
      <3>2. t.shown[d] = IF d \in h.connected THEN "ready" ELSE h.shown[d]
        BY <2>4, SendIs DEF Shows
      <3> QED
        BY <3>1, <3>2 DEF Same
    <2> HIDE DEF t
    <2>6. Held(t, {s}) /\ s \in t.live /\ DeviceOf(t, s) = d
      <3>1. Same(w, t)
        BY <2>4, <2>5, SameTwice
      <3>2. Held(w, {s})
        BY HeldLess DEF Good
      <3> QED
        BY <1>2, <2>3, <3>1, <3>2, SameHeld DEF Same, DeviceOf
    <2>7. /\ c \in Worlds /\ Held(c, {s}) /\ Shown(c, d)
          /\ c.connected = t.connected /\ c.shown = t.shown
          /\ \A x \in Devices : c.active[x] # s
      BY <2>5, <2>6, ClearIs
    <2> HIDE DEF c
    <2>8. Shown(c, None)
      BY <2>5, <2>7 DEF Shown
    <2>9. r \in Worlds /\ Held(r, {}) /\ Shown(r, None)
      BY <2>2, <2>7, <2>8, EraseIs
    <2> QED
      BY <2>1, <2>9 DEF Good
  <1> QED
    BY <1>1, <1>2

\* What a recording has.
LEMMA CycleOf ==
    ASSUME NEW w \in Worlds, NEW s \in Sessions
    PROVE  w.cycle[s] \in SubtitleCycles /\ w.asr[s] \in {"idle", "open", "last"}
  BY DEF Worlds

\* A recording whose audio goes to its client.
LEMMA AudioStarted ==
    ASSUME NEW m \in SubtitleCycles
    PROVE  LET c == [m EXCEPT !.asr_started = TRUE] IN
           /\ c \in SubtitleCycles
           /\ c.device = m.device /\ c.frames = m.frames
           /\ c.long = m.long /\ c.sent_final = m.sent_final
           /\ c.finished = m.finished /\ c.waiting = m.waiting
           /\ c.asr_started
  BY Bounds DEF SubtitleCycles

\* A recording with audio.
LEMMA AudioCounted ==
    ASSUME NEW m \in SubtitleCycles
    PROVE  LET c == [m EXCEPT !.frames = TRUE] IN
           /\ c \in SubtitleCycles
           /\ c.device = m.device /\ c.long = m.long
           /\ c.asr_started = m.asr_started /\ c.sent_final = m.sent_final
           /\ c.finished = m.finished /\ c.waiting = m.waiting
           /\ c.frames
  BY Bounds DEF SubtitleCycles

\* A recording all of whose audio was sent.
LEMMA AudioDone ==
    ASSUME NEW m \in SubtitleCycles
    PROVE  LET c == [m EXCEPT !.sent_final = TRUE, !.waiting = FALSE] IN
           /\ c \in SubtitleCycles
           /\ c.device = m.device /\ c.frames = m.frames
           /\ c.long = m.long /\ c.asr_started = m.asr_started
           /\ c.finished = m.finished
           /\ c.sent_final /\ ~c.waiting
  BY Bounds DEF SubtitleCycles

\* A recording whose text has come.
LEMMA TextDone ==
    ASSUME NEW m \in SubtitleCycles
    PROVE  LET c == [m EXCEPT !.finished = TRUE] IN
           /\ c \in SubtitleCycles
           /\ c.device = m.device /\ c.frames = m.frames
           /\ c.long = m.long /\ c.asr_started = m.asr_started
           /\ c.sent_final = m.sent_final /\ c.waiting = m.waiting
           /\ c.finished
  BY Bounds DEF SubtitleCycles

\* A recording whose END is awaited, or not.
LEMMA EndAwaited ==
    ASSUME NEW m \in SubtitleCycles, NEW b \in BOOLEAN
    PROVE  LET c == [m EXCEPT !.waiting = b] IN
           /\ c \in SubtitleCycles
           /\ c.device = m.device /\ c.frames = m.frames
           /\ c.long = m.long /\ c.asr_started = m.asr_started
           /\ c.sent_final = m.sent_final /\ c.finished = m.finished
           /\ (c.waiting <=> b)
  BY Bounds DEF SubtitleCycles

\* A recording that is long enough for a text.
LEMMA LongEnough ==
    ASSUME NEW m \in SubtitleCycles
    PROVE  LET c == [m EXCEPT !.long = TRUE] IN
           /\ c \in SubtitleCycles
           /\ c.device = m.device /\ c.frames = m.frames
           /\ c.asr_started = m.asr_started /\ c.sent_final = m.sent_final
           /\ c.finished = m.finished /\ c.waiting = m.waiting
           /\ c.long
  BY Bounds DEF SubtitleCycles

\* Changes of one recording, and of its ASR client.
Changed(w, s, c) == [w EXCEPT !.cycle[s] = c]
WithClient(w, s, a) == [w EXCEPT !.asr[s] = a]

\* A change of one recording leaves the others and the devices alone.
LEMMA ChangedIs ==
    ASSUME NEW w \in Worlds, NEW s \in Sessions, NEW c \in SubtitleCycles,
           c.device = DeviceOf(w, s)
    PROVE  LET r == Changed(w, s, c) IN
           r \in Worlds /\ Touched(w, r, s) /\ r.cycle[s] = c /\ r.asr = w.asr
  <1> DEFINE f == [w.cycle EXCEPT ![s] = c]
             r == [w EXCEPT !.cycle = f]
  <1>1. Changed(w, s, c) = r
    BY DEF Changed
  <1>2. /\ f \in [Sessions -> SubtitleCycles] /\ f[s] = c
        /\ \A x \in Sessions \ {s} : f[x] = w.cycle[x]
    BY DEF Worlds
  <1> HIDE DEF f
  <1>3. r \in Worlds /\ r.cycle = f
    BY <1>2 DEF Worlds
  <1>4. Touched(w, r, s) /\ r.asr = w.asr
    BY <1>2, <1>3 DEF Touched, DeviceOf, Worlds
  <1> QED
    BY <1>1, <1>2, <1>3, <1>4

\* So does a change of its ASR client.
LEMMA WithClientIs ==
    ASSUME NEW w \in Worlds, NEW s \in Sessions, NEW a \in {"idle", "open", "last"}
    PROVE  LET r == WithClient(w, s, a) IN
           r \in Worlds /\ Touched(w, r, s) /\ r.asr[s] = a /\ r.cycle = w.cycle
  <1> DEFINE f == [w.asr EXCEPT ![s] = a]
             r == [w EXCEPT !.asr = f]
  <1>1. WithClient(w, s, a) = r
    BY DEF WithClient
  <1>2. /\ f \in [Sessions -> {"idle", "open", "last"}] /\ f[s] = a
        /\ \A x \in Sessions \ {s} : f[x] = w.asr[x]
    BY DEF Worlds
  <1> HIDE DEF f
  <1>3. r \in Worlds /\ r.asr = f
    BY <1>2 DEF Worlds
  <1>4. Touched(w, r, s) /\ r.cycle = w.cycle
    BY <1>2, <1>3 DEF Touched, DeviceOf, Worlds
  <1> QED
    BY <1>1, <1>2, <1>3, <1>4

-----------------------------------------------------------------------------
(* Texts *)

\* A text, or that its translation failed, is shown; the last one ends its
\* recording.
LEMMA ShowTextGood ==
    ASSUME NEW w \in Worlds, NEW thread, NEW s \in Sessions, NEW final \in BOOLEAN,
           NEW ok \in BOOLEAN, Shown(w, None), Held(w, {s}), ~final => Held(w, {})
    PROVE  LET r == ShowSubtitleText(w, thread, s, final, ok) IN r \in Worlds /\ Good(r)
  <1> DEFINE t == IF ok THEN IF HasActiveSubtitleSession(w, DeviceOf(w, s)) THEN w
                             ELSE HideOverlay(w, thread)
                  ELSE DispatchToUi(w, thread, "error", None)
  <1>1. t \in Worlds /\ Same(w, t) /\ Shown(t, None)
    <2>1. w \in Worlds /\ Same(w, w) /\ Shown(w, None)
      BY DEF Same
    <2>2. LET h == HideOverlay(w, thread) IN h \in Worlds /\ Same(w, h) /\ Shown(h, None)
      BY HideOverlayIs
    <2>3. LET e == DispatchToUi(w, thread, "error", None) IN
          e \in Worlds /\ Same(w, e) /\ Shown(e, None)
      BY DispatchIs
    <2> QED
      BY <2>1, <2>2, <2>3
  <1> DEFINE f == FinishSubtitleCycle(t, thread, s, ok /\ ShouldHideOverlay(t, s))
  <1>2. ShowSubtitleText(w, thread, s, final, ok) = IF final THEN f ELSE t
    BY DEF ShowSubtitleText
  <1> HIDE DEF t
  <1>3. Held(t, {s}) /\ (~final => Held(t, {}))
    BY <1>1, SameHeld
  <1>4. f \in Worlds /\ Good(f)
    BY <1>1, <1>3, FinishGood
  <1> HIDE DEF f
  <1> QED
    BY <1>1, <1>2, <1>3, <1>4 DEF Good

\* A text that is being translated.
Translates(w, text) == [w EXCEPT !.translating = @ \cup {text}]

\* The last text of a recording is what it has in the translation.
LEMMA TranslatesGood ==
    ASSUME NEW w \in Worlds, NEW text \in Texts, text.of \in w.live, Shown(w, None),
           IF text.final THEN Held(w, {text.of}) /\ w.cycle[text.of].finished
                              /\ Ended(w, text.of)
           ELSE Held(w, {})
    PROVE  Translates(w, text) \in Worlds /\ Good(Translates(w, text))
  <1> DEFINE s == text.of
             g == w.translating \cup {text}
             r == [w EXCEPT !.translating = g]
  <1>1. Translates(w, text) = r
    BY DEF Translates
  <1>2. /\ s \in Sessions /\ Held(w, {s}) /\ s <= w.last
        /\ text.final \in BOOLEAN /\ text = [of |-> s, final |-> text.final]
    BY LiveDevice, HeldLess DEF Texts
  <1>3. g \in SUBSET Texts /\ text \in g /\ w.translating \subseteq g
    BY DEF Worlds
  <1>4. \A x \in g : x \in w.translating \/ x = text
    OBVIOUS
  <1> HIDE DEF g
  <1>5. /\ r \in Worlds /\ r.translating = g
        /\ r.live = w.live /\ r.cycle = w.cycle /\ r.active = w.active /\ r.asr = w.asr
        /\ r.connected = w.connected /\ r.last = w.last /\ r.superseded = w.superseded
        /\ r.overlay = w.overlay /\ r.posted = w.posted /\ r.untold = w.untold
        /\ r.shown = w.shown
    BY <1>3 DEF Worlds
  <1> HIDE DEF r
  <1>6. Numbered(r) /\ ActiveLive(r) /\ ClientsLive(r)
    BY <1>2, <1>4, <1>5 DEF Held, Numbered, ActiveLive, ClientsLive, DeviceOf
  <1>7. ASSUME NEW x \in w.live, Recognized(w, x), Ended(w, x)
        PROVE  Recognized(r, x) /\ Ended(r, x)
    BY <1>3, <1>5, <1>7 DEF Recognized, Ended, IsActiveSubtitleCycle, DeviceOf
  <1>8. ASSUME text.final
        PROVE  Held(r, {})
    <2>1. text = [of |-> s, final |-> TRUE]
      BY <1>2, <1>8
    <2>2. Recognized(r, s) /\ Ended(r, s)
      BY <1>3, <1>5, <1>8, <2>1 DEF Recognized, Ended, IsActiveSubtitleCycle, DeviceOf
    <2>3. \A x \in w.live \ {s} : Recognized(w, x) /\ Ended(w, x)
      BY <1>2 DEF Held
    <2>4. \A x \in r.live : Recognized(r, x) /\ Ended(r, x)
      BY <1>5, <1>7, <2>2, <2>3
    <2> QED
      BY <1>6, <2>4 DEF Held
  <1>9. ASSUME ~text.final
        PROVE  Held(r, {})
    BY <1>5, <1>6, <1>7, <1>9 DEF Held
  <1>10. Shown(r, None)
    BY <1>5 DEF Shown, Told
  <1> QED
    BY <1>1, <1>5, <1>8, <1>9, <1>10 DEF Good

\* TransformText translates a text or shows it.
LEMMA TransformGood ==
    ASSUME NEW w \in Worlds, NEW s \in w.live, NEW final \in BOOLEAN, Shown(w, None),
           IF final THEN Held(w, {s}) /\ w.cycle[s].finished /\ Ended(w, s) ELSE Held(w, {})
    PROVE  LET r == TransformText(w, s, final) IN r \in Worlds /\ Good(r)
  <1> DEFINE text == [of |-> s, final |-> final]
  <1>1. s \in Sessions /\ Held(w, {s})
    BY LiveDevice, HeldLess
  <1>2. text \in Texts /\ text.of = s /\ (text.final <=> final)
    BY <1>1 DEF Texts
  <1>3. TransformText(w, s, final) = IF translate THEN Translates(w, text)
                                     ELSE ShowSubtitleText(w, "asr", s, final, TRUE)
    BY DEF TransformText, Translates
  <1> HIDE DEF text
  <1>4. Translates(w, text) \in Worlds /\ Good(Translates(w, text))
    BY <1>2, TranslatesGood
  <1>5. LET r == ShowSubtitleText(w, "asr", s, final, TRUE) IN r \in Worlds /\ Good(r)
    BY <1>1, Bounds, ShowTextGood
  <1> QED
    BY <1>3, <1>4, <1>5

\* A segment of the active recording.
LEMMA SegmentGood ==
    ASSUME NEW w \in Worlds, NEW s \in w.live, Good(w)
    PROVE  LET r == HandleSubtitleDefiniteSegment(w, s) IN r \in Worlds /\ Good(r)
  <1> DEFINE h == HideOverlay(w, "asr")
             r == TransformText(h, s, FALSE)
  <1>1. h \in Worlds /\ Same(w, h) /\ Shown(h, None)
    BY HideOverlayIs DEF Good
  <1>2. HandleSubtitleDefiniteSegment(w, s)
            = IF IsActiveSubtitleCycle(w, s) /\ mode = "click" THEN r ELSE w
    BY DEF HandleSubtitleDefiniteSegment
  <1> HIDE DEF h
  <1>3. Held(h, {}) /\ s \in h.live
    BY <1>1, SameHeld DEF Good, Same
  <1>4. r \in Worlds /\ Good(r)
    BY <1>1, <1>3, Bounds, TransformGood
  <1> HIDE DEF r
  <1> QED
    BY <1>2, <1>4

\* The text of a recording has come.
GotText(w, s) == [w EXCEPT !.cycle[s].finished = TRUE]

\* The final text: the client has given its session up, and its recording is
\* finished with the text or left to the translation.
LEMMA FinalTextGood ==
    ASSUME NEW w \in Worlds, NEW s \in w.live, NEW empty \in BOOLEAN, Held(w, {s}),
           Shown(w, None), Ended(w, s), w.cycle[s].finished => Recognized(w, s)
    PROVE  LET r == FinishSubtitleCycleWithFinalText(w, s, empty) IN r \in Worlds /\ Good(r)
  <1> DEFINE g == GotText(w, s)
             f == FinishSubtitleCycle(g, "asr", s, ShouldHideOverlay(g, s))
             t == TransformText(g, s, TRUE)
  <1>1. s \in Sessions
    BY LiveDevice
  <1>2. FinishSubtitleCycleWithFinalText(w, s, empty)
            = IF w.cycle[s].finished THEN w ELSE IF empty THEN f ELSE t
    BY DEF FinishSubtitleCycleWithFinalText, GotText
  <1>3. CASE w.cycle[s].finished
    BY <1>2, <1>3, HeldMore DEF Good
  <1>4. CASE ~w.cycle[s].finished
    <2> DEFINE c == [w.cycle[s] EXCEPT !.finished = TRUE]
    <2>5. g = Changed(w, s, c)
      BY DEF GotText, Changed
    <2>6. /\ c \in SubtitleCycles /\ c.device = DeviceOf(w, s) /\ c.finished
          /\ c.waiting = w.cycle[s].waiting /\ c.sent_final = w.cycle[s].sent_final
      BY <1>1, CycleOf, TextDone DEF DeviceOf
    <2> HIDE DEF c, g
    <2>1. /\ g \in Worlds /\ Touched(w, g, s) /\ g.cycle[s].finished
          /\ g.cycle[s].waiting = w.cycle[s].waiting
          /\ g.cycle[s].sent_final = w.cycle[s].sent_final
      BY <1>1, <2>5, <2>6, ChangedIs
    <2>2. s \in g.live /\ Ended(g, s) /\ Held(g, {s}) /\ Shown(g, None)
      BY <2>1, TouchedHeld DEF Touched, Ended, IsActiveSubtitleCycle
    <2>3. f \in Worlds /\ Good(f)
      BY <1>1, <2>1, <2>2, FinishGood
    <2>4. t \in Worlds /\ Good(t)
      BY <2>1, <2>2, Bounds, TransformGood
    <2> HIDE DEF f, t
    <2> QED
      BY <1>2, <1>4, <2>3, <2>4
  <1> QED
    BY <1>3, <1>4

-----------------------------------------------------------------------------
(* Results of the ASR client *)

\* Every recording, and its text, is as it was; so is what an error ended.
LEMMA LiveGood ==
    ASSUME NEW w \in Worlds, NEW s \in w.live, Good(w)
    PROVE  s \in Sessions /\ DeviceOf(w, s) \in Devices /\ Held(w, {s}) /\ Shown(w, None)
           /\ Recognized(w, s) /\ Ended(w, s)
  BY LiveDevice, HeldLess DEF Good, Held

\* A partial text is shown on the overlay, and after the audio on the device.
LEMMA PartialGood ==
    ASSUME NEW w \in Worlds, NEW s \in w.live, Good(w)
    PROVE  LET r == OnPartial(w, s) IN r \in Worlds /\ Good(r)
  <1> DEFINE d == DeviceOf(w, s)
             p == DispatchToUi(w, "asr", "show", None)
             t == SendUiState(p, d, "thinking")
  <1>1. s \in Sessions /\ s # 0 /\ d \in Devices
    BY LiveGood, Bounds
  <1>2. p \in Worlds /\ Same(w, p) /\ Good(p)
    BY DispatchGood
  <1>3. OnPartial(w, s) = IF w.active[d] \notin {0, s} THEN w
                          ELSE IF w.active[d] = s /\ w.cycle[s].sent_final THEN t ELSE p
    BY DEF OnPartial, IsActiveSubtitleCycle
  <1> HIDE DEF p, d
  <1>4. ASSUME w.active[d] = s
        PROVE  t \in Worlds /\ Good(t)
    <2>1. p.active[d] # 0
      BY <1>1, <1>2, <1>4 DEF Same
    <2>2. t \in Worlds /\ Same(p, t) /\ Shown(t, None)
      BY <1>1, <1>2, <2>1, ActiveShown DEF Shows, Good
    <2> HIDE DEF t
    <2> QED
      BY <1>2, <2>2, SameHeld DEF Good
  <1> HIDE DEF t
  <1> QED
    BY <1>2, <1>3, <1>4

\* The invitation to upgrade comes when the recording has ended with an error.
LEMMA UpgradeGood ==
    ASSUME NEW w \in Worlds, NEW s \in w.live, Good(w)
    PROVE  LET r == OnUpgrade(w, s) IN r \in Worlds /\ Good(r)
  <1> DEFINE d == DeviceOf(w, s)
             e == FinishSubtitleCycleWithError(w, "asr", s)
             t == SendUiState(e, d, "ready")
             r == DispatchToUi(t, "asr", "dialog", None)
  <1>1. d \in Devices /\ OnUpgrade(w, s) = r
    BY LiveGood DEF OnUpgrade
  <1>2. e \in Worlds /\ Good(e)
    BY LiveGood, ErrorGood
  <1> HIDE DEF e, d
  <1>3. t \in Worlds /\ Good(t)
    BY <1>1, <1>2, ReadyShown, SameHeld DEF Good
  <1> HIDE DEF t
  <1>4. r \in Worlds /\ Good(r)
    BY <1>3, DispatchGood
  <1> QED
    BY <1>1, <1>4

-----------------------------------------------------------------------------
(* Audio *)

\* Audio goes to the ASR client of a recording, whose last of it is remembered, or
\* the recording ends with an error.
LEMMA SendAudioGood ==
    ASSUME NEW w \in Worlds, NEW thread, NEW s \in w.live, NEW isLast \in BOOLEAN,
           NEW start \in BOOLEAN, NEW ok \in BOOLEAN,
           Held(w, {s}), Shown(w, None), Ended(w, s),
           w.cycle[s].finished => [of |-> s, final |-> TRUE] \in w.translating,
           w.cycle[s].asr_started => w.asr[s] # "idle" \/ w.cycle[s].finished,
           isLast => start,
           ~isLast => (w.cycle[s].sent_final => w.asr[s] = "last" \/ w.cycle[s].finished)
    PROVE  LET r == SendOrBufferSubtitleOggChunk(w, thread, s, isLast, start, ok) IN
           r \in Worlds /\ Good(r)
  <1> DEFINE c == [w.cycle[s] EXCEPT !.asr_started = TRUE]
             a == IF isLast \/ w.asr[s] = "last" THEN "last" ELSE "open"
             g == Changed(w, s, c)
             t == WithClient(g, s, a)
             e == FinishSubtitleCycleWithError(w, thread, s)
             r == SendOrBufferSubtitleOggChunk(w, thread, s, isLast, start, ok)
  <1> SUFFICES r \in Worlds /\ Good(r)
    OBVIOUS
  <1>1. s \in Sessions
    BY LiveDevice
  <1>2. CASE ~w.cycle[s].asr_started /\ ~start
    <2>1. r = w
      BY <1>2 DEF SendOrBufferSubtitleOggChunk
    <2>2. ~isLast
      BY <1>2
    <2>3. Recognized(w, s)
      BY <2>2 DEF Recognized
    <2> QED
      BY <2>1, <2>3, HeldMore DEF Good
  <1>3. CASE w.cycle[s].asr_started /\ w.asr[s] = "idle"
    <2>1. r = w
      BY <1>3 DEF SendOrBufferSubtitleOggChunk
    <2>2. Recognized(w, s)
      BY <1>3 DEF Recognized
    <2> QED
      BY <2>1, <2>2, HeldMore DEF Good
  <1>4. CASE /\ ~(~w.cycle[s].asr_started /\ ~start)
             /\ ~(w.cycle[s].asr_started /\ w.asr[s] = "idle")
    <2>1. r = IF ~ok THEN e ELSE t
      BY <1>1, <1>4 DEF SendOrBufferSubtitleOggChunk, Changed, WithClient, Worlds
    <2>2. e \in Worlds /\ Good(e)
      BY <1>1, ErrorGood
    <2>3. /\ c \in SubtitleCycles /\ c.device = DeviceOf(w, s)
          /\ c.waiting = w.cycle[s].waiting /\ c.finished = w.cycle[s].finished
          /\ c.sent_final = w.cycle[s].sent_final
      BY <1>1, CycleOf, AudioStarted DEF DeviceOf
    <2>4. /\ a \in {"idle", "open", "last"} /\ a # "idle"
          /\ w.asr[s] = "last" \/ isLast => a = "last"
      OBVIOUS
    <2> HIDE DEF c, a, e, r
    <2>5. g \in Worlds /\ Touched(w, g, s) /\ g.cycle[s] = c
      BY <1>1, <2>3, ChangedIs
    <2> HIDE DEF g
    <2>6. /\ s \in g.live /\ Held(g, {s}) /\ Shown(g, None)
          /\ g.translating = w.translating
          /\ Ended(g, s)
      BY <2>3, <2>5, TouchedHeld DEF Touched, Ended, IsActiveSubtitleCycle
    <2>7. t \in Worlds /\ Touched(g, t, s) /\ t.asr[s] = a /\ t.cycle = g.cycle
      BY <1>1, <2>4, <2>5, WithClientIs
    <2> HIDE DEF t
    <2>8. Held(t, {s}) /\ Shown(t, None) /\ Ended(t, s) /\ t.translating = w.translating
      BY <2>5, <2>6, <2>7, TouchedHeld DEF Touched, Ended, IsActiveSubtitleCycle, DeviceOf
    <2>9. Recognized(t, s)
      BY <2>3, <2>4, <2>5, <2>7, <2>8 DEF Recognized
    <2>10. t \in Worlds /\ Good(t)
      BY <2>7, <2>8, <2>9, HeldMore DEF Good
    <2> QED
      BY <2>1, <2>2, <2>10
  <1> QED
    BY <1>2, <1>3, <1>4

\* The end of the audio is noted.
AudioSent(w, s) == [w EXCEPT !.cycle[s].sent_final = TRUE, !.cycle[s].waiting = FALSE]

\* What is done at the end of the audio, for each recording that it ends.
LEMMA FinalAudioIs ==
    ASSUME NEW w, NEW thread, NEW s \in w.live, NEW ok, ~w.cycle[s].sent_final
    PROVE  LET t    == AudioSent(w, s)
               gone == Erase(ClearActiveSubtitleSession(t, s), s)
               r    == SendSubtitleFinalOggChunkIfNeeded(w, thread, s, ok)
           IN  r = IF ~w.cycle[s].asr_started /\ ~w.cycle[s].long
                   THEN IF IsActiveSubtitleCycle(w, s)
                        THEN SendUiState(HideOverlay(gone, thread), DeviceOf(w, s), "ready")
                        ELSE gone
                   ELSE IF ~w.cycle[s].frames THEN FinishSubtitleCycleWithError(t, thread, s)
                   ELSE SendOrBufferSubtitleOggChunk(t, thread, s, TRUE, TRUE, ok)
  <1>1. ASSUME ~w.cycle[s].asr_started /\ ~w.cycle[s].long
        PROVE  SendSubtitleFinalOggChunkIfNeeded(w, thread, s, ok)
                   = IF IsActiveSubtitleCycle(w, s)
                     THEN SendUiState(
                              HideOverlay(
                                  Erase(ClearActiveSubtitleSession(AudioSent(w, s), s), s),
                                  thread),
                              DeviceOf(w, s), "ready")
                     ELSE Erase(ClearActiveSubtitleSession(AudioSent(w, s), s), s)
    BY <1>1, Zenon DEF SendSubtitleFinalOggChunkIfNeeded, AudioSent
  <1>2. ASSUME (w.cycle[s].asr_started \/ w.cycle[s].long) /\ ~w.cycle[s].frames
        PROVE  SendSubtitleFinalOggChunkIfNeeded(w, thread, s, ok)
                   = FinishSubtitleCycleWithError(AudioSent(w, s), thread, s)
    BY <1>2, Zenon DEF SendSubtitleFinalOggChunkIfNeeded, AudioSent
  <1>3. ASSUME (w.cycle[s].asr_started \/ w.cycle[s].long) /\ w.cycle[s].frames
        PROVE  SendSubtitleFinalOggChunkIfNeeded(w, thread, s, ok)
                   = SendOrBufferSubtitleOggChunk(AudioSent(w, s), thread, s, TRUE, TRUE, ok)
    BY <1>3, Zenon DEF SendSubtitleFinalOggChunkIfNeeded, AudioSent
  <1> QED
    BY <1>1, <1>2, <1>3

\* The end of the audio: the recording is given up, ends with an error, or is left
\* to its ASR client.
LEMMA FinalAudioGood ==
    ASSUME NEW w \in Worlds, NEW thread, NEW s \in w.live, NEW ok \in BOOLEAN,
           Held(w, {s}), Shown(w, None), Recognized(w, s)
    PROVE  LET r == SendSubtitleFinalOggChunkIfNeeded(w, thread, s, ok) IN
           r \in Worlds /\ Good(r)
  <1> DEFINE d == DeviceOf(w, s)
             c == [w.cycle[s] EXCEPT !.sent_final = TRUE, !.waiting = FALSE]
             t == AudioSent(w, s)
             k == ClearActiveSubtitleSession(t, s)
             gone == Erase(k, s)
             h == HideOverlay(gone, thread)
             u == SendUiState(h, d, "ready")
             e == FinishSubtitleCycleWithError(t, thread, s)
             o == SendOrBufferSubtitleOggChunk(t, thread, s, TRUE, TRUE, ok)
             r == SendSubtitleFinalOggChunkIfNeeded(w, thread, s, ok)
  <1> SUFFICES r \in Worlds /\ Good(r)
    OBVIOUS
  <1>1. s \in Sessions /\ d \in Devices
    BY LiveDevice
  <1>2. CASE w.cycle[s].sent_final
    <2>1. r = w
      BY <1>2 DEF SendSubtitleFinalOggChunkIfNeeded
    <2>2. Ended(w, s)
      BY <1>2 DEF Ended
    <2> QED
      BY <2>1, <2>2, HeldMore DEF Good
  <1>3. CASE ~w.cycle[s].sent_final
    <2>1. r = IF ~w.cycle[s].asr_started /\ ~w.cycle[s].long
              THEN IF IsActiveSubtitleCycle(w, s) THEN u ELSE gone
              ELSE IF ~w.cycle[s].frames THEN e ELSE o
      BY <1>3, FinalAudioIs
    <2>2. t = Changed(w, s, c)
      BY <1>1 DEF AudioSent, Changed, Worlds
    <2>3. /\ c \in SubtitleCycles /\ c.device = d /\ c.sent_final
          /\ c.finished = w.cycle[s].finished /\ c.asr_started = w.cycle[s].asr_started
      BY <1>1, CycleOf, AudioDone DEF DeviceOf
    <2> HIDE DEF c, r
    <2>4. t \in Worlds /\ Touched(w, t, s) /\ t.cycle[s] = c /\ t.asr = w.asr
      BY <1>1, <2>2, <2>3, ChangedIs
    <2> HIDE DEF t
    <2>5. /\ s \in t.live /\ Held(t, {s}) /\ Shown(t, None) /\ Ended(t, s)
          /\ t.translating = w.translating /\ t.active = w.active /\ DeviceOf(t, s) = d
      BY <2>3, <2>4, TouchedHeld DEF Touched, Ended
    <2>6. e \in Worlds /\ Good(e)
      BY <1>1, <2>4, <2>5, ErrorGood
    <2>7. o \in Worlds /\ Good(o)
      <3>1. /\ t.cycle[s].finished => [of |-> s, final |-> TRUE] \in t.translating
            /\ t.cycle[s].asr_started => t.asr[s] # "idle" \/ t.cycle[s].finished
        BY <2>3, <2>4, <2>5 DEF Recognized
      <3> QED
        BY <2>4, <2>5, <3>1, Bounds, SendAudioGood
    <2>8. /\ k \in Worlds /\ Held(k, {s}) /\ Shown(k, d)
          /\ \A x \in Devices : k.active[x] # s
          /\ w.active[d] # s => Shown(k, None)
      <3>1. /\ k \in Worlds /\ Held(k, {s}) /\ Shown(k, d)
            /\ \A x \in Devices : k.active[x] # s
        BY <2>4, <2>5, ClearIs
      <3>2. w.active[d] # s => k = t
        BY <2>5 DEF ClearActiveSubtitleSession, IsActiveSubtitleCycle
      <3> QED
        BY <2>5, <3>1, <3>2
    <2> HIDE DEF k
    <2>9. /\ gone \in Worlds /\ Held(gone, {}) /\ Shown(gone, d)
          /\ w.active[d] # s => Shown(gone, None)
      BY <1>1, <2>8, EraseIs
    <2> HIDE DEF gone
    <2>10. h \in Worlds /\ Same(gone, h) /\ Shown(h, d)
      BY <2>9, HideOverlayIs
    <2> HIDE DEF h
    <2>11. u \in Worlds /\ Same(h, u) /\ Shown(u, None)
      BY <1>1, <2>10, ReadyShown
    <2>12. u \in Worlds /\ Good(u)
      BY <2>9, <2>10, <2>11, SameTwice, SameHeld DEF Good
    <2> HIDE DEF u, e, o, d
    <2> QED
      BY <2>1, <2>6, <2>7, <2>9, <2>12 DEF Good, IsActiveSubtitleCycle, d
  <1> QED
    BY <1>2, <1>3

\* The END has come, or is awaited.
Waits(w, s, b) == [w EXCEPT !.cycle[s].waiting = b]

\* That changes nothing else.
LEMMA WaitsIs ==
    ASSUME NEW w \in Worlds, NEW s \in w.live, NEW b \in BOOLEAN, Good(w)
    PROVE  LET r == Waits(w, s, b) IN
           /\ r \in Worlds /\ s \in r.live /\ Held(r, {s}) /\ Shown(r, None)
           /\ Recognized(r, s) /\ (b => Ended(r, s))
           /\ r.active = w.active /\ r.connected = w.connected
           /\ DeviceOf(r, s) = DeviceOf(w, s) /\ (r.cycle[s].waiting <=> b)
  <1> DEFINE c == [w.cycle[s] EXCEPT !.waiting = b]
             r == Waits(w, s, b)
  <1> SUFFICES /\ r \in Worlds /\ s \in r.live /\ Held(r, {s}) /\ Shown(r, None)
               /\ Recognized(r, s) /\ (b => Ended(r, s))
               /\ r.active = w.active /\ r.connected = w.connected
               /\ DeviceOf(r, s) = DeviceOf(w, s) /\ (r.cycle[s].waiting <=> b)
    OBVIOUS
  <1>1. s \in Sessions /\ Held(w, {s}) /\ Shown(w, None) /\ Recognized(w, s)
    BY LiveGood
  <1>2. r = Changed(w, s, c)
    BY DEF Waits, Changed
  <1>3. /\ c \in SubtitleCycles /\ c.device = DeviceOf(w, s) /\ (c.waiting <=> b)
        /\ c.finished = w.cycle[s].finished /\ c.asr_started = w.cycle[s].asr_started
        /\ c.sent_final = w.cycle[s].sent_final
    BY <1>1, CycleOf, EndAwaited DEF DeviceOf
  <1> HIDE DEF c
  <1>4. r \in Worlds /\ Touched(w, r, s) /\ r.cycle[s] = c /\ r.asr = w.asr
    BY <1>1, <1>2, <1>3, ChangedIs
  <1> HIDE DEF r
  <1>5. Held(r, {s}) /\ Shown(r, None)
    BY <1>1, <1>4, TouchedHeld
  <1>6. Recognized(r, s) /\ (b => Ended(r, s))
    BY <1>1, <1>3, <1>4 DEF Touched, Recognized, Ended
  <1> QED
    BY <1>3, <1>4, <1>5, <1>6 DEF Touched

\* The recording has audio.
HasFrames(w, s) == [w EXCEPT !.cycle[s].frames = TRUE]

\* A frame of audio, the END among them.
LEMMA AudioFrameGood ==
    ASSUME NEW w \in Worlds, NEW s \in w.live, NEW end \in BOOLEAN, NEW ok \in BOOLEAN,
           Good(w)
    PROVE  LET r == HandleSubtitleAudioFrame(w, s, end, ok) IN r \in Worlds /\ Good(r)
  <1> DEFINE v == Waits(w, s, FALSE)
             f == SendSubtitleFinalOggChunkIfNeeded(v, "ui", s, ok)
             c == [w.cycle[s] EXCEPT !.frames = TRUE]
             g == HasFrames(w, s)
             start == w.cycle[s].long /\ ~w.cycle[s].waiting
             o == SendOrBufferSubtitleOggChunk(g, "ui", s, FALSE, start, ok)
  <1>1. HandleSubtitleAudioFrame(w, s, end, ok) = IF end THEN f ELSE o
    BY DEF HandleSubtitleAudioFrame, Waits, HasFrames
  <1>2. f \in Worlds /\ Good(f)
    <2>1. v \in Worlds /\ s \in v.live /\ Held(v, {s}) /\ Shown(v, None) /\ Recognized(v, s)
      BY Bounds, WaitsIs
    <2> HIDE DEF v
    <2> QED
      BY <2>1, FinalAudioGood
  <1>3. o \in Worlds /\ Good(o)
    <2>1. /\ s \in Sessions /\ Held(w, {s}) /\ Shown(w, None)
          /\ Recognized(w, s) /\ Ended(w, s)
      BY LiveGood
    <2>2. g = Changed(w, s, c)
      BY DEF HasFrames, Changed
    <2>3. /\ c \in SubtitleCycles /\ c.device = DeviceOf(w, s)
          /\ c.waiting = w.cycle[s].waiting
          /\ c.finished = w.cycle[s].finished /\ c.asr_started = w.cycle[s].asr_started
          /\ c.sent_final = w.cycle[s].sent_final
      BY <2>1, CycleOf, AudioCounted DEF DeviceOf
    <2>4. start \in BOOLEAN
      BY <2>1, CycleOf DEF SubtitleCycles
    <2> HIDE DEF c, start
    <2>5. g \in Worlds /\ Touched(w, g, s) /\ g.cycle[s] = c /\ g.asr = w.asr
      BY <2>1, <2>2, <2>3, ChangedIs
    <2> HIDE DEF g
    <2>6. s \in g.live /\ Held(g, {s}) /\ Shown(g, None)
      BY <2>1, <2>5, TouchedHeld DEF Touched
    <2>7. Recognized(g, s) /\ Ended(g, s)
      BY <2>1, <2>3, <2>5 DEF Touched, Recognized, Ended, IsActiveSubtitleCycle
    <2> QED
      BY <2>4, <2>5, <2>6, <2>7, Bounds, SendAudioGood DEF Recognized
  <1> HIDE DEF f, o
  <1> QED
    BY <1>1, <1>2, <1>3

-----------------------------------------------------------------------------
(* Buttons *)

\* A new recording is active.
Recorded(w, s, d) ==
    [w EXCEPT !.live = @ \cup {s}, !.cycle[s] = Fresh(d), !.active[d] = s,
              !.last = s, !.untold = @ \ {d},
              !.superseded = @ \cup ({w.active[d]} \ {0})]

\* It has the next number, and supersedes one that was active.
LEMMA RecordedGood ==
    ASSUME NEW w \in Worlds, NEW d \in Devices, NEW s \in Sessions, s = w.last + 1, Good(w)
    PROVE  LET r == Recorded(w, s, d) IN r \in Worlds /\ Good(r) /\ r.active[d] # 0
  <1> DEFINE l == w.live \cup {s}
             c == [w.cycle EXCEPT ![s] = Fresh(d)]
             f == [w.active EXCEPT ![d] = s]
             u == w.untold \ {d}
             p == w.superseded \cup ({w.active[d]} \ {0})
             r == [w EXCEPT !.live = l, !.cycle = c, !.active = f, !.last = s, !.untold = u,
                            !.superseded = p]
  <1>1. Recorded(w, s, d) = r
    BY DEF Recorded
  <1>2. /\ s # 0 /\ s \in Nat /\ s \in 0..MaxSessions /\ w.last \in Nat
        /\ w.live \subseteq Sessions /\ w.superseded \subseteq Sessions
        /\ w.active[d] \in Sessions \cup {0}
    BY Bounds DEF Worlds
  <1>3. /\ Fresh(d) \in SubtitleCycles /\ Fresh(d).device = d /\ ~Fresh(d).finished
        /\ ~Fresh(d).asr_started /\ ~Fresh(d).sent_final
    BY Bounds DEF Fresh, SubtitleCycles
  <1>4. /\ c \in [Sessions -> SubtitleCycles] /\ c[s] = Fresh(d)
        /\ \A x \in Sessions \ {s} : c[x] = w.cycle[x]
    BY <1>3 DEF Worlds
  <1>5. /\ f \in [Devices -> Sessions \cup {0}] /\ f[d] = s
        /\ \A x \in Devices \ {d} : f[x] = w.active[x]
    BY DEF Worlds
  <1>6. /\ l \in SUBSET Sessions /\ s \in l /\ w.live \subseteq l
        /\ \A x \in l : x \in w.live \/ x = s
    BY <1>2
  <1>7. /\ p \in SUBSET Sessions /\ w.superseded \subseteq p
        /\ w.active[d] # 0 => w.active[d] \in p
        /\ \A x \in p : x \in w.superseded \/ (x = w.active[d] /\ x # 0)
    BY <1>2
  <1>8. u \in SUBSET Devices /\ \A x \in w.untold : x # d => x \in u
    BY DEF Worlds
  <1> HIDE DEF l, c, f, u, p
  <1>9. /\ r \in Worlds /\ r.live = l /\ r.cycle = c /\ r.active = f /\ r.last = s
        /\ r.untold = u /\ r.superseded = p
        /\ r.asr = w.asr /\ r.translating = w.translating /\ r.connected = w.connected
        /\ r.overlay = w.overlay /\ r.posted = w.posted /\ r.shown = w.shown
    BY <1>2, <1>4, <1>5, <1>6, <1>7, <1>8 DEF Worlds
  <1> HIDE DEF r
  <1>10. /\ Numbered(w) /\ ActiveLive(w) /\ ClientsLive(w)
         /\ \A x \in w.live : Recognized(w, x) /\ Ended(w, x)
    BY DEF Good, Held
  <1>11. ASSUME NEW x \in w.live \cup w.superseded
         PROVE  x \in Sessions /\ x <= w.last /\ x # s /\ x <= s
    <2>1. x \in Sessions /\ x \in Nat /\ x <= w.last
      BY <1>2, <1>10, <1>11, Bounds DEF Numbered
    <2> QED
      BY <1>2, <2>1
  <1>12. \A x \in Sessions \ {s} : DeviceOf(r, x) = DeviceOf(w, x)
    BY <1>4, <1>9 DEF DeviceOf
  <1>13. DeviceOf(r, s) = d
    BY <1>3, <1>4, <1>9 DEF DeviceOf
  <1>14. Numbered(r)
    <2>1. \A x \in r.live \cup r.superseded : x <= r.last
      <3>1. \A x \in l : x <= s
        BY <1>2, <1>6, <1>11
      <3>2. \A x \in p : x \in w.superseded \/ x \in w.live
        BY <1>7, <1>10 DEF ActiveLive
      <3> QED
        BY <1>9, <1>11, <3>1, <3>2
    <2>2. \A text \in r.translating : text.of <= r.last
      <3>1. \A text \in w.translating : text.of \in Nat /\ text.of <= w.last
        BY <1>10, Bounds DEF Worlds, Texts, Numbered
      <3> QED
        BY <1>2, <1>9, <3>1
    <2>3. ASSUME NEW x \in Sessions, x <= r.last
          PROVE  DeviceOf(r, x) \in Devices
      <3>1. CASE x = s
        BY <1>13, <3>1
      <3>2. CASE x # s
        <4>1. x \in Nat /\ x <= w.last
          BY <1>2, <1>9, <2>3, <3>2, Bounds
        <4> QED
          BY <1>10, <1>12, <3>2, <4>1 DEF Numbered
      <3> QED
        BY <3>1, <3>2
    <2> QED
      BY <2>1, <2>2, <2>3 DEF Numbered
  <1>15. ActiveLive(r)
    <2>1. ASSUME NEW x \in Devices, r.active[x] # 0
          PROVE  r.active[x] \in r.live /\ DeviceOf(r, r.active[x]) = x
      <3>1. CASE x = d
        BY <1>5, <1>6, <1>9, <1>13, <3>1
      <3>2. CASE x # d
        <4>1. r.active[x] \in w.live /\ DeviceOf(w, r.active[x]) = x
          BY <1>5, <1>9, <1>10, <2>1, <3>2 DEF ActiveLive
        <4> QED
          BY <1>6, <1>9, <1>11, <1>12, <4>1
      <3> QED
        BY <3>1, <3>2
    <2> QED
      BY <2>1 DEF ActiveLive
  <1>16. ClientsLive(r)
    BY <1>6, <1>9, <1>10 DEF ClientsLive
  <1>17. ASSUME NEW x \in r.live
         PROVE  Recognized(r, x) /\ Ended(r, x)
    <2>1. CASE x = s
      BY <1>3, <1>4, <1>5, <1>9, <1>13, <2>1
         DEF Recognized, Ended, IsActiveSubtitleCycle
    <2>2. CASE x # s
      <3>1. x \in w.live /\ Recognized(w, x) /\ Ended(w, x) /\ x \in Sessions \ {s}
        BY <1>6, <1>9, <1>10, <1>11, <1>17, <2>2
      <3>2. DeviceOf(w, x) \in Devices /\ x # 0
        BY <3>1, LiveGood, Bounds
      <3>3. Recognized(r, x)
        BY <1>4, <1>9, <3>1 DEF Recognized
      <3>4. Ended(r, x)
        <4>1. CASE w.active[DeviceOf(w, x)] = x /\ DeviceOf(w, x) = d
          BY <1>7, <1>9, <3>2, <4>1 DEF Ended
        <4>2. CASE w.active[DeviceOf(w, x)] = x /\ DeviceOf(w, x) # d
          BY <1>5, <1>9, <1>12, <3>1, <3>2, <4>2 DEF Ended, IsActiveSubtitleCycle
        <4>3. CASE w.active[DeviceOf(w, x)] # x
          BY <1>4, <1>7, <1>9, <3>1, <4>3 DEF Ended, IsActiveSubtitleCycle
        <4> QED
          BY <4>1, <4>2, <4>3
      <3> QED
        BY <3>3, <3>4
    <2> QED
      BY <2>1, <2>2
  <1>18. Shown(r, None)
    <2>1. Shown(w, None) /\ w.connected \subseteq Devices
      BY DEF Good, Worlds
    <2>2. \A x : Told(w, x) /\ x # d => Told(r, x)
      BY <1>8, <1>9 DEF Told
    <2> QED
      BY <1>2, <1>5, <1>9, <2>1, <2>2 DEF Shown
  <1> QED
    BY <1>1, <1>2, <1>5, <1>9, <1>14, <1>15, <1>16, <1>17, <1>18 DEF Good, Held

\* A device whose button is pressed records, or is told that there is none to make.
LEMMA DownGood ==
    ASSUME NEW w \in Worlds, NEW d \in Devices, NEW s \in Sessions \cup {0},
           s # 0 => s = w.last + 1, Good(w)
    PROVE  LET r == HandleSubtitlePrimaryButtonDown(w, s, d) IN r \in Worlds /\ Good(r)
  <1> DEFINE v == Recorded(w, s, d)
             t == DispatchToUi(v, "ui", "show", None)
             u == SendUiState(t, d, "recording")
             e == SendUiState(w, d, "ready")
  <1>1. HandleSubtitlePrimaryButtonDown(w, s, d) = IF s = 0 THEN e ELSE u
    BY DEF HandleSubtitlePrimaryButtonDown, Recorded
  <1>2. e \in Worlds /\ Good(e)
    BY ReadyShown, SameHeld DEF Good
  <1>3. ASSUME s # 0
        PROVE  u \in Worlds /\ Good(u)
    <2>1. v \in Worlds /\ Good(v) /\ v.active[d] # 0
      BY <1>3, RecordedGood
    <2> HIDE DEF v
    <2>2. t \in Worlds /\ Same(v, t) /\ Good(t)
      BY <2>1, DispatchGood
    <2> HIDE DEF t
    <2>3. t.active[d] # 0
      BY <2>1, <2>2 DEF Same
    <2>4. u \in Worlds /\ Same(t, u) /\ Shown(u, None)
      BY <2>2, <2>3, ActiveShown DEF Good, Shows
    <2> HIDE DEF u
    <2> QED
      BY <2>2, <2>4, SameHeld DEF Good
  <1> HIDE DEF e, u
  <1> QED
    BY <1>1, <1>2, <1>3

\* A recording that is released waits for its END, or is too short.
LEMMA UpGood ==
    ASSUME NEW w \in Worlds, NEW d \in Devices, Good(w)
    PROVE  LET r == HandleSubtitlePrimaryButtonUp(w, d) IN r \in Worlds /\ Good(r)
  <1> DEFINE s == w.active[d]
             v == Waits(w, s, TRUE)
             k == ClearActiveSubtitleSession(v, s)
             h == SendUiState(k, d, "ready")
             c == SendUiState(v, d, "thinking")
             n == CancelSubtitleCycle(w, "ui", d)
  <1>1. CASE s \notin w.live
    <2>1. HandleSubtitlePrimaryButtonUp(w, d) = w
      BY <1>1 DEF HandleSubtitlePrimaryButtonUp
    <2> QED
      BY <2>1
  <1>2. CASE s \in w.live
    <2>1. s \in Sessions /\ s # 0 /\ DeviceOf(w, s) = d
      BY <1>2, LiveGood, Bounds DEF Good, Held, ActiveLive
    <2> HIDE DEF s
    <2>2. /\ v \in Worlds /\ s \in v.live /\ Held(v, {s}) /\ Shown(v, None)
          /\ Recognized(v, s) /\ Ended(v, s) /\ v.cycle[s].waiting
          /\ v.active = w.active /\ DeviceOf(v, s) = d
      BY <1>2, <2>1, Bounds, WaitsIs
    <2>3. HandleSubtitlePrimaryButtonUp(w, d)
              = IF ~w.cycle[s].long THEN n ELSE IF mode = "hold" THEN h ELSE c
      <3>1. DeviceOf([w EXCEPT !.cycle[s].waiting = TRUE], s) = d
        BY <2>2 DEF Waits
      <3> QED
        BY <1>2, <3>1
           DEF HandleSubtitlePrimaryButtonUp, FinishSubtitleAudioInput, Waits, s
    <2>4. n \in Worlds /\ Good(n)
      BY CancelGood
    <2> HIDE DEF v
    <2>5. c \in Worlds /\ Good(c)
      <3>1. v.active[d] # 0
        BY <2>1, <2>2 DEF s
      <3>2. c \in Worlds /\ Same(v, c) /\ Shown(c, None)
        BY <2>2, <3>1, ActiveShown DEF Shows
      <3>3. Held(v, {})
        BY <2>2, HeldMore
      <3> HIDE DEF c
      <3> QED
        BY <3>2, <3>3, SameHeld DEF Good
    <2>6. h \in Worlds /\ Good(h)
      <3>1. /\ k \in Worlds /\ Held(k, {s}) /\ Shown(k, d)
            /\ k.cycle = v.cycle /\ k.asr = v.asr /\ k.translating = v.translating
        BY <2>2, ClearIs
      <3> HIDE DEF k
      <3>2. Recognized(k, s) /\ Ended(k, s)
        BY <2>2, <3>1 DEF Recognized, Ended
      <3>3. Held(k, {})
        BY <3>1, <3>2, HeldMore
      <3>4. h \in Worlds /\ Same(k, h) /\ Shown(h, None)
        BY <3>1, ReadyShown
      <3> HIDE DEF h
      <3> QED
        BY <3>3, <3>4, SameHeld DEF Good
    <2> HIDE DEF n, h, c
    <2> QED
      BY <2>3, <2>4, <2>5, <2>6
  <1> QED
    BY <1>1, <1>2

\* click_to_talk.
LEMMA ClickGood ==
    ASSUME NEW w \in Worlds, NEW d \in Devices, NEW s \in Sessions \cup {0},
           s # 0 => s = w.last + 1, Good(w)
    PROVE  LET r == HandleButtonClick(w, s, d) IN r \in Worlds /\ Good(r)
  <1> DEFINE e == SendUiState(w, d, "ready")
             u == HandleSubtitlePrimaryButtonUp(w, d)
             n == HandleSubtitlePrimaryButtonDown(w, s, d)
  <1>1. HandleButtonClick(w, s, d) = IF mode # "click" THEN e
                                     ELSE IF HasActiveSubtitleSession(w, d) THEN u ELSE n
    BY DEF HandleButtonClick
  <1>2. e \in Worlds /\ Good(e)
    BY ReadyShown, SameHeld DEF Good
  <1>3. u \in Worlds /\ Good(u)
    BY UpGood
  <1>4. n \in Worlds /\ Good(n)
    BY DownGood
  <1> HIDE DEF e, u, n
  <1> QED
    BY <1>1, <1>2, <1>3, <1>4

-----------------------------------------------------------------------------
(* Cancellations *)

\* The recordings that are active for each device.
WithActive(w, f) == [w EXCEPT !.active = f]

\* Recordings are wiped out with what is active of them; a device that loses its
\* active recording loses all.
LEMMA WipeIs ==
    ASSUME NEW w \in Worlds, Held(w, {}), NEW f \in [Devices -> Sessions \cup {0}],
           NEW ss \in SUBSET Sessions,
           \A x \in Devices : f[x] = 0 \/ f[x] = w.active[x],
           \A x \in Devices : f[x] \notin ss,
           \A s \in w.live : f[DeviceOf(w, s)] # w.active[DeviceOf(w, s)] => s \in ss
    PROVE  LET r == EraseAll(WithActive(w, f), ss) IN
           /\ r \in Worlds /\ Held(r, {}) /\ r.connected = w.connected
           /\ \A e : /\ Shown(w, e)
                     /\ \A x \in w.connected \ {e} : f[x] = w.active[x]
                     => Shown(r, e)
  <1> DEFINE v == WithActive(w, f)
             r == EraseAll(v, ss)
  <1>1. /\ v \in Worlds /\ v.active = f
        /\ v.live = w.live /\ v.cycle = w.cycle /\ v.asr = w.asr
        /\ v.translating = w.translating /\ v.connected = w.connected /\ v.last = w.last
        /\ v.superseded = w.superseded /\ v.untold = w.untold
        /\ v.overlay = w.overlay /\ v.posted = w.posted /\ v.shown = w.shown
    BY DEF WithActive, Worlds
  <1> HIDE DEF v
  <1>2. Numbered(v) /\ ActiveLive(v) /\ ClientsLive(v)
    BY <1>1 DEF Held, Numbered, ActiveLive, ClientsLive, DeviceOf
  <1>3. ASSUME NEW s \in v.live \ ss
        PROVE  Recognized(v, s) /\ Ended(v, s)
    <2>1. s \in w.live /\ DeviceOf(v, s) = DeviceOf(w, s)
      BY <1>1, <1>3 DEF DeviceOf
    <2>2. f[DeviceOf(w, s)] = w.active[DeviceOf(w, s)]
      BY <1>3, <2>1
    <2>3. Recognized(w, s) /\ Ended(w, s)
      BY <2>1 DEF Held
    <2> QED
      BY <1>1, <2>1, <2>2, <2>3 DEF Recognized, Ended, IsActiveSubtitleCycle
  <1>4. Held(v, ss) /\ \A x \in Devices : v.active[x] \notin ss
    BY <1>1, <1>2, <1>3 DEF Held
  <1>5. /\ r \in Worlds /\ Held(r, {}) /\ r.connected = v.connected
        /\ \A e : Shown(v, e) => Shown(r, e)
    BY <1>1, <1>4, EraseAllIs
  <1>6. ASSUME NEW e, Shown(w, e), \A x \in w.connected \ {e} : f[x] = w.active[x]
        PROVE  Shown(v, e)
    BY <1>1, <1>6 DEF Shown, Told
  <1> HIDE DEF r
  <1> QED
    BY <1>1, <1>5, <1>6 DEF r, v

\* Every recording of a device is cancelled, and the device told.
LEMMA CancelAllGood ==
    ASSUME NEW w \in Worlds, NEW thread, NEW d \in Devices, Good(w)
    PROVE  LET r == CancelSubtitleCyclesForDevice(w, thread, d) IN r \in Worlds /\ Good(r)
  <1> DEFINE f == [w.active EXCEPT ![d] = 0]
             ss == LiveOf(w, d)
             r == EraseAll(WithActive(w, f), ss)
             h == HideOverlay(r, thread)
             u == SendUiState(h, d, "ready")
  <1>1. CancelSubtitleCyclesForDevice(w, thread, d) = u
    BY DEF CancelSubtitleCyclesForDevice, WithActive
  <1>2. /\ f \in [Devices -> Sessions \cup {0}] /\ f[d] = 0
        /\ \A x \in Devices \ {d} : f[x] = w.active[x]
    BY DEF Worlds
  <1>3. /\ ss \in SUBSET Sessions
        /\ \A s \in ss : s \in w.live /\ DeviceOf(w, s) = d /\ s # 0
        /\ \A s \in w.live : DeviceOf(w, s) = d => s \in ss
    BY Bounds DEF LiveOf, Worlds
  <1>4. Held(w, {}) /\ Shown(w, None) /\ ActiveLive(w) /\ w.connected \subseteq Devices
    BY DEF Good, Held, Worlds
  <1> HIDE DEF f, ss
  <1>5. \A x \in Devices : f[x] = 0 \/ f[x] = w.active[x]
    BY <1>2
  <1>6. ASSUME NEW x \in Devices
        PROVE  f[x] \notin ss
    <2>1. CASE x = d
      BY <1>2, <1>3, <2>1
    <2>2. CASE x # d
      BY <1>2, <1>3, <1>4, <2>2 DEF ActiveLive
    <2> QED
      BY <2>1, <2>2
  <1>7. ASSUME NEW s \in w.live, f[DeviceOf(w, s)] # w.active[DeviceOf(w, s)]
        PROVE  s \in ss
    BY <1>2, <1>3, <1>7, LiveGood
  <1>8. Shown(w, d) /\ \A x \in w.connected \ {d} : f[x] = w.active[x]
    BY <1>2, <1>4, Bounds DEF Shown
  <1>9. r \in Worlds /\ Held(r, {}) /\ Shown(r, d)
    BY <1>2, <1>3, <1>4, <1>5, <1>6, <1>7, <1>8, WipeIs
  <1> HIDE DEF r
  <1>10. h \in Worlds /\ Same(r, h) /\ Shown(h, d)
    BY <1>9, HideOverlayIs
  <1> HIDE DEF h
  <1>11. u \in Worlds /\ Same(h, u) /\ Shown(u, None)
    BY <1>10, ReadyShown
  <1> HIDE DEF u
  <1> QED
    BY <1>1, <1>9, <1>10, <1>11, SameTwice, SameHeld DEF Good

\* The side button.
LEMMA SideButtonGood ==
    ASSUME NEW w \in Worlds, NEW d \in Devices, Good(w)
    PROVE  LET r == HandleSecondaryButtonClick(w, d) IN r \in Worlds /\ Good(r)
  <1> DEFINE c == CancelSubtitleCycle(w, "ui", d)
             a == CancelSubtitleCyclesForDevice(w, "ui", d)
  <1>1. HandleSecondaryButtonClick(w, d) = IF HasActiveSubtitleSession(w, d) THEN c
                                           ELSE IF LiveOf(w, d) # {} THEN a ELSE w
    BY DEF HandleSecondaryButtonClick
  <1>2. c \in Worlds /\ Good(c)
    BY CancelGood
  <1>3. a \in Worlds /\ Good(a)
    BY CancelAllGood
  <1> HIDE DEF c, a
  <1> QED
    BY <1>1, <1>2, <1>3

\* The recordings of devices that are not connected any more are wiped out.
LEMMA DisconnectedGood ==
    ASSUME NEW w \in Worlds, NEW thread, Good(w)
    PROVE  LET r == CancelActiveCycleIfDeviceDisconnected(w, thread) IN
           r \in Worlds /\ Good(r)
  <1> DEFINE ss == {s \in w.live : DeviceOf(w, s) \notin w.connected}
             f == [d \in Devices |-> IF \E s \in ss : DeviceOf(w, s) = d THEN 0
                                     ELSE w.active[d]]
             h == HideOverlay(w, thread)
             r == EraseAll(WithActive(h, f), ss)
  <1>1. CancelActiveCycleIfDeviceDisconnected(w, thread) = IF ss = {} THEN w ELSE r
    BY DEF CancelActiveCycleIfDeviceDisconnected, WithActive
  <1>2. h \in Worlds /\ Same(w, h) /\ Shown(h, None)
    BY HideOverlayIs DEF Good
  <1>3. /\ ss \in SUBSET Sessions
        /\ \A s \in ss : s \in w.live /\ DeviceOf(w, s) \notin w.connected /\ s # 0
        /\ \A s \in w.live : DeviceOf(w, s) \notin w.connected => s \in ss
    BY Bounds DEF Worlds
  <1>4. /\ f \in [Devices -> Sessions \cup {0}]
        /\ \A d \in Devices : f[d] = IF \E s \in ss : DeviceOf(w, s) = d THEN 0
                                     ELSE w.active[d]
    BY DEF Worlds
  <1> HIDE DEF ss, f, h
  <1>5. /\ Held(h, {}) /\ h.live = w.live /\ h.active = w.active
        /\ h.connected = w.connected /\ w.connected \subseteq Devices
        /\ \A s : DeviceOf(h, s) = DeviceOf(w, s)
    BY <1>2, SameHeld DEF Good, Same, DeviceOf, Worlds
  <1>6. \A x \in Devices : f[x] = 0 \/ f[x] = h.active[x]
    BY <1>4, <1>5
  <1>7. ASSUME NEW x \in Devices, f[x] \in ss
        PROVE  FALSE
    <2>1. f[x] # 0 /\ f[x] = w.active[x]
      BY <1>3, <1>5, <1>6, <1>7
    <2>2. DeviceOf(w, f[x]) = x
      BY <2>1 DEF Good, Held, ActiveLive
    <2> QED
      BY <1>4, <1>7, <2>1, <2>2
  <1>8. ASSUME NEW s \in h.live, f[DeviceOf(h, s)] # h.active[DeviceOf(h, s)]
        PROVE  s \in ss
    <2>1. s \in w.live /\ DeviceOf(w, s) \in Devices
      BY <1>5, <1>8, LiveGood
    <2>2. PICK t \in ss : DeviceOf(w, t) = DeviceOf(w, s)
      BY <1>4, <1>5, <1>8, <2>1
    <2> QED
      BY <1>3, <2>1, <2>2
  <1>9. \A x \in h.connected \ {None} : f[x] = h.active[x]
    BY <1>3, <1>4, <1>5
  <1>10. r \in Worlds /\ Held(r, {}) /\ Shown(r, None)
    BY <1>2, <1>3, <1>4, <1>5, <1>6, <1>7, <1>8, <1>9, WipeIs
  <1> HIDE DEF r
  <1> QED
    BY <1>1, <1>10 DEF Good

\* No recording is left, and every device is told.
Nothing(w) ==
    LET none == EraseAll(WithActive(w, [d \in Devices |-> 0]), w.live) IN
    [none EXCEPT !.shown = [d \in Devices |-> IF d \in w.connected THEN "ready"
                                              ELSE none.shown[d]]]

\* A changed configuration cancels every recording.
LEMMA NothingGood ==
    ASSUME NEW w \in Worlds, NEW thread, Good(w)
    PROVE  LET r == HideOverlay(Nothing(w), thread) IN r \in Worlds /\ Good(r)
  <1> DEFINE f == [d \in Devices |-> 0]
             ss == w.live
             none == EraseAll(WithActive(w, f), ss)
             g == [d \in Devices |-> IF d \in w.connected THEN "ready" ELSE none.shown[d]]
             n == [none EXCEPT !.shown = g]
             r == HideOverlay(n, thread)
  <1>1. Nothing(w) = n
    BY DEF Nothing
  <1>2. ss \in SUBSET Sessions /\ ss = w.live /\ 0 \notin ss
    BY Bounds DEF Worlds
  <1>3. f \in [Devices -> Sessions \cup {0}] /\ \A x \in Devices : f[x] = 0
    OBVIOUS
  <1> HIDE DEF f, ss
  <1>4. none \in Worlds /\ Held(none, {}) /\ none.connected = w.connected
    BY <1>2, <1>3, WipeIs DEF Good
  <1> HIDE DEF none
  <1>5. g \in [Devices -> Shows] /\ \A x \in w.connected : g[x] = "ready"
    BY <1>4 DEF Worlds, Shows
  <1> HIDE DEF g
  <1>6. n \in Worlds /\ Same(none, n) /\ n.shown = g
    BY <1>4, <1>5 DEF Worlds, Same
  <1> HIDE DEF n
  <1>7. Shown(n, None)
    BY <1>4, <1>5, <1>6 DEF Shown, Same
  <1>8. r \in Worlds /\ Same(n, r) /\ Shown(r, None)
    BY <1>6, <1>7, HideOverlayIs
  <1> HIDE DEF r
  <1>9. Held(r, {})
    BY <1>4, <1>6, <1>8, SameTwice, SameHeld
  <1> QED
    BY <1>1, <1>8, <1>9 DEF Good, r

-----------------------------------------------------------------------------
(* The queue of the UI thread, connections and texts that arrive *)

\* A call has been taken from the queue.
Popped(w) == [w EXCEPT !.posted = Tail(w.posted)]

\* kUiDispatchMessage: what only an error accounts for shows up on the overlay.
LEMMA PerformGood ==
    ASSUME NEW w \in Worlds, Good(w), w.posted # <<>>
    PROVE  LET r == Perform(Popped(w), Head(w.posted)) IN r \in Worlds /\ Good(r)
  <1> DEFINE q == w.posted
             p == Tail(q)
             call == Head(q)
             v == [w EXCEPT !.posted = p]
             r == Perform(v, call)
             e == IF call.call = "error" THEN call.tells ELSE None
  <1>1. Popped(w) = v
    BY DEF Popped
  <1>2. q \in Seq(Calls) /\ q # <<>>
    BY DEF Worlds
  <1>3. call \in Calls /\ p \in Seq(Calls) /\ call = q[1]
    BY <1>2
  <1>4. /\ Len(p) = Len(q) - 1 /\ Len(q) \in Nat
        /\ \A i \in DOMAIN q : i # 1 => i - 1 \in DOMAIN p /\ p[i - 1] = q[i]
    BY <1>2
  <1> HIDE DEF p, call
  <1>5. v \in Worlds /\ Same(w, v) /\ v.posted = p
        /\ v.overlay = w.overlay /\ v.untold = w.untold /\ v.shown = w.shown
    BY <1>3 DEF Worlds, Same
  <1> HIDE DEF v
  <1>6. ASSUME NEW x, Told(w, x), x # e, x # None
        PROVE  Told(v, x)
    <2>1. CASE \E i \in DOMAIN q : q[i].call = "error" /\ q[i].tells = x
      <3>1. PICK i \in DOMAIN q : q[i].call = "error" /\ q[i].tells = x
        BY <2>1
      <3>2. i # 1
        BY <1>3, <1>6, <3>1
      <3> QED
        BY <1>4, <1>5, <3>1, <3>2 DEF Told
    <2>2. CASE ~\E i \in DOMAIN q : q[i].call = "error" /\ q[i].tells = x
      BY <1>5, <1>6, <2>2 DEF Told
    <2> QED
      BY <2>1, <2>2
  <1>7. Shown(v, e)
    <2>1. Shown(w, None) /\ w.connected \subseteq Devices
      BY DEF Good, Worlds
    <2> HIDE DEF e
    <2> QED
      BY <1>5, <1>6, <2>1, Bounds DEF Shown, Same
  <1>8. r \in Worlds /\ Same(v, r) /\ Shown(r, None)
    BY <1>3, <1>5, <1>7, PerformIs
  <1> HIDE DEF r
  <1> QED
    BY <1>1, <1>5, <1>8, SameTwice, SameHeld DEF Good, call, r

\* Devices that are connected, and what they show.
Connects(w, devices, g) == [w EXCEPT !.connected = devices, !.shown = g]

\* A device that connects shows that it is ready.
LEMMA ConnectsGood ==
    ASSUME NEW w \in Worlds, Good(w), NEW devices \in SUBSET Devices,
           NEW g \in [Devices -> Shows],
           \A d \in devices : g[d] = "ready" \/ (d \in w.connected /\ g[d] = w.shown[d])
    PROVE  Connects(w, devices, g) \in Worlds /\ Good(Connects(w, devices, g))
  <1> DEFINE r == Connects(w, devices, g)
  <1>1. /\ r \in Worlds /\ r.connected = devices /\ r.shown = g
        /\ r.live = w.live /\ r.cycle = w.cycle /\ r.active = w.active /\ r.asr = w.asr
        /\ r.translating = w.translating /\ r.last = w.last /\ r.superseded = w.superseded
        /\ r.untold = w.untold /\ r.overlay = w.overlay /\ r.posted = w.posted
    BY DEF Worlds, Connects
  <1> HIDE DEF r
  <1>2. Held(w, {}) /\ Shown(w, None)
    BY DEF Good
  <1>3. Numbered(r) /\ ActiveLive(r) /\ ClientsLive(r)
    BY <1>1, <1>2 DEF Held, Numbered, ActiveLive, ClientsLive, DeviceOf
  <1>4. ASSUME NEW s \in r.live
        PROVE  Recognized(r, s) /\ Ended(r, s)
    BY <1>1, <1>2, <1>4 DEF Held, Recognized, Ended, IsActiveSubtitleCycle, DeviceOf
  <1>5. Shown(r, None)
    BY <1>1, <1>2 DEF Shown, Told
  <1> QED
    BY <1>1, <1>3, <1>4, <1>5 DEF Good, Held, r

\* A text has left the translation.
Arrived(w, text) == [w EXCEPT !.translating = @ \ {text}]

\* Its recording does not have it there any more.
LEMMA TranslatedGood ==
    ASSUME NEW w \in Worlds, Good(w), NEW text \in w.translating, NEW ok \in BOOLEAN
    PROVE  LET r == ShowSubtitleText(Arrived(w, text), "translator", text.of, text.final, ok)
           IN  r \in Worlds /\ Good(r)
  <1> DEFINE s == text.of
             g == w.translating \ {text}
             v == [w EXCEPT !.translating = g]
  <1>1. Arrived(w, text) = v
    BY DEF Arrived
  <1>2. text \in Texts /\ s \in Sessions /\ text.final \in BOOLEAN
    BY DEF Worlds, Texts
  <1>3. g \in SUBSET Texts /\ g \subseteq w.translating
        /\ \A x \in w.translating : x = text \/ x \in g
    BY DEF Worlds
  <1> HIDE DEF g
  <1>4. /\ v \in Worlds /\ v.translating = g
        /\ v.live = w.live /\ v.cycle = w.cycle /\ v.active = w.active /\ v.asr = w.asr
        /\ v.connected = w.connected /\ v.last = w.last /\ v.superseded = w.superseded
        /\ v.untold = w.untold /\ v.overlay = w.overlay /\ v.posted = w.posted
        /\ v.shown = w.shown
    BY <1>3 DEF Worlds
  <1> HIDE DEF v
  <1>5. Held(w, {}) /\ Shown(w, None)
    BY DEF Good
  <1>6. Numbered(v) /\ ActiveLive(v) /\ ClientsLive(v)
    BY <1>3, <1>4, <1>5 DEF Held, Numbered, ActiveLive, ClientsLive, DeviceOf
  <1>7. ASSUME NEW x \in v.live, x # s \/ ~text.final
        PROVE  Recognized(v, x) /\ Ended(v, x)
    <2>1. Recognized(w, x) /\ Ended(w, x)
      BY <1>4, <1>5, <1>7 DEF Held
    <2>2. [of |-> x, final |-> TRUE] # text
      BY <1>7
    <2>3. w.cycle[x].finished => [of |-> x, final |-> TRUE] \in g
      BY <1>3, <2>1, <2>2 DEF Recognized
    <2> QED
      BY <1>4, <2>1, <2>3 DEF Recognized, Ended, IsActiveSubtitleCycle, DeviceOf
  <1>8. Held(v, {s}) /\ (~text.final => Held(v, {}))
    BY <1>6, <1>7 DEF Held
  <1>9. Shown(v, None)
    BY <1>4, <1>5 DEF Shown, Told
  <1> QED
    BY <1>1, <1>2, <1>4, <1>8, <1>9, ShowTextGood

\* The client has given its session up for a text.
LEMMA AsrFinalGood ==
    ASSUME NEW w \in Worlds, NEW s \in w.live, NEW empty \in BOOLEAN, Good(w)
    PROVE  LET r == FinishSubtitleCycleWithFinalText(WithClient(w, s, "idle"), s, empty) IN
           r \in Worlds /\ Good(r)
  <1> DEFINE v == WithClient(w, s, "idle")
  <1>1. /\ s \in Sessions /\ Held(w, {s}) /\ Shown(w, None)
        /\ Recognized(w, s) /\ Ended(w, s)
    BY LiveGood
  <1>2. v \in Worlds /\ Touched(w, v, s) /\ v.cycle = w.cycle
    BY <1>1, WithClientIs
  <1> HIDE DEF v
  <1>3. s \in v.live /\ Held(v, {s}) /\ Shown(v, None)
    BY <1>1, <1>2, TouchedHeld DEF Touched
  <1>4. Ended(v, s) /\ (v.cycle[s].finished => Recognized(v, s))
    BY <1>1, <1>2 DEF Touched, Ended, Recognized, IsActiveSubtitleCycle
  <1> QED
    BY <1>2, <1>3, <1>4, FinalTextGood DEF v

\* A recording is long enough for a text.
IsLong(w, s) == [w EXCEPT !.cycle[s].long = TRUE]

\* Nothing else changes with it.
LEMMA LongGood ==
    ASSUME NEW w \in Worlds, NEW s \in w.live, Good(w)
    PROVE  IsLong(w, s) \in Worlds /\ Good(IsLong(w, s))
  <1> DEFINE c == [w.cycle[s] EXCEPT !.long = TRUE]
             r == IsLong(w, s)
  <1>1. /\ s \in Sessions /\ Held(w, {s}) /\ Shown(w, None)
        /\ Recognized(w, s) /\ Ended(w, s)
    BY LiveGood
  <1>2. r = Changed(w, s, c)
    BY DEF IsLong, Changed
  <1>3. /\ c \in SubtitleCycles /\ c.device = DeviceOf(w, s)
        /\ c.waiting = w.cycle[s].waiting /\ c.finished = w.cycle[s].finished
        /\ c.asr_started = w.cycle[s].asr_started /\ c.sent_final = w.cycle[s].sent_final
    BY <1>1, CycleOf, LongEnough DEF DeviceOf
  <1> HIDE DEF c
  <1>4. r \in Worlds /\ Touched(w, r, s) /\ r.cycle[s] = c /\ r.asr = w.asr
    BY <1>1, <1>2, <1>3, ChangedIs
  <1> HIDE DEF r
  <1>5. Held(r, {s}) /\ Shown(r, None)
    BY <1>1, <1>4, TouchedHeld
  <1>6. Recognized(r, s) /\ Ended(r, s)
    BY <1>1, <1>3, <1>4 DEF Touched, Recognized, Ended, IsActiveSubtitleCycle
  <1> QED
    BY <1>4, <1>5, <1>6, HeldMore DEF Good, r

-----------------------------------------------------------------------------
(* The steps *)

\* What a handler works on.
LEMMA WorldIs ==
    ASSUME TypeOK
    PROVE  /\ World \in Worlds
           /\ World.live = live /\ World.cycle = cycle /\ World.active = active
           /\ World.asr = asr /\ World.translating = translating
           /\ World.overlay = overlay /\ World.posted = posted
           /\ World.connected = connected /\ World.shown = shown /\ World.last = last
           /\ World.untold = untold /\ World.superseded = superseded
  <1>1. World \in Worlds
    BY DEF TypeOK, World, Worlds
  <1> QED
    BY <1>1 DEF World

\* A handler that ends well keeps the invariant.
LEMMA BecomesInv ==
    ASSUME TypeOK, NEW r \in Worlds, Good(r), Becomes(r), changed' \in BOOLEAN
    PROVE  IInv'
  <1>1. World' = [live |-> r.live, cycle |-> r.cycle, active |-> r.active, asr |-> r.asr,
                  translating |-> r.translating, overlay |-> r.overlay,
                  posted |-> r.posted, connected |-> r.connected, shown |-> r.shown,
                  last |-> r.last, untold |-> r.untold, superseded |-> r.superseded]
    BY DEF Becomes, World
  <1>2. World' = r
    BY <1>1 DEF Worlds
  <1>3. TypeOK'
    <2>1. /\ r.live \subseteq Sessions /\ r.cycle \in [Sessions -> SubtitleCycles]
          /\ r.active \in [Devices -> Sessions \cup {0}]
          /\ r.asr \in [Sessions -> {"idle", "open", "last"}]
          /\ r.translating \subseteq Texts /\ r.overlay \in OverlayState
          /\ r.posted \in Seq(Calls) /\ r.connected \subseteq Devices
          /\ r.shown \in [Devices -> Shows] /\ r.last \in 0..MaxSessions
          /\ r.untold \subseteq Devices /\ r.superseded \subseteq Sessions
      BY DEF Worlds
    <2>2. mode' \in Modes /\ translate' \in Transforms
      BY DEF TypeOK, Becomes, config
    <2> QED
      BY <2>1, <2>2 DEF TypeOK, Becomes
  <1>4. Good(World)'
    BY <1>2
  <1> QED
    BY <1>3, <1>4 DEF IInv

\* The invariant holds initially.
LEMMA InitInv == Init => IInv
  <1> SUFFICES ASSUME Init PROVE IInv
    OBVIOUS
  <1>1. TypeOK
    <2>1. <<>> \in Seq(Calls) /\ 0 \in 0..MaxSessions
      BY Bounds
    <2>2. Fresh(None) \in SubtitleCycles
      BY Bounds DEF Fresh, SubtitleCycles
    <2>3. overlay \in OverlayState
      BY Bounds DEF Init, OverlayState
    <2>4. cycle \in [Sessions -> SubtitleCycles] /\ shown \in [Devices -> Shows]
      BY <2>2 DEF Init, Shows
    <2>5. /\ active \in [Devices -> Sessions \cup {0}]
          /\ asr \in [Sessions -> {"idle", "open", "last"}]
      BY DEF Init
    <2> QED
      BY <2>1, <2>3, <2>4, <2>5, Bounds DEF Init, TypeOK
  <1> PICK w \in Worlds : w = World
    BY <1>1, WorldIs
  <1>2. /\ w.live = {} /\ w.superseded = {} /\ w.translating = {} /\ w.last = 0
        /\ w.connected = Devices
        /\ \A d \in Devices : w.active[d] = 0 /\ w.shown[d] = "ready"
        /\ \A s \in Sessions : w.asr[s] = "idle"
    BY <1>1, WorldIs DEF Init
  <1>3. Numbered(w)
    <2>1. \A s \in Sessions : ~(s <= 0)
      BY DEF Sessions
    <2> QED
      BY <1>2, <2>1 DEF Numbered
  <1>4. Good(w)
    BY <1>2, <1>3 DEF Good, Held, ActiveLive, ClientsLive, Shown
  <1> QED
    BY <1>1, <1>4 DEF IInv

\* The buttons of a device keep it.
LEMMA ButtonsInv ==
    ASSUME IInv, NEW d \in Devices,
           \/ PrimaryButtonDown(d) \/ PrimaryButtonUp(d) \/ PrimaryButtonClick(d)
           \/ SecondaryButtonUp(d)
    PROVE  IInv'
  <1>1. TypeOK /\ changed \in BOOLEAN
    BY DEF IInv, TypeOK
  <1> PICK w \in Worlds : w = World
    BY <1>1, WorldIs
  <1>2. Good(w) /\ w.last = last
    BY <1>1, WorldIs DEF IInv
  <1>3. ASSUME NEW r \in Worlds, Good(r), Becomes(r), UNCHANGED changed
        PROVE  IInv'
    BY <1>1, <1>3, BecomesInv
  <1>4. CASE PrimaryButtonDown(d)
    <2>1. PICK s \in NewSession :
             Becomes(HandleSubtitlePrimaryButtonDown(w, s, d)) /\ UNCHANGED changed
      BY <1>4 DEF PrimaryButtonDown
    <2> PICK x \in Sessions \cup {0} : x = s /\ (x # 0 => x = w.last + 1)
      BY <1>2 DEF NewSession
    <2> DEFINE r == HandleSubtitlePrimaryButtonDown(w, x, d)
    <2>2. r \in Worlds /\ Good(r)
      BY <1>2, DownGood
    <2> HIDE DEF r
    <2> QED
      BY <1>3, <2>1, <2>2 DEF r
  <1>5. CASE PrimaryButtonUp(d)
    <2> DEFINE r == HandleSubtitlePrimaryButtonUp(w, d)
    <2>1. r \in Worlds /\ Good(r)
      BY <1>2, UpGood
    <2>2. Becomes(r) /\ UNCHANGED changed
      BY <1>5 DEF PrimaryButtonUp
    <2> HIDE DEF r
    <2> QED
      BY <1>3, <2>1, <2>2
  <1>6. CASE PrimaryButtonClick(d)
    <2>1. PICK s \in NewSession : Becomes(HandleButtonClick(w, s, d)) /\ UNCHANGED changed
      BY <1>6 DEF PrimaryButtonClick
    <2> PICK x \in Sessions \cup {0} : x = s /\ (x # 0 => x = w.last + 1)
      BY <1>2 DEF NewSession
    <2> DEFINE r == HandleButtonClick(w, x, d)
    <2>2. r \in Worlds /\ Good(r)
      BY <1>2, ClickGood
    <2> HIDE DEF r
    <2> QED
      BY <1>3, <2>1, <2>2 DEF r
  <1>7. CASE SecondaryButtonUp(d)
    <2> DEFINE r == HandleSecondaryButtonClick(w, d)
    <2>1. r \in Worlds /\ Good(r)
      BY <1>2, SideButtonGood
    <2>2. Becomes(r) /\ UNCHANGED changed
      BY <1>7 DEF SecondaryButtonUp
    <2> HIDE DEF r
    <2> QED
      BY <1>3, <2>1, <2>2
  <1> QED
    BY <1>4, <1>5, <1>6, <1>7

\* So do the menu, the overlay's queue and timer, and the connections.
LEMMA ConnectionsInv ==
    ASSUME IInv,
           \/ UpdateConfig \/ RemovePairedDevice \/ ProcessPosted \/ OnTimer \/ ConnectionChange
           \/ \E d \in Devices : Disconnected(d) \/ Connected(d)
    PROVE  IInv'
  <1>1. TypeOK /\ changed \in BOOLEAN
    BY DEF IInv, TypeOK
  <1> PICK w \in Worlds : w = World
    BY <1>1, WorldIs
  <1>2. /\ Good(w) /\ w.live = live /\ w.connected = connected /\ w.posted = posted
        /\ w.shown = shown
        /\ w.connected \subseteq Devices /\ w.shown \in [Devices -> Shows]
    BY <1>1, WorldIs DEF IInv, Worlds
  <1>3. ASSUME NEW r \in Worlds, Good(r), Becomes(r), changed' \in BOOLEAN
        PROVE  IInv'
    BY <1>1, <1>3, BecomesInv
  <1>4. CASE UpdateConfig
    <2> DEFINE r == HideOverlay(Nothing(w), "ui")
    <2>1. r \in Worlds /\ Good(r)
      BY <1>2, NothingGood
    <2>2. Becomes(r) /\ UNCHANGED changed
      BY <1>2, <1>4 DEF UpdateConfig, Nothing, WithActive
    <2> HIDE DEF r
    <2> QED
      BY <1>1, <1>3, <2>1, <2>2
  <1>5. CASE RemovePairedDevice
    <2> DEFINE v == Connects(w, {}, w.shown)
               r == CancelActiveCycleIfDeviceDisconnected(v, "ui")
    <2>1. v = [w EXCEPT !.connected = {}]
      BY DEF Connects, Worlds
    <2>2. v \in Worlds /\ Good(v)
      BY <1>2, ConnectsGood
    <2>3. Becomes(r) /\ UNCHANGED changed
      BY <1>5, <2>1 DEF RemovePairedDevice
    <2> HIDE DEF v
    <2>4. r \in Worlds /\ Good(r)
      BY <2>2, DisconnectedGood
    <2> HIDE DEF r
    <2> QED
      BY <1>1, <1>3, <2>3, <2>4
  <1>6. CASE ProcessPosted
    <2> DEFINE r == Perform(Popped(w), Head(w.posted))
    <2>1. r \in Worlds /\ Good(r)
      BY <1>2, <1>6, PerformGood DEF ProcessPosted
    <2>2. Becomes(r) /\ UNCHANGED changed
      BY <1>2, <1>6 DEF ProcessPosted, Popped
    <2> HIDE DEF r
    <2> QED
      BY <1>1, <1>3, <2>1, <2>2
  <1>7. CASE OnTimer
    <2> DEFINE r == Hide(w)
    <2>1. r \in Worlds /\ Good(r)
      BY <1>2, HideIs, SameHeld DEF Good
    <2>2. Becomes(r) /\ UNCHANGED changed
      BY <1>7 DEF OnTimer
    <2> HIDE DEF r
    <2> QED
      BY <1>1, <1>3, <2>1, <2>2
  <1>8. CASE ConnectionChange
    <2> DEFINE r == CancelActiveCycleIfDeviceDisconnected(w, "ui")
    <2>1. r \in Worlds /\ Good(r)
      BY <1>2, DisconnectedGood
    <2>2. Becomes(r) /\ changed' = FALSE
      BY <1>8 DEF ConnectionChange
    <2> HIDE DEF r
    <2> QED
      BY <1>3, <2>1, <2>2, Bounds
  <1>9. ASSUME NEW d \in Devices, Disconnected(d)
        PROVE  IInv'
    <2> DEFINE c == w.connected \ {d}
               r == Connects(w, c, w.shown)
    <2>1. r = [w EXCEPT !.connected = w.connected \ {d}]
      BY DEF Connects, Worlds
    <2>2. Becomes(r) /\ changed' = TRUE
      BY <1>9, <2>1 DEF Disconnected
    <2>3. c \in SUBSET Devices /\ c \subseteq w.connected
      BY <1>2
    <2> HIDE DEF c
    <2>4. r \in Worlds /\ Good(r)
      BY <1>2, <2>3, ConnectsGood
    <2> HIDE DEF r
    <2> QED
      BY <1>3, <2>2, <2>4, Bounds
  <1>10. ASSUME NEW d \in Devices, Connected(d)
         PROVE  IInv'
    <2> DEFINE c == w.connected \cup {d}
               g == [w.shown EXCEPT ![d] = "ready"]
               v == Connects(w, c, g)
               r == CancelActiveCycleIfDeviceDisconnected(v, "pool")
    <2>1. Becomes(r) /\ UNCHANGED changed
      BY <1>10 DEF Connected, Connects
    <2>2. /\ c \in SUBSET Devices /\ g \in [Devices -> Shows]
          /\ \A x \in c : g[x] = "ready" \/ (x \in w.connected /\ g[x] = w.shown[x])
      BY <1>2 DEF Shows
    <2> HIDE DEF c, g
    <2>3. v \in Worlds /\ Good(v)
      BY <1>2, <2>2, ConnectsGood
    <2> HIDE DEF v
    <2>4. r \in Worlds /\ Good(r)
      BY <2>3, DisconnectedGood
    <2> HIDE DEF r
    <2> QED
      BY <1>1, <1>3, <2>1, <2>4
  <1> QED
    BY <1>4, <1>5, <1>6, <1>7, <1>8, <1>9, <1>10

\* So does what happens to a recording: its audio, its timeout and its results.
LEMMA RecordingsInv ==
    ASSUME IInv, NEW s \in Sessions,
           \/ AudioFrame(s) \/ AudioEndTimeout(s) \/ TimePasses(s)
           \/ AsrPartial(s) \/ AsrSegment(s) \/ AsrFinal(s) \/ AsrFails(s)
    PROVE  IInv'
  <1>1. TypeOK /\ changed \in BOOLEAN
    BY DEF IInv, TypeOK
  <1> PICK w \in Worlds : w = World
    BY <1>1, WorldIs
  <1>2. Good(w) /\ w.live = live /\ w.cycle = cycle /\ w.asr = asr
    BY <1>1, WorldIs DEF IInv
  <1>3. asr[s] # "idle" => s \in w.live
    BY <1>2 DEF Good, Held, ClientsLive
  <1>4. s \in w.live
    BY <1>2, <1>3 DEF AudioFrame, AudioEndTimeout, TimePasses, AsrPartial, AsrSegment,
                      AsrFinal, AsrFails
  <1>5. ASSUME NEW r \in Worlds, Good(r), Becomes(r), UNCHANGED changed
        PROVE  IInv'
    BY <1>1, <1>5, BecomesInv
  <1>6. CASE AudioFrame(s)
    <2>1. PICK end \in BOOLEAN, ok \in BOOLEAN :
             Becomes(HandleSubtitleAudioFrame(w, s, end, ok)) /\ UNCHANGED changed
      BY <1>6 DEF AudioFrame
    <2> DEFINE r == HandleSubtitleAudioFrame(w, s, end, ok)
    <2>2. r \in Worlds /\ Good(r)
      BY <1>2, <1>4, AudioFrameGood
    <2> HIDE DEF r
    <2> QED
      BY <1>5, <2>1, <2>2 DEF r
  <1>7. CASE AudioEndTimeout(s)
    <2>1. PICK ok \in BOOLEAN :
             /\ Becomes(SendSubtitleFinalOggChunkIfNeeded(w, "timeout", s, ok))
             /\ UNCHANGED changed
      BY <1>7 DEF AudioEndTimeout
    <2> DEFINE r == SendSubtitleFinalOggChunkIfNeeded(w, "timeout", s, ok)
    <2>2. Held(w, {s}) /\ Shown(w, None) /\ Recognized(w, s)
      BY <1>2, <1>4, LiveGood
    <2>3. r \in Worlds /\ Good(r)
      BY <1>4, <2>2, FinalAudioGood
    <2> HIDE DEF r
    <2> QED
      BY <1>5, <2>1, <2>3 DEF r
  <1>8. CASE TimePasses(s)
    <2> DEFINE r == IsLong(w, s)
    <2>1. r \in Worlds /\ Good(r)
      BY <1>2, <1>4, LongGood
    <2>2. Becomes(r) /\ UNCHANGED changed
      BY <1>8 DEF TimePasses, IsLong
    <2> HIDE DEF r
    <2> QED
      BY <1>5, <2>1, <2>2
  <1>9. CASE AsrPartial(s)
    <2> DEFINE r == OnPartial(w, s)
    <2>1. r \in Worlds /\ Good(r)
      BY <1>2, <1>4, PartialGood
    <2>2. Becomes(r) /\ UNCHANGED changed
      BY <1>9 DEF AsrPartial
    <2> HIDE DEF r
    <2> QED
      BY <1>5, <2>1, <2>2
  <1>10. CASE AsrSegment(s)
    <2> DEFINE r == HandleSubtitleDefiniteSegment(w, s)
    <2>1. r \in Worlds /\ Good(r)
      BY <1>2, <1>4, SegmentGood
    <2>2. Becomes(r) /\ UNCHANGED changed
      BY <1>10 DEF AsrSegment
    <2> HIDE DEF r
    <2> QED
      BY <1>5, <2>1, <2>2
  <1>11. CASE AsrFinal(s)
    <2>1. PICK empty \in BOOLEAN :
             /\ Becomes(FinishSubtitleCycleWithFinalText(WithClient(w, s, "idle"), s, empty))
             /\ UNCHANGED changed
      BY <1>11 DEF AsrFinal, WithClient
    <2> DEFINE r == FinishSubtitleCycleWithFinalText(WithClient(w, s, "idle"), s, empty)
    <2>2. r \in Worlds /\ Good(r)
      BY <1>2, <1>4, AsrFinalGood
    <2> HIDE DEF r
    <2> QED
      BY <1>5, <2>1, <2>2 DEF r
  <1>12. CASE AsrFails(s)
    <2> DEFINE e == FinishSubtitleCycleWithError(w, "asr", s)
               u == OnUpgrade(w, s)
    <2>1. Held(w, {s}) /\ Shown(w, None)
      BY <1>2, <1>4, LiveGood
    <2>2. e \in Worlds /\ Good(e)
      BY <2>1, ErrorGood
    <2>3. u \in Worlds /\ Good(u)
      BY <1>2, <1>4, UpgradeGood
    <2>4. (Becomes(e) \/ Becomes(u)) /\ UNCHANGED changed
      BY <1>12 DEF AsrFails
    <2> HIDE DEF e, u
    <2> QED
      BY <1>5, <2>2, <2>3, <2>4
  <1> QED
    BY <1>6, <1>7, <1>8, <1>9, <1>10, <1>11, <1>12

\* So do the texts that were translated.
LEMMA TextsInv ==
    ASSUME IInv, NEW text \in Texts, Translated(text)
    PROVE  IInv'
  <1>1. TypeOK /\ changed \in BOOLEAN
    BY DEF IInv, TypeOK
  <1> PICK w \in Worlds : w = World
    BY <1>1, WorldIs
  <1>2. Good(w) /\ text \in w.translating
    BY <1>1, WorldIs DEF IInv, Translated
  <1>3. PICK ok \in BOOLEAN :
           /\ Becomes(ShowSubtitleText(Arrived(w, text), "translator", text.of, text.final, ok))
           /\ UNCHANGED changed
    BY DEF Translated, Arrived
  <1> DEFINE r == ShowSubtitleText(Arrived(w, text), "translator", text.of, text.final, ok)
  <1>4. r \in Worlds /\ Good(r)
    BY <1>2, TranslatedGood
  <1> HIDE DEF r
  <1> QED
    BY <1>1, <1>3, <1>4, BecomesInv DEF r

\* Every step keeps the invariant.
LEMMA NextInv == IInv /\ [Next]_vars => IInv'
  <1> SUFFICES ASSUME IInv, [Next]_vars PROVE IInv'
    OBVIOUS
  <1>1. CASE UNCHANGED vars
    <2>1. World' = World
      BY <1>1 DEF vars, history, World
    <2>2. TypeOK'
      BY <1>1 DEF IInv, TypeOK, vars, config, history
    <2> QED
      BY <2>1, <2>2 DEF IInv
  <1>2. CASE Next
    BY <1>2, ButtonsInv, ConnectionsInv, RecordingsInv, TextsInv DEF Next
  <1> QED
    BY <1>1, <1>2

-----------------------------------------------------------------------------
(* The theorems *)

\* The inductive invariant holds of the coordinator.
THEOREM Invariant == Spec => []IInv
  <1>1. Init => IInv
    BY InitInv
  <1>2. IInv /\ [Next]_vars => IInv'
    BY NextInv
  <1> QED
    BY <1>1, <1>2, PTL DEF Spec

\* Every variable keeps its type: the table keeps the shape of its recordings, and
\* nothing is numbered beyond the last one.
THEOREM TypeCorrect == Spec => []TypeOK
  <1>1. IInv => TypeOK
    BY DEF IInv
  <1> QED
    BY <1>1, Invariant, PTL

\* However many devices share the overlay, a device that shows a recording has an
\* active one, or the overlay has still to tell it, unless an error of something
\* else replaced its own (FinishSubtitleCycle, FinishSubtitleCycleWithError).
THEOREM DevicesShowRecordings == Spec => []DeviceShows
  <1>1. IInv => DeviceShows
    <2> SUFFICES ASSUME IInv PROVE DeviceShows
      OBVIOUS
    <2>1. TypeOK
      BY DEF IInv
    <2>2. /\ World.connected = connected /\ World.shown = shown /\ World.active = active
          /\ World.overlay = overlay /\ World.posted = posted /\ World.untold = untold
      BY <2>1, WorldIs
    <2>3. Shown(World, None) /\ connected \subseteq Devices
      BY <2>1 DEF IInv, Good, TypeOK
    <2>4. ASSUME NEW d \in connected, shown[d] # "ready"
          PROVE  active[d] # 0 \/ Told(World, d)
      BY <2>2, <2>3, <2>4, Bounds DEF Shown
    <2> QED
      BY <2>2, <2>4 DEF DeviceShows, Told, IsPosted
  <1> QED
    BY <1>1, Invariant, PTL

\* However recordings of a device overlap, one that is over has the END timeout, the
\* ASR service or the translation to end it (ClearActiveSubtitleSession).
THEOREM RecordingsEnd == Spec => []RecordingsHeld
  <1>1. IInv => RecordingsHeld
    <2> SUFFICES ASSUME IInv, NEW s \in Sessions, IsOver(s)
                 PROVE  \/ cycle[s].waiting \/ asr[s] = "last"
                        \/ [of |-> s, final |-> TRUE] \in translating
      BY DEF RecordingsHeld
    <2>1. TypeOK
      BY DEF IInv
    <2>2. /\ World.live = live /\ World.cycle = cycle /\ World.active = active
          /\ World.asr = asr /\ World.translating = translating
          /\ World.superseded = superseded
      BY <2>1, WorldIs
    <2>3. Recognized(World, s) /\ Ended(World, s)
      BY <2>2 DEF IInv, Good, Held, IsOver
    <2> QED
      BY <2>2, <2>3 DEF Recognized, Ended, IsOver, IsActiveSubtitleCycle, DeviceOf
  <1> QED
    BY <1>1, Invariant, PTL
=============================================================================
