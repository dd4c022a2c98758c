---------------------------- MODULE WinBleProofs ----------------------------
(***************************************************************************)
(* Theorems about WinBle, for any number of devices, attempts, discovery   *)
(* rounds and changes of the paired devices.                               *)
(***************************************************************************)
EXTENDS WinBle, TLAPS

-----------------------------------------------------------------------------
(* The inductive invariant *)

\* A session in the map is the one its attempt left, for the device it is of.
SessionsOwned ==
    \A d \in Devices :
        sessions[d] # 0 => att[sessions[d]].at = "connected" /\ att[sessions[d]].device = d

\* While the paired devices have not changed under an attempt, its address is
\* marked: no second attempt can begin.
LiveMarked == \A d \in Devices \ split : LiveFor(d) # {} => d \in connecting

\* What relates the maps to the attempts.
Tracked == SessionsOwned /\ LiveMarked /\ ConnectingHasAttempt /\ OneConnection

IInv == TypeOK /\ Tracked

\* What the assumptions on the constants give.
LEMMA Constants ==
    /\ MaxAttempts \in Nat /\ Tries \in Nat /\ 1 \in 1..Tries
    /\ 0 \notin Attempts /\ Attempts \subseteq Nat /\ MaxUpdates \in Nat
    /\ Stages \subseteq Places
    /\ "none" \notin Stages /\ "connected" \notin Stages
    /\ "failed" \notin Stages /\ "closed" \notin Stages
    /\ "open" \in Stages /\ "discover" \in Stages
    /\ "subscribe" \in Stages /\ "insert" \in Stages
    /\ "none" \in Places /\ "connected" \in Places
    /\ "failed" \in Places /\ "closed" \in Places
  BY BoundsAssumption DEF Attempts, Stages, Places

\* An attempt that has not begun.
LEMMA IdleAttempt == Idle \in Attempt /\ Idle.at = "none"
  <1> DEFINE c == CHOOSE d \in Devices : TRUE
  <1>1. c \in Devices
    BY DevicesAssumption
  <1>2. FALSE \in BOOLEAN
    OBVIOUS
  <1>3. Idle = [device |-> c, at |-> "none", try |-> 1, unpaired |-> FALSE, attached |-> FALSE]
    BY DEF Idle
  <1> HIDE DEF c
  <1> QED
    BY <1>1, <1>2, <1>3, Constants DEF Attempt

\* An attempt of a device that begins, failed or was closed.
LEMMA FreshAttempt ==
    ASSUME NEW d \in Devices, NEW p \in Places
    PROVE  LET r == [Idle EXCEPT !.device = d, !.at = p] IN
           r \in Attempt /\ r.at = p /\ r.device = d
  BY IdleAttempt DEF Attempt

\* Closing sessions ends those attempts, keeps their devices and leaves the
\* others alone.
LEMMA ClosedAttempts ==
    ASSUME TypeOK, NEW as
    PROVE  /\ Closed(as) \in [Attempts -> Attempt]
           /\ \A a \in Attempts :
                 /\ Closed(as)[a].device = att[a].device
                 /\ a \in as => Closed(as)[a].at = "closed"
                 /\ a \notin as => Closed(as)[a] = att[a]
  <1>1. \A a \in Attempts : att[a] \in Attempt /\ att[a].device \in Devices
    BY DEF TypeOK, Attempt
  <1>2. "closed" \in Places
    BY Constants
  <1> QED
    BY <1>1, <1>2, FreshAttempt DEF Closed

-----------------------------------------------------------------------------
(* What steps do to the maps *)

\* A step that moves attempts between stages, and changes nothing the maps
\* speak of, keeps them in step.
LEMMA StagesMoved ==
    ASSUME TypeOK, Tracked,
           UNCHANGED <<sessions, connecting, split, closing>>, paired \subseteq paired',
           \A a \in Attempts : /\ att'[a].device = att[a].device
                               /\ (att'[a].at \in Stages <=> att[a].at \in Stages)
                               /\ (att[a].at = "connected" => att'[a].at = "connected")
    PROVE  Tracked'
  <1>1. \A d \in Devices : LiveFor(d)' = LiveFor(d)
    BY DEF LiveFor, Live
  <1>2. SessionsOwned'
    BY DEF Tracked, SessionsOwned, TypeOK
  <1> QED
    BY <1>1, <1>2 DEF Tracked, LiveMarked, ConnectingHasAttempt, OneConnection, TypeOK

\* An attempt may begin for a device that has no session and no mark.
LEMMA AttemptBegun ==
    ASSUME TypeOK, Tracked, NEW d \in Devices,
           sessions[d] = 0, d \notin connecting, d \in paired', paired \subseteq paired',
           connecting' = connecting \cup {d}, Begin(d),
           UNCHANGED <<sessions, split, closing>>
    PROVE  Tracked' /\ att' \in [Attempts -> Attempt]
  <1> DEFINE r == [Idle EXCEPT !.device = d, !.at = "open"]
  <1>1. PICK a \in Attempts : att[a].at = "none" /\ att' = [att EXCEPT ![a] = r]
    BY DEF Begin
  <1>2. r \in Attempt /\ r.at = "open" /\ r.device = d
    BY FreshAttempt, Constants
  <1> HIDE DEF r
  <1>3. att' \in [Attempts -> Attempt]
    BY <1>1, <1>2 DEF TypeOK
  <1>4. att'[a] = r /\ \A b \in Attempts \ {a} : att'[b] = att[b]
    BY <1>1 DEF TypeOK
  <1>5. ~Live(a) /\ att[a].at # "connected"
    BY <1>1, Constants DEF Live
  <1>6. LiveFor(d)' = LiveFor(d) \cup {a}
    BY <1>2, <1>4, Constants DEF LiveFor, Live
  <1>7. \A e \in Devices \ {d} : LiveFor(e)' = LiveFor(e)
    BY <1>2, <1>4, <1>5 DEF LiveFor, Live
  <1>8. d \notin split => LiveFor(d) = {}
    BY DEF Tracked, LiveMarked
  <1>9. SessionsOwned'
    BY <1>4, <1>5 DEF Tracked, SessionsOwned, TypeOK
  <1>10. LiveMarked' /\ ConnectingHasAttempt'
    BY <1>6, <1>7 DEF Tracked, LiveMarked, ConnectingHasAttempt, TypeOK
  <1>11. OneConnection'
    BY <1>6, <1>7, <1>8 DEF Tracked, OneConnection, TypeOK
  <1> QED
    BY <1>3, <1>9, <1>10, <1>11 DEF Tracked

\* The attempt of a device may end, if its mark is taken back.
LEMMA AttemptEnded ==
    ASSUME TypeOK, Tracked, NEW a \in Attempts, Live(a),
           NEW r, r.device = att[a].device, r.at \notin Stages,
           att' = [att EXCEPT ![a] = r], connecting' = connecting \ {att[a].device},
           UNCHANGED <<paired, sessions, split, closing>>
    PROVE  Tracked'
  <1>1. PICK d \in Devices : d = att[a].device
    BY DEF TypeOK, Attempt
  <1>2. att'[a] = r /\ \A b \in Attempts \ {a} : att'[b] = att[b]
    BY DEF TypeOK
  <1>3. LiveFor(d)' = LiveFor(d) \ {a} /\ a \in LiveFor(d)
    BY <1>1, <1>2 DEF LiveFor, Live
  <1>4. \A e \in Devices \ {d} : LiveFor(e)' = LiveFor(e)
    BY <1>1, <1>2 DEF LiveFor, Live
  <1>5. SessionsOwned'
    BY <1>2, Constants DEF Tracked, SessionsOwned, Live, TypeOK
  <1>6. d \notin split => LiveFor(d)' = {}
    BY <1>1, <1>3 DEF Tracked, OneConnection
  <1>7. LiveMarked' /\ ConnectingHasAttempt'
    BY <1>1, <1>3, <1>4, <1>6 DEF Tracked, LiveMarked, ConnectingHasAttempt, TypeOK
  <1>8. \A e \in Devices : LiveFor(e)' \subseteq LiveFor(e)
    BY <1>3, <1>4
  <1>9. OneConnection'
    BY <1>8 DEF Tracked, OneConnection
  <1> QED
    BY <1>5, <1>7, <1>9 DEF Tracked

\* The lambda "fail" of an attempt that runs.
LEMMA FailInv ==
    ASSUME IInv, NEW a \in Attempts, Live(a), Fail(a), UNCHANGED <<uiVars, history>>,
           link' \subseteq Devices, notices' \subseteq Attempts
    PROVE  IInv'
  <1> DEFINE r == [Idle EXCEPT !.device = att[a].device, !.at = "failed"]
  <1>1. r \in Attempt /\ r.at = "failed" /\ r.device = att[a].device
    BY FreshAttempt, Constants DEF IInv, TypeOK, Attempt
  <1>2. att' = [att EXCEPT ![a] = r] /\ connecting' = connecting \ {att[a].device}
        /\ UNCHANGED <<paired, sessions, split, closing>>
    BY DEF Fail, uiVars, history
  <1> HIDE DEF r
  <1>3. Tracked'
    BY <1>1, <1>2, AttemptEnded, Constants DEF IInv
  <1>4. TypeOK'
    BY <1>1, <1>2 DEF IInv, TypeOK, Fail, uiVars, history
  <1> QED
    BY <1>3, <1>4 DEF IInv

\* An attempt may go on, still for its device.
LEMMA AttemptMoved ==
    ASSUME IInv, NEW a \in Attempts, Live(a),
           NEW r \in Attempt, r.device = att[a].device, r.at \in Stages,
           att' = [att EXCEPT ![a] = r], UNCHANGED <<mapVars, restart, closing, history>>,
           watcher' \in {"off", "on", "dead"}, link' \subseteq Devices, notices' \subseteq Attempts
    PROVE  IInv'
  <1>1. att' \in [Attempts -> Attempt]
    BY DEF IInv, TypeOK
  <1>2. att'[a] = r /\ \A b \in Attempts \ {a} : att'[b] = att[b]
    BY DEF IInv, TypeOK
  <1>3. /\ att'[a].device = att[a].device
        /\ att'[a].at \in Stages /\ att[a].at \in Stages /\ att[a].at # "connected"
    BY <1>2, Constants DEF Live
  <1>4. UNCHANGED <<sessions, connecting, split, closing>> /\ paired \subseteq paired'
    BY DEF mapVars, history
  <1>5. \A b \in Attempts : /\ att'[b].device = att[b].device
                             /\ (att'[b].at \in Stages <=> att[b].at \in Stages)
                             /\ (att[b].at = "connected" => att'[b].at = "connected")
    BY <1>2, <1>3
  <1>6. TypeOK /\ Tracked
    BY DEF IInv
  <1>7. Tracked'
    BY <1>4, <1>5, <1>6, StagesMoved
  <1>8. TypeOK'
    BY <1>1 DEF IInv, TypeOK, mapVars, history
  <1> QED
    BY <1>7, <1>8 DEF IInv

\* A step that leaves the attempts and the maps alone.
LEMMA NothingMoved ==
    ASSUME IInv, UNCHANGED <<sessions, connecting, att, split, closing>>, paired' = paired,
           cancelled' \subseteq Devices, watcher' \in {"off", "on", "dead"},
           restart' \in BOOLEAN, link' \subseteq Devices, notices' \subseteq Attempts,
           updates' \in 0..MaxUpdates, missed' \subseteq Attempts
    PROVE  IInv'
  <1>1. Tracked'
    BY StagesMoved DEF IInv
  <1>2. TypeOK'
    BY DEF IInv, TypeOK
  <1> QED
    BY <1>1, <1>2 DEF IInv

\* The steps of an attempt on its way to a session.
LEMMA StepInv ==
    ASSUME IInv, NEW a \in Attempts, Step(a)
    PROVE  IInv'
  <1> USE Constants
  <1>1. att[a] \in Attempt /\ att[a].device \in Devices /\ TRUE \in BOOLEAN /\ FALSE \in BOOLEAN
    BY DEF IInv, TypeOK, Attempt
  <1>2. /\ watcher \in {"off", "on", "dead"} /\ link \subseteq Devices /\ notices \subseteq Attempts
        /\ att \in [Attempts -> Attempt]
    BY DEF IInv, TypeOK
  <1>3. CASE OpenDevice(a)
    <2>1. Live(a)
      BY <1>3 DEF OpenDevice, Live
    <2>2. CASE Fail(a)
      BY <1>2, <1>3, <2>1, <2>2, FailInv DEF OpenDevice, airVars
    <2>3. CASE att' = [att EXCEPT ![a].at = "discover", ![a].attached = TRUE] /\ UNCHANGED mapVars
      <3> DEFINE r == [att[a] EXCEPT !.at = "discover", !.attached = TRUE]
      <3>1. r \in Attempt /\ r.device = att[a].device /\ r.at \in Stages
        BY <1>1 DEF Attempt
      <3>2. att' = [att EXCEPT ![a] = r]
        BY <1>2, <2>3
      <3> HIDE DEF r
      <3> QED
        BY <1>2, <1>3, <2>1, <2>3, <3>1, <3>2, AttemptMoved DEF OpenDevice, uiVars, airVars
    <2> QED
      BY <1>3, <2>2, <2>3 DEF OpenDevice
  <1>4. CASE DiscoveryCancelled(a) \/ DiscoveryFailed(a)
    <2>1. Live(a) /\ Fail(a)
      BY <1>4 DEF DiscoveryCancelled, DiscoveryFailed, Live
    <2> QED
      BY <1>2, <1>4, <2>1, FailInv DEF DiscoveryCancelled, DiscoveryFailed, airVars
  <1>5. CASE ServiceFound(a)
    <2> DEFINE r == [att[a] EXCEPT !.at = "subscribe"]
    <2>1. r \in Attempt /\ r.device = att[a].device /\ r.at \in Stages
      BY <1>1 DEF Attempt
    <2>2. att' = [att EXCEPT ![a] = r] /\ Live(a)
      BY <1>2, <1>5 DEF ServiceFound, Goto, Live
    <2> HIDE DEF r
    <2> QED
      BY <1>2, <1>5, <2>1, <2>2, AttemptMoved DEF ServiceFound, uiVars, airVars
  <1>6. CASE DiscoverAgain(a)
    <2> DEFINE r == [att[a] EXCEPT !.try = @ + 1]
    <2>1. att[a].at = "discover" /\ att[a].try \in 1..Tries /\ att[a].try + 1 \in 1..Tries
      BY <1>1, <1>6 DEF DiscoverAgain, Attempt
    <2>2. r \in Attempt /\ r.device = att[a].device /\ r.at \in Stages
      BY <1>1, <2>1 DEF Attempt
    <2>3. att' = [att EXCEPT ![a] = r] /\ Live(a)
      BY <1>2, <1>6 DEF DiscoverAgain, Live
    <2> HIDE DEF r
    <2> QED
      BY <1>2, <1>6, <2>2, <2>3, AttemptMoved DEF DiscoverAgain, uiVars, airVars
  <1>7. CASE Recycle(a)
    <2>1. PICK unpair \in BOOLEAN :
             att' = [att EXCEPT ![a].at = "open", ![a].try = @ + 1, ![a].attached = FALSE,
                                ![a].unpaired = @ \/ unpair]
      BY <1>7 DEF Recycle
    <2> DEFINE u == att[a].unpaired \/ unpair
               r == [att[a] EXCEPT !.at = "open", !.try = @ + 1, !.attached = FALSE, !.unpaired = u]
    <2>2. att' = [att EXCEPT ![a] = r] /\ Live(a)
      BY <1>2, <1>7, <2>1 DEF Recycle, Live
    <2>3. u \in BOOLEAN
      OBVIOUS
    <2> HIDE DEF u
    <2>4. att[a].try \in 1..Tries /\ att[a].try + 1 \in 1..Tries
      BY <1>1, <1>7 DEF Recycle, Attempt
    <2>5. r \in Attempt /\ r.device = att[a].device /\ r.at \in Stages
      BY <1>1, <2>3, <2>4 DEF Attempt
    <2> HIDE DEF r
    <2> QED
      BY <1>2, <1>7, <2>2, <2>5, AttemptMoved DEF Recycle, uiVars, airVars
  <1>8. CASE ResetRadio(a)
    <2> DEFINE r == [att[a] EXCEPT !.at = "open", !.try = @ + 1, !.attached = FALSE, !.unpaired = TRUE]
    <2>1. att' = [att EXCEPT ![a] = r] /\ Live(a)
      BY <1>2, <1>8 DEF ResetRadio, Live
    <2>2. att[a].try \in 1..Tries /\ att[a].try + 1 \in 1..Tries
      BY <1>1, <1>8 DEF ResetRadio, Attempt
    <2>3. r \in Attempt /\ r.device = att[a].device /\ r.at \in Stages
      BY <1>1, <2>2 DEF Attempt
    <2>4. watcher' \in {"off", "on", "dead"} /\ link' \subseteq Devices /\ notices' \subseteq Attempts
      BY <1>2, <1>8 DEF ResetRadio, TryResetBluetoothRadio, airVars
    <2> HIDE DEF r
    <2> QED
      BY <1>8, <2>1, <2>3, <2>4, AttemptMoved DEF ResetRadio
  <1>9. CASE Subscribe(a)
    <2>1. Live(a)
      BY <1>9 DEF Subscribe, Live
    <2>2. CASE Fail(a)
      BY <1>2, <1>9, <2>1, <2>2, FailInv DEF Subscribe, airVars
    <2>3. CASE Goto(a, "insert") /\ UNCHANGED mapVars
      <3> DEFINE r == [att[a] EXCEPT !.at = "insert"]
      <3>1. r \in Attempt /\ r.device = att[a].device /\ r.at \in Stages
        BY <1>1 DEF Attempt
      <3>2. att' = [att EXCEPT ![a] = r]
        BY <1>2, <2>3 DEF Goto
      <3> HIDE DEF r
      <3> QED
        BY <1>2, <1>9, <2>1, <2>3, <3>1, <3>2, AttemptMoved DEF Subscribe, uiVars, airVars
    <2> QED
      BY <1>9, <2>2, <2>3 DEF Subscribe
  <1>10. CASE InsertSession(a)
    <2>1. PICK d \in Devices : d = att[a].device
      BY <1>1
    <2>2. Live(a) /\ a # 0 /\ sessions[d] # a
      BY <1>10, <2>1 DEF InsertSession, Live, IInv, Tracked, SessionsOwned
    <2> DEFINE C == Closed({sessions[d]})
    <2>3. /\ C \in [Attempts -> Attempt]
          /\ C[a] = att[a]
          /\ \A b \in Attempts : /\ C[b].device = att[b].device
                                 /\ b # sessions[d] => C[b] = att[b]
                                 /\ b = sessions[d] => C[b].at = "closed"
      BY <2>2, ClosedAttempts DEF IInv
    <2>4. /\ att' = [C EXCEPT ![a].at = "connected"]
          /\ sessions' = [sessions EXCEPT ![d] = a]
          /\ connecting' = connecting \ {d}
          /\ UNCHANGED <<paired, cancelled, uiVars, airVars, history>>
      BY <1>10, <2>1 DEF InsertSession
    <2> HIDE DEF C
    <2>5. [att[a] EXCEPT !.at = "connected"] \in Attempt
      BY <1>1 DEF Attempt
    <2>6. /\ att'[a] = [att[a] EXCEPT !.at = "connected"]
          /\ \A b \in Attempts \ {a} : att'[b] = C[b]
      BY <2>3, <2>4
    <2>7. att' \in [Attempts -> Attempt]
      BY <2>3, <2>4, <2>5
    <2>8. TypeOK'
      BY <2>4, <2>7 DEF IInv, TypeOK, uiVars, airVars, history
    <2>9. sessions[d] # 0 => sessions[d] \in Attempts /\ ~Live(sessions[d])
      BY DEF IInv, Tracked, SessionsOwned, TypeOK, Live
    <2>10. \A b \in Attempts : b # a => (Live(b)' <=> Live(b))
      BY <2>3, <2>6, <2>9 DEF Live
    <2>11. \A b \in Attempts : att'[b].device = att[b].device
      BY <1>1, <2>3, <2>6 DEF Attempt
    <2>12. ~Live(a)' /\ att'[a].at = "connected"
      BY <1>1, <2>6 DEF Live, Attempt
    <2>13. LiveFor(d)' = LiveFor(d) \ {a} /\ a \in LiveFor(d)
      BY <2>1, <2>2, <2>10, <2>11, <2>12 DEF LiveFor
    <2>14. \A e \in Devices \ {d} : LiveFor(e)' = LiveFor(e)
      BY <2>1, <2>10, <2>11, <2>12 DEF LiveFor
    <2>15. /\ sessions'[d] = a
           /\ \A e \in Devices \ {d} : sessions'[e] = sessions[e]
      BY <2>4 DEF IInv, TypeOK
    <2>16. SessionsOwned'
      <3> SUFFICES ASSUME NEW e \in Devices, sessions'[e] # 0
                   PROVE  att'[sessions'[e]].at = "connected" /\ att'[sessions'[e]].device = e
        BY DEF SessionsOwned
      <3>1. CASE e = d
        BY <2>1, <2>11, <2>12, <2>15, <3>1
      <3>2. CASE e # d
        <4>1. /\ sessions[e] \in Attempts /\ sessions'[e] = sessions[e]
              /\ att[sessions[e]].at = "connected" /\ att[sessions[e]].device = e
          BY <2>15, <3>2 DEF IInv, Tracked, SessionsOwned, TypeOK
        <4>2. sessions[e] # sessions[d] /\ sessions[e] # a
          BY <2>2, <3>2, <4>1 DEF Live, IInv, Tracked, SessionsOwned
        <4> QED
          BY <2>3, <2>6, <4>1, <4>2
      <3> QED
        BY <3>1, <3>2
    <2>17. split' = split /\ closing' = closing /\ (d \notin split => LiveFor(d)' = {} /\ d \in paired)
      BY <2>4, <2>13 DEF IInv, Tracked, OneConnection, uiVars, history
    <2>18. LiveMarked' /\ ConnectingHasAttempt'
      BY <2>4, <2>13, <2>14, <2>17 DEF IInv, Tracked, LiveMarked, ConnectingHasAttempt, TypeOK
    <2>19. OneConnection'
      <3> SUFFICES ASSUME NEW e \in Devices \ split
                   PROVE  /\ \A b, c \in LiveFor(e)' : b = c
                          /\ LiveFor(e)' # {} => sessions'[e] = 0
                          /\ LiveFor(e)' # {} \/ (sessions'[e] # 0 /\ ~closing) => e \in paired
        BY <2>4, <2>17 DEF OneConnection
      <3>1. CASE e = d
        BY <2>17, <3>1
      <3>2. CASE e # d
        BY <2>14, <2>15, <3>2 DEF IInv, Tracked, OneConnection
      <3> QED
        BY <3>1, <3>2
    <2> QED
      BY <2>8, <2>16, <2>18, <2>19 DEF IInv, Tracked
  <1> QED
    BY <1>3, <1>4, <1>5, <1>6, <1>7, <1>8, <1>9, <1>10 DEF Step

-----------------------------------------------------------------------------
(* Every step keeps the inductive invariant *)

\* At the start nothing is being connected.
LEMMA InitInv == Init => IInv
  <1> SUFFICES ASSUME Init PROVE IInv
    OBVIOUS
  <1>1. att \in [Attempts -> Attempt] /\ \A a \in Attempts : att[a].at = "none"
    BY IdleAttempt DEF Init
  <1>2. restart \in BOOLEAN /\ closing \in BOOLEAN
    BY DEF Init
  <1>3. sessions \in [Devices -> Attempts \cup {0}]
    BY DEF Init
  <1>4. updates \in 0..MaxUpdates
    BY Constants DEF Init
  <1>5. TypeOK
    BY <1>1, <1>2, <1>3, <1>4 DEF Init, TypeOK
  <1>6. \A d \in Devices : LiveFor(d) = {}
    BY <1>1, Constants DEF LiveFor, Live
  <1> QED
    BY <1>5, <1>6 DEF Init, IInv, Tracked, SessionsOwned, LiveMarked,
       ConnectingHasAttempt, OneConnection

\* Pairing or forgetting: the devices with an attempt are those that are split
\* from then on.
LEMMA UpdateInv ==
    ASSUME IInv, UpdatePairedDeviceIds
    PROVE  IInv'
  <1>1. /\ updates < MaxUpdates /\ updates' = updates + 1
        /\ paired' \in SUBSET Devices /\ connecting' = {} /\ closing' = TRUE
        /\ split' = split \cup {d \in Devices : LiveFor(d) # {}}
        /\ UNCHANGED <<sessions, cancelled, watcher, restart, att, airVars, missed>>
    BY DEF UpdatePairedDeviceIds
  <1>2. \A d \in Devices : LiveFor(d)' = LiveFor(d)
    BY <1>1 DEF LiveFor, Live
  <1>3. \A d \in Devices \ split' : LiveFor(d)' = {}
    BY <1>1, <1>2
  <1>4. SessionsOwned'
    BY <1>1 DEF IInv, Tracked, SessionsOwned
  <1>5. Tracked'
    BY <1>1, <1>3, <1>4 DEF Tracked, LiveMarked, ConnectingHasAttempt, OneConnection
  <1>6. updates' \in 0..MaxUpdates
    BY <1>1, Constants DEF IInv, TypeOK
  <1>7. closing' \in BOOLEAN
    BY <1>1
  <1>8. TypeOK'
    BY <1>1, <1>6, <1>7 DEF IInv, TypeOK, airVars
  <1> QED
    BY <1>5, <1>8 DEF IInv

\* The sessions end; the attempts go on.
LEMMA CloseInv ==
    ASSUME IInv, CloseSessions
    PROVE  IInv'
  <1> DEFINE C == Closed(SessionAttempts)
  <1>1. /\ C \in [Attempts -> Attempt]
        /\ \A a \in Attempts : /\ C[a].device = att[a].device
                               /\ (a \in SessionAttempts => C[a].at = "closed")
                               /\ (a \notin SessionAttempts => C[a] = att[a])
    BY ClosedAttempts DEF IInv
  <1>2. /\ closing' = FALSE
        /\ sessions' = [d \in Devices |-> 0] /\ att' = C
        /\ UNCHANGED <<paired, connecting, cancelled, restart, airVars, history>>
    BY DEF CloseSessions
  <1>3. watcher' \in {"off", "on", "dead"}
    BY DEF CloseSessions, StartScan
  <1> HIDE DEF C
  <1>4. \A a \in SessionAttempts : ~Live(a)
    BY Constants DEF SessionAttempts, Live, IInv, TypeOK, Tracked, SessionsOwned
  <1>5. \A a \in Attempts : Live(a)' <=> Live(a)
    BY <1>1, <1>2, <1>4, Constants DEF Live
  <1>6. \A d \in Devices : LiveFor(d)' = LiveFor(d)
    BY <1>1, <1>2, <1>5 DEF LiveFor
  <1>7. \A d \in Devices : sessions'[d] = 0
    BY <1>2
  <1>8. Tracked'
    BY <1>2, <1>6, <1>7
    DEF IInv, Tracked, SessionsOwned, LiveMarked, ConnectingHasAttempt, OneConnection, history,
        TypeOK
  <1>9. sessions' \in [Devices -> Attempts \cup {0}] /\ closing' \in BOOLEAN
    BY <1>2
  <1>10. TypeOK'
    BY <1>1, <1>2, <1>3, <1>9 DEF IInv, TypeOK, airVars, history
  <1> QED
    BY <1>8, <1>10 DEF IInv

\* A status handler sees its link go, and may remove a session: the one of its
\* own attempt, or whichever its device has.
LEMMA DisconnectedInv ==
    ASSUME IInv, NEW a \in Attempts, HandleDeviceDisconnected(a)
    PROVE  IInv'
  <1>1. PICK d \in Devices : d = att[a].device
    BY DEF IInv, TypeOK, Attempt
  <1>2. /\ notices' \subseteq Attempts
        /\ UNCHANGED <<paired, cancelled, watcher, closing, link, updates, split>>
    BY DEF HandleDeviceDisconnected, IInv, TypeOK
  <1>3. CASE ~(d \notin link /\ Removes(a))
    <2>1. /\ missed' = missed \cup {a} \/ missed' = missed
          /\ UNCHANGED <<sessions, connecting, att, restart>>
      BY <1>1, <1>3 DEF HandleDeviceDisconnected
    <2>2. missed' \subseteq Attempts
      BY <2>1 DEF IInv, TypeOK
    <2> QED
      BY <1>2, <2>1, <2>2, NothingMoved DEF IInv, TypeOK
  <1>4. CASE d \notin link /\ Removes(a)
    <2> DEFINE C == Closed({sessions[d]})
    <2>1. /\ sessions' = [sessions EXCEPT ![d] = 0]
          /\ connecting' = connecting \ {d}
          /\ att' = C /\ restart' = TRUE /\ missed' = missed
      BY <1>1, <1>4 DEF HandleDeviceDisconnected
    <2>2. /\ C \in [Attempts -> Attempt]
          /\ \A b \in Attempts : /\ C[b].device = att[b].device
                                 /\ (b = sessions[d] => C[b].at = "closed")
                                 /\ (b # sessions[d] => C[b] = att[b])
      BY ClosedAttempts DEF IInv
    <2> HIDE DEF C
    <2>3. /\ sessions[d] \in Attempts /\ ~Live(sessions[d])
          /\ att[sessions[d]].device = d
      BY <1>1, <1>4, Constants DEF Removes, Live, IInv, TypeOK, Tracked, SessionsOwned
    <2>4. \A b \in Attempts : Live(b)' <=> Live(b)
      BY <2>1, <2>2, <2>3, Constants DEF Live
    <2>5. \A e \in Devices : LiveFor(e)' = LiveFor(e)
      BY <2>1, <2>2, <2>4 DEF LiveFor
    <2>6. sessions'[d] = 0 /\ \A e \in Devices \ {d} : sessions'[e] = sessions[e]
      BY <2>1 DEF IInv, TypeOK
    <2>7. SessionsOwned'
      <3> SUFFICES ASSUME NEW e \in Devices, sessions'[e] # 0
                   PROVE  att'[sessions'[e]].at = "connected" /\ att'[sessions'[e]].device = e
        BY DEF SessionsOwned
      <3>1. e # d /\ sessions'[e] = sessions[e]
        BY <2>6
      <3>2. /\ sessions[e] \in Attempts
            /\ att[sessions[e]].at = "connected" /\ att[sessions[e]].device = e
        BY <3>1 DEF IInv, TypeOK, Tracked, SessionsOwned
      <3> QED
        BY <2>1, <2>2, <2>3, <3>1, <3>2
    <2>8. d \notin split => LiveFor(d) = {}
      BY <2>3, Constants DEF IInv, Tracked, OneConnection
    <2>9. ConnectingHasAttempt' /\ LiveMarked'
      BY <1>2, <2>1, <2>5, <2>8 DEF IInv, Tracked, ConnectingHasAttempt, LiveMarked, TypeOK
    <2>10. OneConnection'
      BY <1>2, <2>5, <2>6 DEF IInv, Tracked, OneConnection
    <2>11. restart' \in BOOLEAN
      BY <2>1
    <2>12. sessions' \in [Devices -> Attempts \cup {0}]
      BY <2>1 DEF IInv, TypeOK
    <2>13. TypeOK'
      BY <1>2, <2>1, <2>2, <2>11, <2>12 DEF IInv, TypeOK
    <2> QED
      BY <2>7, <2>9, <2>10, <2>13 DEF IInv, Tracked
  <1> QED
    BY <1>3, <1>4

\* A device is connected because it was seen, or because it was just paired.
LEMMA BeginInv ==
    ASSUME IInv, NEW d \in Devices, HandleAdvertisement(d) \/ ConnectPairedDevice(d)
    PROVE  IInv'
  <1>1. /\ paired' \subseteq Devices /\ paired \subseteq paired' /\ d \in paired'
        /\ UNCHANGED <<sessions, cancelled, uiVars, airVars, history>>
    BY DEF HandleAdvertisement, ConnectPairedDevice, IInv, TypeOK
  <1>2. CASE sessions[d] = 0 /\ d \notin connecting
    <2>1. connecting' = connecting \cup {d} /\ Begin(d)
      BY <1>2 DEF HandleAdvertisement, ConnectPairedDevice
    <2>2. Tracked' /\ att' \in [Attempts -> Attempt]
      BY <1>1, <1>2, <2>1, AttemptBegun DEF IInv, uiVars, history
    <2>3. TypeOK'
      BY <1>1, <2>1, <2>2 DEF IInv, TypeOK, uiVars, airVars, history
    <2> QED
      BY <2>2, <2>3 DEF IInv
  <1>3. CASE ~(sessions[d] = 0 /\ d \notin connecting)
    <2>1. UNCHANGED <<connecting, att>>
      BY <1>3 DEF HandleAdvertisement, ConnectPairedDevice
    <2>2. Tracked'
      BY <1>1, <2>1, StagesMoved DEF IInv, uiVars, history
    <2>3. TypeOK'
      BY <1>1, <2>1 DEF IInv, TypeOK, uiVars, airVars, history
    <2> QED
      BY <2>2, <2>3 DEF IInv
  <1> QED
    BY <1>2, <1>3

\* Every step keeps the inductive invariant.
LEMMA NextInv == IInv /\ [Next]_vars => IInv'
  <1> SUFFICES ASSUME IInv, [Next]_vars PROVE IInv'
    OBVIOUS
  <1> USE DEF mapVars, uiVars, airVars, history
  <1>1. CASE UpdatePairedDeviceIds
    BY <1>1, UpdateInv
  <1>9. CASE CloseSessions
    BY <1>9, CloseInv
  <1>2. CASE ProcessDispatchedCallbacks
    <2>1. restart' \in BOOLEAN /\ watcher' \in {"off", "on", "dead"}
      BY <1>2 DEF ProcessDispatchedCallbacks, StartScan
    <2> QED
      BY <1>2, <2>1, NothingMoved DEF ProcessDispatchedCallbacks, IInv, TypeOK
  <1>3. ASSUME NEW d \in Devices, ConnectPairedDevice(d) \/ HandleAdvertisement(d)
        PROVE  IInv'
    BY <1>3, BeginInv
  <1>4. ASSUME NEW d \in Devices, CancelPendingConnect(d)
        PROVE  IInv'
    BY <1>4, NothingMoved DEF CancelPendingConnect, IInv, TypeOK
  <1>5. ASSUME NEW d \in Devices, LinkUp(d) \/ LinkDown(d)
        PROVE  IInv'
    <2>1. link' \subseteq Devices /\ notices' \subseteq Attempts
      BY <1>5 DEF LinkUp, LinkDown, Attached, IInv, TypeOK
    <2>2. UNCHANGED <<mapVars, uiVars, att, history>>
      BY <1>5 DEF LinkUp, LinkDown
    <2> QED
      BY <2>1, <2>2, NothingMoved DEF IInv, TypeOK
  <1>6. ASSUME NEW a \in Attempts, Step(a) PROVE IInv'
    BY <1>6, StepInv
  <1>7. ASSUME NEW a \in Attempts, HandleDeviceDisconnected(a) PROVE IInv'
    BY <1>7, DisconnectedInv
  <1>8. CASE UNCHANGED vars
    BY <1>8, NothingMoved DEF vars, IInv, TypeOK
  <1> QED
    BY <1>1, <1>2, <1>3, <1>4, <1>5, <1>6, <1>7, <1>8, <1>9 DEF Next

-----------------------------------------------------------------------------
(* The theorems *)

\* The inductive invariant holds of the Bluetooth central of the Windows host.
THEOREM Invariant == Spec => []IInv
  BY InitInv, NextInv, PTL DEF Spec

\* Every variable keeps its type: a device in the maps is a known one, and a
\* session is the number of an attempt.
THEOREM TypeCorrect == Spec => []TypeOK
  <1>1. IInv => TypeOK
    BY DEF IInv
  <1> QED
    BY <1>1, Invariant, PTL

\* The maps say what is really going on (HandleAdvertisement,
\* ConnectDeviceAsync, UpdatePairedDeviceIds): an address marked as connecting
\* has an attempt, and a device whose pairing did not change under an attempt
\* has one connection, and only if it is paired.
THEOREM MapsTrackConnections == Spec => []ConnectionsTracked
  <1>1. IInv => ConnectionsTracked
    BY DEF IInv, Tracked, ConnectionsTracked
  <1> QED
    BY <1>1, Invariant, PTL
=============================================================================
