------------------------ MODULE AudioPipelineProofs ------------------------
(***************************************************************************)
(* Theorems about AudioPipeline, for every queue depth, retry limit and    *)
(* number of sessions and frames.                                          *)
(***************************************************************************)
EXTENDS AudioPipeline, TLAPS

-----------------------------------------------------------------------------
(* The transmit queue *)

\* The queue's types: what a send, a send to the front and a receive return.
LEMMA QueueTypes ==
    ASSUME NEW q \in Seq(Packet), NEW p \in Packet
    PROVE  /\ Append(q, p) \in Seq(Packet) /\ <<p>> \o q \in Seq(Packet)
           /\ <<>> \in Seq(Packet)
           /\ q # <<>> => Head(q) \in Packet /\ Tail(q) \in Seq(Packet)
  OBVIOUS

\* What xQueueSend leaves in the queue: its entries, and the new one.
LEMMA SentEntries ==
    ASSUME NEW q \in Seq(Packet), NEW p \in Packet, NEW i \in DOMAIN Append(q, p)
    PROVE  \/ i \in DOMAIN q /\ Append(q, p)[i] = q[i]
           \/ Append(q, p)[i] = p
  OBVIOUS

\* What xQueueSendToFront leaves in the queue.
LEMMA SentToFrontEntries ==
    ASSUME NEW q \in Seq(Packet), NEW p \in Packet, NEW i \in DOMAIN (<<p>> \o q)
    PROVE  \/ (<<p>> \o q)[i] = p
           \/ i - 1 \in DOMAIN q /\ (<<p>> \o q)[i] = q[i - 1]
  OBVIOUS

\* What xQueueReceive takes, and what it leaves.
LEMMA ReceivedEntries ==
    ASSUME NEW q \in Seq(Packet), q # <<>>
    PROVE  /\ 1 \in DOMAIN q /\ Head(q) = q[1]
           /\ \A i \in DOMAIN Tail(q) : i + 1 \in DOMAIN q /\ Tail(q)[i] = q[i + 1]
  OBVIOUS

LEMMA SentinelIsPacket == TypeOK => Sentinel \in Packet
  BY DEF TypeOK, DataTypes, Sentinel, Packet

-----------------------------------------------------------------------------
(* The inductive invariant *)

\* The control part of the inductive invariant: which task owns the gate, and
\* which tasks may exist while the app task is inside audio_pipeline_start.
ControlInv ==
    /\ GateExclusive
    /\ audioTask <=> audio # "none"
    /\ txTask <=> tx \notin {"none", "give"}
    /\ audio # "none" => tx \notin {"none", "clear", "give"}
    /\ app \in {"gate", "openCodec", "openOpus", "launch", "spawnAudio"} => audio = "none"
    /\ app = "spawnAudio" => tx = "recv" /\ txQueue = <<>>
    /\ chime \in {"open", "play"} => chimeHasGate

\* The codec is open for capture, or a chime without the gate closed it.
CaptureOpen == codec = "capture" \/ intruded

\* The resource part: what is open at each stage of a session and of a chime.
ResourceInv ==
    /\ tx \notin {"none", "clear", "give"} => opus /\ CaptureOpen
    /\ app = "openOpus" => CaptureOpen
    /\ app = "launch" => opus /\ CaptureOpen
    /\ chime = "play" => codec = "playback"

\* The session part: whatever is queued or in hand is of the current session,
\* and only the app task's calls put a sentinel into the queue.
SessionInv ==
    /\ OneSessionInFlight
    /\ audio \in {"push", "discard", "pushAgain"} => ~audioPkt.end
    /\ tx \in {"check", "send", "failed", "drainSend"} => ~txPkt.end
    /\ air.sid <= sessionId
    /\ sessionId < nextId

\* The cancel part: a cancelled session keeps its flag until tx_task acts on
\* it, and a running session has no sentinel and has not reached its END.
CancelInv ==
    /\ \A s \in cancelled : s <= sessionId
    /\ app \in {"wait", "gate", "openCodec", "openOpus", "launch"} => sessionId < nextId - 1
    /\ app \notin {"idle", "spawnAudio", "cancelStop"} => ~running
    /\ running => /\ \A i \in DOMAIN txQueue : ~txQueue[i].end
                  /\ tx \notin {"drain", "drainSend", "end"}
                  /\ ~(air.end /\ air.sid = sessionId)
    /\ sessionId \in cancelled /\ tx \in {"recv", "check", "send", "failed"} => cancelRequested
    /\ tx \in {"drain", "drainSend", "end"} => sessionId \notin cancelled
    /\ NoEndAfterCancel

\* tx_task has a packet in hand, audio_task one it has built, and the number that
\* no packet of the session has yet.
InHand  == tx \in {"check", "send", "failed", "drainSend"}
Built   == audio \in {"push", "discard", "pushAgain"}
NextSeq == IF audio = "count" THEN seq + 1 ELSE seq

\* The frames of a queue rise, all of them below a number, all of them above one.
Rises(q) ==
    \A i, j \in DOMAIN q : i < j /\ ~q[i].end /\ ~q[j].end => q[i].seq < q[j].seq
Below(q, n) == \A i \in DOMAIN q : ~q[i].end => q[i].seq < n
Above(q, n) == \A i \in DOMAIN q : ~q[i].end => n < q[i].seq

\* The last packet on the air is of the session tx_task still works for.
OnAir == tx # "none" /\ air.sid = sessionId

\* The order part: on the air, in tx_task's hand, in the queue and in
\* audio_task's hand, the frames of a session are numbered upwards in this order,
\* and tx_task sends nothing any more once the END is on the air.
OrderInv ==
    /\ Rises(txQueue) /\ Below(txQueue, NextSeq)
    /\ Built => audioPkt.seq = seq
    /\ InHand => txPkt.seq < NextSeq /\ Above(txQueue, txPkt.seq)
    /\ OnAir /\ ~air.end => /\ air.seq < NextSeq /\ Above(txQueue, air.seq)
                            /\ InHand => air.seq < txPkt.seq
    /\ OnAir /\ air.end => tx \in {"cleanup", "clear", "give"}

IInv == TypeOK /\ ControlInv /\ ResourceInv /\ SessionInv /\ CancelInv /\ OrderInv

-----------------------------------------------------------------------------
(* Type correctness *)

\* Flags, handles and histories stay Boolean.
LEMMA FlagTypesStep ==
    ASSUME TypeOK, [Next]_vars
    PROVE  FlagTypes'
<1> USE DEF TypeOK, FlagTypes, ControlTypes,
            vars, flags, chimeVars, session, handles, resources, audioVars, txVars,
            chimeTask, history
<1>1. CASE Start
  BY <1>1 DEF Start
<1>2. CASE StartTasksExited
  BY <1>2 DEF StartTasksExited
<1>3. CASE StartTimeout
  BY <1>3 DEF StartTimeout
<1>4. CASE StartTakeGate
  BY <1>4 DEF StartTakeGate
<1>5. CASE StartOpenCodec
  BY <1>5 DEF StartOpenCodec
<1>6. CASE StartOpenOpus
  BY <1>6 DEF StartOpenOpus
<1>7. CASE StartAbandon
  BY <1>7 DEF StartAbandon
<1>8. CASE StartLaunch
  BY <1>8 DEF StartLaunch
<1>9. CASE StartAudio
  BY <1>9 DEF StartAudio
<1>10. CASE StartAudioFails
  BY <1>10 DEF StartAudioFails
<1>11. CASE StartFailWaited
  BY <1>11 DEF StartFailWaited
<1>12. CASE Stop
  BY <1>12 DEF Stop
<1>13. CASE SendSentinel
  BY <1>13 DEF SendSentinel
<1>14. CASE Cancel
  BY <1>14 DEF Cancel
<1>15. CASE CancelStop
  BY <1>15 DEF CancelStop
<1>16. CASE CancelReset
  BY <1>16 DEF CancelReset
<1>17. CASE CancelSend
  BY <1>17 DEF CancelSend
<1>18. CASE PlayChime
  BY <1>18 DEF PlayChime
<1>19. CASE AudioLoop
  BY <1>19 DEF AudioLoop, AppAndChimeUnchanged
<1>20. CASE AudioCapture
  BY <1>20 DEF AudioCapture, AppAndChimeUnchanged
<1>21. CASE AudioReadFails
  BY <1>21 DEF AudioReadFails, AppAndChimeUnchanged
<1>22. CASE AudioPush
  BY <1>22 DEF AudioPush, AppAndChimeUnchanged
<1>23. CASE AudioDiscardOldest
  BY <1>23 DEF AudioDiscardOldest, AppAndChimeUnchanged
<1>24. CASE AudioPushAgain
  BY <1>24 DEF AudioPushAgain, AppAndChimeUnchanged
<1>25. CASE AudioCount
  BY <1>25 DEF AudioCount, AppAndChimeUnchanged
<1>26. CASE AudioExit
  BY <1>26 DEF AudioExit, AppAndChimeUnchanged
<1>27. CASE TxReceive
  BY <1>27 DEF TxReceive, TxKeeps
<1>28. CASE TxCheck
  BY <1>28 DEF TxCheck, TxKeeps
<1>29. CASE TxSend
  BY <1>29 DEF TxSend, TxKeeps
<1>30. CASE TxFailed
  BY <1>30 DEF TxFailed, TxKeeps
<1>31. CASE TxDrain
  BY <1>31 DEF TxDrain, TxKeeps
<1>32. CASE TxDrainSend
  BY <1>32 DEF TxDrainSend, TxKeeps
<1>33. CASE TxEnd
  BY <1>33 DEF TxEnd, TxKeeps
<1>34. CASE TxCancel
  BY <1>34 DEF TxCancel, TxKeeps
<1>35. CASE TxCleanup
  BY <1>35 DEF TxCleanup, TxKeeps
<1>36. CASE TxClear
  BY <1>36 DEF TxClear, TxKeeps
<1>37. CASE TxGive
  BY <1>37 DEF TxGive, TxKeeps
<1>38. CASE ChimeTakeGate
  BY <1>38 DEF ChimeTakeGate, ChimeKeeps
<1>39. CASE ChimeTimeout
  BY <1>39 DEF ChimeTimeout, ChimeKeeps
<1>40. CASE ChimeOpen
  BY <1>40 DEF ChimeOpen, ChimeKeeps
<1>41. CASE ChimePlay
  BY <1>41 DEF ChimePlay, ChimeKeeps
<1>42. CASE ChimeClose
  BY <1>42 DEF ChimeClose, ChimeKeeps
<1>43. CASE ChimeRelease
  BY <1>43 DEF ChimeRelease, ChimeKeeps
<1>44. CASE UNCHANGED vars
  BY <1>44
<1>q. QED
  BY <1>1, <1>2, <1>3, <1>4, <1>5, <1>6, <1>7, <1>8, <1>9, <1>10, <1>11, <1>12,
     <1>13, <1>14, <1>15, <1>16, <1>17, <1>18, <1>19, <1>20, <1>21, <1>22, <1>23, <1>24,
     <1>25, <1>26, <1>27, <1>28, <1>29, <1>30, <1>31, <1>32, <1>33, <1>34, <1>35, <1>36,
     <1>37, <1>38, <1>39, <1>40, <1>41, <1>42, <1>43, <1>44
  DEF Next, App, Audio, Tx, Chime

\* Packets, queue and counters keep their types.
LEMMA DataTypesStep ==
    ASSUME TypeOK, [Next]_vars
    PROVE  DataTypes'
<1> USE DEF TypeOK, DataTypes,
            vars, flags, chimeVars, session, handles, resources, audioVars, txVars,
            chimeTask, history
<1>1. CASE Start
  BY <1>1 DEF Start
<1>2. CASE StartTasksExited
  BY <1>2 DEF StartTasksExited
<1>3. CASE StartTimeout
  BY <1>3 DEF StartTimeout
<1>4. CASE StartTakeGate
  BY <1>4 DEF StartTakeGate
<1>5. CASE StartOpenCodec
  BY <1>5 DEF StartOpenCodec
<1>6. CASE StartOpenOpus
  BY <1>6 DEF StartOpenOpus
<1>7. CASE StartAbandon
  <2>1. sessionId' \in Nat /\ seq' \in Nat
    BY <1>7 DEF StartAbandon
  <2>2. txQueue' \in Seq(Packet)
    BY <1>7, QueueTypes DEF StartAbandon
  <2>q. QED
    BY <1>7, <2>1, <2>2 DEF StartAbandon
<1>8. CASE StartLaunch
  BY <1>8 DEF StartLaunch
<1>9. CASE StartAudio
  BY <1>9 DEF StartAudio
<1>10. CASE StartAudioFails
  BY <1>10 DEF StartAudioFails
<1>11. CASE StartFailWaited
  BY <1>11 DEF StartFailWaited
<1>12. CASE Stop
  BY <1>12 DEF Stop
<1>13. CASE SendSentinel
  BY <1>13, SentinelIsPacket, QueueTypes DEF SendSentinel
<1>14. CASE Cancel
  BY <1>14 DEF Cancel
<1>15. CASE CancelStop
  BY <1>15 DEF CancelStop
<1>16. CASE CancelReset
  BY <1>16 DEF CancelReset
<1>17. CASE CancelSend
  BY <1>17, SentinelIsPacket, QueueTypes DEF CancelSend
<1>18. CASE PlayChime
  BY <1>18 DEF PlayChime
<1>19. CASE AudioLoop
  BY <1>19 DEF AudioLoop, AppAndChimeUnchanged
<1>20. CASE AudioCapture
  <2>1. audioPkt' \in Packet
    BY <1>20 DEF AudioCapture, Packet
  <2>q. QED
    BY <1>20, <2>1 DEF AudioCapture, AppAndChimeUnchanged
<1>21. CASE AudioReadFails
  BY <1>21 DEF AudioReadFails, AppAndChimeUnchanged
<1>22. CASE AudioPush
  BY <1>22 DEF AudioPush, AppAndChimeUnchanged
<1>23. CASE AudioDiscardOldest
  BY <1>23 DEF AudioDiscardOldest, AppAndChimeUnchanged
<1>24. CASE AudioPushAgain
  BY <1>24 DEF AudioPushAgain, AppAndChimeUnchanged
<1>25. CASE AudioCount
  BY <1>25 DEF AudioCount, AppAndChimeUnchanged
<1>26. CASE AudioExit
  BY <1>26 DEF AudioExit, AppAndChimeUnchanged
<1>27. CASE TxReceive
  BY <1>27 DEF TxReceive, TxKeeps
<1>28. CASE TxCheck
  BY <1>28 DEF TxCheck, TxKeeps
<1>29. CASE TxSend
  BY <1>29 DEF TxSend, TxKeeps
<1>30. CASE TxFailed
  BY <1>30 DEF TxFailed, TxKeeps
<1>31. CASE TxDrain
  <2>1. CASE txQueue = <<>>
    BY <1>31, <2>1 DEF TxDrain, TxKeeps
  <2>2. CASE txQueue # <<>>
    <3>1. /\ Head(txQueue) \in Packet /\ Tail(txQueue) \in Seq(Packet)
          /\ <<>> \in Seq(Packet)
      BY <2>2, QueueTypes
    <3>2. /\ txPkt' = Head(txQueue)
          /\ txQueue' = Tail(txQueue) \/ txQueue' = <<>>
          /\ retries' = 0 \/ retries' = retries
      BY <1>31, <2>2 DEF TxDrain
    <3>3. txPkt' \in Packet /\ txQueue' \in Seq(Packet) /\ retries' \in Nat
      <4>1. txPkt' \in Packet
        BY <3>1, <3>2
      <4>2. txQueue' \in Seq(Packet)
        BY <3>1, <3>2, Zenon
      <4>3. retries' \in Nat
        BY <3>2
      <4>q. QED
        BY <4>1, <4>2, <4>3
    <3>4. TxKeeps /\ air' = air
      BY <1>31 DEF TxDrain
    <3>q. QED
      BY <3>3, <3>4 DEF TxKeeps
  <2>q. QED
    BY <2>1, <2>2
<1>32. CASE TxDrainSend
  BY <1>32 DEF TxDrainSend, TxKeeps
<1>33. CASE TxEnd
  <2>1. [sid |-> sessionId, seq |-> seq, end |-> TRUE] \in Packet
    BY DEF Packet
  <2>q. QED
    BY <1>33, <2>1 DEF TxEnd, TxKeeps
<1>34. CASE TxCancel
  BY <1>34 DEF TxCancel, TxKeeps
<1>35. CASE TxCleanup
  BY <1>35 DEF TxCleanup, TxKeeps
<1>36. CASE TxClear
  BY <1>36 DEF TxClear, TxKeeps
<1>37. CASE TxGive
  BY <1>37 DEF TxGive, TxKeeps
<1>38. CASE ChimeTakeGate
  BY <1>38 DEF ChimeTakeGate, ChimeKeeps
<1>39. CASE ChimeTimeout
  BY <1>39 DEF ChimeTimeout, ChimeKeeps
<1>40. CASE ChimeOpen
  BY <1>40 DEF ChimeOpen, ChimeKeeps
<1>41. CASE ChimePlay
  BY <1>41 DEF ChimePlay, ChimeKeeps
<1>42. CASE ChimeClose
  BY <1>42 DEF ChimeClose, ChimeKeeps
<1>43. CASE ChimeRelease
  BY <1>43 DEF ChimeRelease, ChimeKeeps
<1>44. CASE UNCHANGED vars
  BY <1>44
<1>q. QED
  BY <1>1, <1>2, <1>3, <1>4, <1>5, <1>6, <1>7, <1>8, <1>9, <1>10, <1>11, <1>12,
     <1>13, <1>14, <1>15, <1>16, <1>17, <1>18, <1>19, <1>20, <1>21, <1>22, <1>23, <1>24,
     <1>25, <1>26, <1>27, <1>28, <1>29, <1>30, <1>31, <1>32, <1>33, <1>34, <1>35, <1>36,
     <1>37, <1>38, <1>39, <1>40, <1>41, <1>42, <1>43, <1>44
  DEF Next, App, Audio, Tx, Chime

\* The program counters and the codec keep their types.
LEMMA ControlTypesStep ==
    ASSUME TypeOK, [Next]_vars
    PROVE  ControlTypes'
<1> USE DEF TypeOK, ControlTypes,
            vars, flags, chimeVars, session, handles, resources, audioVars, txVars,
            chimeTask, history
<1>1. CASE Start
  BY <1>1 DEF Start
<1>2. CASE StartTasksExited
  BY <1>2 DEF StartTasksExited
<1>3. CASE StartTimeout
  BY <1>3 DEF StartTimeout
<1>4. CASE StartTakeGate
  BY <1>4 DEF StartTakeGate
<1>5. CASE StartOpenCodec
  BY <1>5 DEF StartOpenCodec
<1>6. CASE StartOpenOpus
  BY <1>6 DEF StartOpenOpus
<1>7. CASE StartAbandon
  BY <1>7 DEF StartAbandon
<1>8. CASE StartLaunch
  BY <1>8 DEF StartLaunch
<1>9. CASE StartAudio
  BY <1>9 DEF StartAudio
<1>10. CASE StartAudioFails
  BY <1>10 DEF StartAudioFails
<1>11. CASE StartFailWaited
  BY <1>11 DEF StartFailWaited
<1>12. CASE Stop
  BY <1>12 DEF Stop
<1>13. CASE SendSentinel
  BY <1>13 DEF SendSentinel
<1>14. CASE Cancel
  BY <1>14 DEF Cancel
<1>15. CASE CancelStop
  BY <1>15 DEF CancelStop
<1>16. CASE CancelReset
  BY <1>16 DEF CancelReset
<1>17. CASE CancelSend
  BY <1>17 DEF CancelSend
<1>18. CASE PlayChime
  BY <1>18 DEF PlayChime
<1>19. CASE AudioLoop
  BY <1>19 DEF AudioLoop, AppAndChimeUnchanged
<1>20. CASE AudioCapture
  BY <1>20 DEF AudioCapture, AppAndChimeUnchanged
<1>21. CASE AudioReadFails
  BY <1>21 DEF AudioReadFails, AppAndChimeUnchanged
<1>22. CASE AudioPush
  BY <1>22 DEF AudioPush, AppAndChimeUnchanged
<1>23. CASE AudioDiscardOldest
  BY <1>23 DEF AudioDiscardOldest, AppAndChimeUnchanged
<1>24. CASE AudioPushAgain
  BY <1>24 DEF AudioPushAgain, AppAndChimeUnchanged
<1>25. CASE AudioCount
  BY <1>25 DEF AudioCount, AppAndChimeUnchanged
<1>26. CASE AudioExit
  BY <1>26 DEF AudioExit, AppAndChimeUnchanged
<1>27. CASE TxReceive
  BY <1>27 DEF TxReceive, TxKeeps
<1>28. CASE TxCheck
  BY <1>28 DEF TxCheck, TxKeeps
<1>29. CASE TxSend
  BY <1>29 DEF TxSend, TxKeeps
<1>30. CASE TxFailed
  BY <1>30 DEF TxFailed, TxKeeps
<1>31. CASE TxDrain
  BY <1>31 DEF TxDrain, TxKeeps
<1>32. CASE TxDrainSend
  BY <1>32 DEF TxDrainSend, TxKeeps
<1>33. CASE TxEnd
  BY <1>33 DEF TxEnd, TxKeeps
<1>34. CASE TxCancel
  BY <1>34 DEF TxCancel, TxKeeps
<1>35. CASE TxCleanup
  BY <1>35 DEF TxCleanup, TxKeeps
<1>36. CASE TxClear
  BY <1>36 DEF TxClear, TxKeeps
<1>37. CASE TxGive
  BY <1>37 DEF TxGive, TxKeeps
<1>38. CASE ChimeTakeGate
  BY <1>38 DEF ChimeTakeGate, ChimeKeeps
<1>39. CASE ChimeTimeout
  BY <1>39 DEF ChimeTimeout, ChimeKeeps
<1>40. CASE ChimeOpen
  BY <1>40 DEF ChimeOpen, ChimeKeeps
<1>41. CASE ChimePlay
  BY <1>41 DEF ChimePlay, ChimeKeeps
<1>42. CASE ChimeClose
  BY <1>42 DEF ChimeClose, ChimeKeeps
<1>43. CASE ChimeRelease
  BY <1>43 DEF ChimeRelease, ChimeKeeps
<1>44. CASE UNCHANGED vars
  BY <1>44
<1>q. QED
  BY <1>1, <1>2, <1>3, <1>4, <1>5, <1>6, <1>7, <1>8, <1>9, <1>10, <1>11, <1>12,
     <1>13, <1>14, <1>15, <1>16, <1>17, <1>18, <1>19, <1>20, <1>21, <1>22, <1>23, <1>24,
     <1>25, <1>26, <1>27, <1>28, <1>29, <1>30, <1>31, <1>32, <1>33, <1>34, <1>35, <1>36,
     <1>37, <1>38, <1>39, <1>40, <1>41, <1>42, <1>43, <1>44
  DEF Next, App, Audio, Tx, Chime

\* Every variable keeps its type in every behaviour of the pipeline.
THEOREM TypeCorrect == Spec => []TypeOK
<1>1. Init => TypeOK
  <2> SUFFICES ASSUME Init PROVE TypeOK
    OBVIOUS
  <2>1. FlagTypes
    BY DEF Init, FlagTypes
  <2>2. DataTypes
    BY DEF Init, DataTypes, NoPacket, Packet
  <2>3. ControlTypes
    BY DEF Init, ControlTypes
  <2>q. QED
    BY <2>1, <2>2, <2>3 DEF TypeOK
<1>2. TypeOK /\ [Next]_vars => TypeOK'
  BY FlagTypesStep, DataTypesStep, ControlTypesStep DEF TypeOK
<1>q. QED
  BY <1>1, <1>2, PTL DEF Spec

-----------------------------------------------------------------------------
(* The steps of the inductive invariant *)

\* The control part is inductive.
LEMMA ControlInvStep ==
    ASSUME TypeOK, ControlInv, [Next]_vars
    PROVE  ControlInv'
<1> USE DEF TypeOK, FlagTypes, ControlTypes, ControlInv, GateExclusive,
            AppOwns, TxOwns, ChimeOwns,
            vars, flags, chimeVars, session, handles, resources, audioVars, txVars,
            chimeTask, history
<1>1. CASE Start
  BY <1>1 DEF Start
<1>2. CASE StartTasksExited
  BY <1>2 DEF StartTasksExited
<1>3. CASE StartTimeout
  BY <1>3 DEF StartTimeout
<1>4. CASE StartTakeGate
  BY <1>4 DEF StartTakeGate
<1>5. CASE StartOpenCodec
  BY <1>5 DEF StartOpenCodec
<1>6. CASE StartOpenOpus
  BY <1>6 DEF StartOpenOpus
<1>7. CASE StartAbandon
  BY <1>7 DEF StartAbandon
<1>8. CASE StartLaunch
  BY <1>8 DEF StartLaunch
<1>9. CASE StartAudio
  BY <1>9 DEF StartAudio
<1>10. CASE StartAudioFails
  BY <1>10 DEF StartAudioFails
<1>11. CASE StartFailWaited
  BY <1>11 DEF StartFailWaited
<1>12. CASE Stop
  BY <1>12 DEF Stop
<1>13. CASE SendSentinel
  BY <1>13 DEF SendSentinel
<1>14. CASE Cancel
  BY <1>14 DEF Cancel
<1>15. CASE CancelStop
  BY <1>15 DEF CancelStop
<1>16. CASE CancelReset
  BY <1>16 DEF CancelReset
<1>17. CASE CancelSend
  BY <1>17 DEF CancelSend
<1>18. CASE PlayChime
  BY <1>18 DEF PlayChime
<1>19. CASE AudioLoop
  BY <1>19 DEF AudioLoop, AppAndChimeUnchanged
<1>20. CASE AudioCapture
  BY <1>20 DEF AudioCapture, AppAndChimeUnchanged
<1>21. CASE AudioReadFails
  BY <1>21 DEF AudioReadFails, AppAndChimeUnchanged
<1>22. CASE AudioPush
  BY <1>22 DEF AudioPush, AppAndChimeUnchanged
<1>23. CASE AudioDiscardOldest
  BY <1>23 DEF AudioDiscardOldest, AppAndChimeUnchanged
<1>24. CASE AudioPushAgain
  BY <1>24 DEF AudioPushAgain, AppAndChimeUnchanged
<1>25. CASE AudioCount
  BY <1>25 DEF AudioCount, AppAndChimeUnchanged
<1>26. CASE AudioExit
  BY <1>26 DEF AudioExit, AppAndChimeUnchanged
<1>27. CASE TxReceive
  BY <1>27 DEF TxReceive, TxKeeps
<1>28. CASE TxCheck
  BY <1>28 DEF TxCheck, TxKeeps
<1>29. CASE TxSend
  BY <1>29 DEF TxSend, TxKeeps
<1>30. CASE TxFailed
  BY <1>30 DEF TxFailed, TxKeeps
<1>31. CASE TxDrain
  BY <1>31 DEF TxDrain, TxKeeps
<1>32. CASE TxDrainSend
  BY <1>32 DEF TxDrainSend, TxKeeps
<1>33. CASE TxEnd
  BY <1>33 DEF TxEnd, TxKeeps
<1>34. CASE TxCancel
  BY <1>34 DEF TxCancel, TxKeeps
<1>35. CASE TxCleanup
  BY <1>35 DEF TxCleanup, TxKeeps
<1>36. CASE TxClear
  BY <1>36 DEF TxClear, TxKeeps
<1>37. CASE TxGive
  BY <1>37 DEF TxGive, TxKeeps
<1>38. CASE ChimeTakeGate
  BY <1>38 DEF ChimeTakeGate, ChimeKeeps
<1>39. CASE ChimeTimeout
  BY <1>39 DEF ChimeTimeout, ChimeKeeps
<1>40. CASE ChimeOpen
  BY <1>40 DEF ChimeOpen, ChimeKeeps
<1>41. CASE ChimePlay
  BY <1>41 DEF ChimePlay, ChimeKeeps
<1>42. CASE ChimeClose
  BY <1>42 DEF ChimeClose, ChimeKeeps
<1>43. CASE ChimeRelease
  BY <1>43 DEF ChimeRelease, ChimeKeeps
<1>44. CASE UNCHANGED vars
  BY <1>44
<1>q. QED
  BY <1>1, <1>2, <1>3, <1>4, <1>5, <1>6, <1>7, <1>8, <1>9, <1>10, <1>11, <1>12,
     <1>13, <1>14, <1>15, <1>16, <1>17, <1>18, <1>19, <1>20, <1>21, <1>22, <1>23, <1>24,
     <1>25, <1>26, <1>27, <1>28, <1>29, <1>30, <1>31, <1>32, <1>33, <1>34, <1>35, <1>36,
     <1>37, <1>38, <1>39, <1>40, <1>41, <1>42, <1>43, <1>44
  DEF Next, App, Audio, Tx, Chime

\* The resource part is preserved, given the control part.
LEMMA ResourceInvStep ==
    ASSUME TypeOK, ControlInv, ResourceInv, [Next]_vars
    PROVE  ResourceInv'
<1> USE DEF TypeOK, FlagTypes, ControlTypes, ResourceInv, CaptureOpen,
            ControlInv, GateExclusive, AppOwns, TxOwns, ChimeOwns,
            vars, flags, chimeVars, session, handles, resources, audioVars, txVars,
            chimeTask, history
<1>1. CASE Start
  BY <1>1 DEF Start
<1>2. CASE StartTasksExited
  BY <1>2 DEF StartTasksExited
<1>3. CASE StartTimeout
  BY <1>3 DEF StartTimeout
<1>4. CASE StartTakeGate
  BY <1>4 DEF StartTakeGate
<1>5. CASE StartOpenCodec
  BY <1>5 DEF StartOpenCodec
<1>6. CASE StartOpenOpus
  BY <1>6 DEF StartOpenOpus
<1>7. CASE StartAbandon
  BY <1>7 DEF StartAbandon
<1>8. CASE StartLaunch
  BY <1>8 DEF StartLaunch
<1>9. CASE StartAudio
  BY <1>9 DEF StartAudio
<1>10. CASE StartAudioFails
  BY <1>10 DEF StartAudioFails
<1>11. CASE StartFailWaited
  BY <1>11 DEF StartFailWaited
<1>12. CASE Stop
  BY <1>12 DEF Stop
<1>13. CASE SendSentinel
  BY <1>13 DEF SendSentinel
<1>14. CASE Cancel
  BY <1>14 DEF Cancel
<1>15. CASE CancelStop
  BY <1>15 DEF CancelStop
<1>16. CASE CancelReset
  BY <1>16 DEF CancelReset
<1>17. CASE CancelSend
  BY <1>17 DEF CancelSend
<1>18. CASE PlayChime
  BY <1>18 DEF PlayChime
<1>19. CASE AudioLoop
  BY <1>19 DEF AudioLoop, AppAndChimeUnchanged
<1>20. CASE AudioCapture
  BY <1>20 DEF AudioCapture, AppAndChimeUnchanged
<1>21. CASE AudioReadFails
  BY <1>21 DEF AudioReadFails, AppAndChimeUnchanged
<1>22. CASE AudioPush
  BY <1>22 DEF AudioPush, AppAndChimeUnchanged
<1>23. CASE AudioDiscardOldest
  BY <1>23 DEF AudioDiscardOldest, AppAndChimeUnchanged
<1>24. CASE AudioPushAgain
  BY <1>24 DEF AudioPushAgain, AppAndChimeUnchanged
<1>25. CASE AudioCount
  BY <1>25 DEF AudioCount, AppAndChimeUnchanged
<1>26. CASE AudioExit
  BY <1>26 DEF AudioExit, AppAndChimeUnchanged
<1>27. CASE TxReceive
  BY <1>27 DEF TxReceive, TxKeeps
<1>28. CASE TxCheck
  BY <1>28 DEF TxCheck, TxKeeps
<1>29. CASE TxSend
  BY <1>29 DEF TxSend, TxKeeps
<1>30. CASE TxFailed
  BY <1>30 DEF TxFailed, TxKeeps
<1>31. CASE TxDrain
  BY <1>31 DEF TxDrain, TxKeeps
<1>32. CASE TxDrainSend
  BY <1>32 DEF TxDrainSend, TxKeeps
<1>33. CASE TxEnd
  BY <1>33 DEF TxEnd, TxKeeps
<1>34. CASE TxCancel
  BY <1>34 DEF TxCancel, TxKeeps
<1>35. CASE TxCleanup
  BY <1>35 DEF TxCleanup, TxKeeps
<1>36. CASE TxClear
  BY <1>36 DEF TxClear, TxKeeps
<1>37. CASE TxGive
  BY <1>37 DEF TxGive, TxKeeps
<1>38. CASE ChimeTakeGate
  BY <1>38 DEF ChimeTakeGate, ChimeKeeps
<1>39. CASE ChimeTimeout
  BY <1>39 DEF ChimeTimeout, ChimeKeeps
<1>40. CASE ChimeOpen
  BY <1>40 DEF ChimeOpen, ChimeKeeps
<1>41. CASE ChimePlay
  BY <1>41 DEF ChimePlay, ChimeKeeps
<1>42. CASE ChimeClose
  BY <1>42 DEF ChimeClose, ChimeKeeps
<1>43. CASE ChimeRelease
  BY <1>43 DEF ChimeRelease, ChimeKeeps
<1>44. CASE UNCHANGED vars
  BY <1>44
<1>q. QED
  BY <1>1, <1>2, <1>3, <1>4, <1>5, <1>6, <1>7, <1>8, <1>9, <1>10, <1>11, <1>12,
     <1>13, <1>14, <1>15, <1>16, <1>17, <1>18, <1>19, <1>20, <1>21, <1>22, <1>23, <1>24,
     <1>25, <1>26, <1>27, <1>28, <1>29, <1>30, <1>31, <1>32, <1>33, <1>34, <1>35, <1>36,
     <1>37, <1>38, <1>39, <1>40, <1>41, <1>42, <1>43, <1>44
  DEF Next, App, Audio, Tx, Chime

\* The session part is preserved: queue entries are looked at one by one.
LEMMA SessionInvStep ==
    ASSUME TypeOK, ControlInv, SessionInv, CancelInv, [Next]_vars
    PROVE  SessionInv'
<1> USE DEF TypeOK, FlagTypes, DataTypes, ControlTypes, Packet,
            SessionInv, OneSessionInFlight, CancelInv, ControlInv, GateExclusive,
            AppOwns, TxOwns, ChimeOwns,
            vars, flags, chimeVars, session, handles, resources, audioVars, txVars,
            chimeTask, history
<1>1. CASE Start
  BY <1>1 DEF Start
<1>2. CASE StartTasksExited
  BY <1>2 DEF StartTasksExited
<1>3. CASE StartTimeout
  BY <1>3 DEF StartTimeout
<1>4. CASE StartTakeGate
  BY <1>4 DEF StartTakeGate
<1>5. CASE StartOpenCodec
  BY <1>5 DEF StartOpenCodec
<1>6. CASE StartOpenOpus
  BY <1>6 DEF StartOpenOpus
<1>7. CASE StartAbandon
  <2>1. CASE app = "launch"
    BY <1>7, <2>1 DEF StartAbandon
  <2>2. CASE app # "launch"
    BY <1>7, <2>2 DEF StartAbandon
  <2>q. QED
    BY <2>1, <2>2
<1>8. CASE StartLaunch
  BY <1>8 DEF StartLaunch
<1>9. CASE StartAudio
  BY <1>9 DEF StartAudio
<1>10. CASE StartAudioFails
  BY <1>10 DEF StartAudioFails
<1>11. CASE StartFailWaited
  BY <1>11 DEF StartFailWaited
<1>12. CASE Stop
  BY <1>12 DEF Stop
<1>13. CASE SendSentinel
  <2>1. \A i \in DOMAIN txQueue' : txQueue'[i].sid = sessionId
    BY <1>13, SentinelIsPacket, SentEntries DEF SendSentinel, Sentinel
  <2>q. QED
    BY <1>13, <2>1 DEF SendSentinel
<1>14. CASE Cancel
  BY <1>14 DEF Cancel
<1>15. CASE CancelStop
  BY <1>15 DEF CancelStop
<1>16. CASE CancelReset
  BY <1>16 DEF CancelReset
<1>17. CASE CancelSend
  <2>1. CASE Full
    BY <1>17, <2>1 DEF CancelSend
  <2>2. CASE ~Full
    <3>1. txQueue' = <<Sentinel>> \o txQueue
      BY <1>17, <2>2 DEF CancelSend
    <3>2. ASSUME NEW i \in DOMAIN txQueue' PROVE txQueue'[i].sid = sessionId
      <4>1. \/ txQueue'[i] = Sentinel
            \/ i - 1 \in DOMAIN txQueue /\ txQueue'[i] = txQueue[i - 1]
        BY <3>1, SentinelIsPacket, SentToFrontEntries
      <4>q. QED
        BY <4>1 DEF Sentinel
    <3>q. QED
      BY <1>17, <3>2 DEF CancelSend
  <2>q. QED
    BY <2>1, <2>2
<1>18. CASE PlayChime
  BY <1>18 DEF PlayChime
<1>19. CASE AudioLoop
  BY <1>19 DEF AudioLoop, AppAndChimeUnchanged
<1>20. CASE AudioCapture
  BY <1>20 DEF AudioCapture, AppAndChimeUnchanged
<1>21. CASE AudioReadFails
  BY <1>21 DEF AudioReadFails, AppAndChimeUnchanged
<1>22. CASE AudioPush
  <2>1. \A i \in DOMAIN txQueue' : txQueue'[i].sid = sessionId
    BY <1>22, SentEntries DEF AudioPush
  <2>q. QED
    BY <1>22, <2>1 DEF AudioPush, AppAndChimeUnchanged
<1>23. CASE AudioDiscardOldest
  <2>1. CASE txQueue = <<>>
    BY <1>23, <2>1 DEF AudioDiscardOldest, AppAndChimeUnchanged
  <2>2. CASE txQueue # <<>>
    <3>1. txQueue' = Tail(txQueue)
      BY <1>23, <2>2 DEF AudioDiscardOldest
    <3>2. \A i \in DOMAIN txQueue' : txQueue'[i].sid = sessionId
      BY <1>23, <2>2, <3>1, ReceivedEntries DEF AudioDiscardOldest, AppAndChimeUnchanged
    <3>q. QED
      BY <1>23, <3>2 DEF AudioDiscardOldest, AppAndChimeUnchanged
  <2>q. QED
    BY <2>1, <2>2
<1>24. CASE AudioPushAgain
  BY <1>24 DEF AudioPushAgain, AppAndChimeUnchanged
<1>25. CASE AudioCount
  BY <1>25 DEF AudioCount, AppAndChimeUnchanged
<1>26. CASE AudioExit
  BY <1>26 DEF AudioExit, AppAndChimeUnchanged
<1>27. CASE TxReceive
  <2>1. /\ txPkt'.sid = sessionId
        /\ \A i \in DOMAIN txQueue' : txQueue'[i].sid = sessionId
    BY <1>27, ReceivedEntries DEF TxReceive
  <2>q. QED
    BY <1>27, <2>1 DEF TxReceive, TxKeeps
<1>28. CASE TxCheck
  BY <1>28 DEF TxCheck, TxKeeps
<1>29. CASE TxSend
  BY <1>29 DEF TxSend, TxKeeps
<1>30. CASE TxFailed
  BY <1>30 DEF TxFailed, TxKeeps
<1>31. CASE TxDrain
  <2>1. CASE txQueue = <<>>
    BY <1>31, <2>1 DEF TxDrain, TxKeeps
  <2>2. CASE txQueue # <<>>
    <3>1. txPkt' = Head(txQueue) /\ txQueue' \in {Tail(txQueue), <<>>}
      BY <1>31, <2>2 DEF TxDrain
    <3>2. /\ txPkt'.sid = sessionId
          /\ \A i \in DOMAIN txQueue' : txQueue'[i].sid = sessionId
      <4>1. 1 \in DOMAIN txQueue /\ Head(txQueue) = txQueue[1]
        BY <2>2, ReceivedEntries
      <4>2. \A i \in DOMAIN Tail(txQueue) : Tail(txQueue)[i].sid = sessionId
        BY <2>2, ReceivedEntries
      <4>3. CASE txQueue' = Tail(txQueue)
        BY <3>1, <4>1, <4>2, <4>3
      <4>4. CASE txQueue' = <<>>
        BY <3>1, <4>1, <4>4
      <4>q. QED
        BY <3>1, <4>3, <4>4
    <3>q. QED
      BY <1>31, <2>2, <3>2 DEF TxDrain, TxKeeps
  <2>q. QED
    BY <2>1, <2>2
<1>32. CASE TxDrainSend
  BY <1>32 DEF TxDrainSend, TxKeeps
<1>33. CASE TxEnd
  BY <1>33 DEF TxEnd, TxKeeps
<1>34. CASE TxCancel
  BY <1>34 DEF TxCancel, TxKeeps
<1>35. CASE TxCleanup
  BY <1>35 DEF TxCleanup, TxKeeps
<1>36. CASE TxClear
  BY <1>36 DEF TxClear, TxKeeps
<1>37. CASE TxGive
  BY <1>37 DEF TxGive, TxKeeps
<1>38. CASE ChimeTakeGate
  BY <1>38 DEF ChimeTakeGate, ChimeKeeps
<1>39. CASE ChimeTimeout
  BY <1>39 DEF ChimeTimeout, ChimeKeeps
<1>40. CASE ChimeOpen
  BY <1>40 DEF ChimeOpen, ChimeKeeps
<1>41. CASE ChimePlay
  BY <1>41 DEF ChimePlay, ChimeKeeps
<1>42. CASE ChimeClose
  BY <1>42 DEF ChimeClose, ChimeKeeps
<1>43. CASE ChimeRelease
  BY <1>43 DEF ChimeRelease, ChimeKeeps
<1>44. CASE UNCHANGED vars
  BY <1>44
<1>q. QED
  BY <1>1, <1>2, <1>3, <1>4, <1>5, <1>6, <1>7, <1>8, <1>9, <1>10, <1>11, <1>12,
     <1>13, <1>14, <1>15, <1>16, <1>17, <1>18, <1>19, <1>20, <1>21, <1>22, <1>23, <1>24,
     <1>25, <1>26, <1>27, <1>28, <1>29, <1>30, <1>31, <1>32, <1>33, <1>34, <1>35, <1>36,
     <1>37, <1>38, <1>39, <1>40, <1>41, <1>42, <1>43, <1>44
  DEF Next, App, Audio, Tx, Chime

\* The cancel part is preserved.
LEMMA CancelInvStep ==
    ASSUME TypeOK, ControlInv, SessionInv, CancelInv, [Next]_vars
    PROVE  CancelInv'
<1> USE DEF TypeOK, FlagTypes, DataTypes, ControlTypes, Packet,
            CancelInv, NoEndAfterCancel, SessionInv, OneSessionInFlight, ControlInv,
            GateExclusive, AppOwns, TxOwns, ChimeOwns,
            vars, flags, chimeVars, session, handles, resources, audioVars, txVars,
            chimeTask, history
<1>1. CASE Start
  BY <1>1 DEF Start
<1>2. CASE StartTasksExited
  BY <1>2 DEF StartTasksExited
<1>3. CASE StartTimeout
  BY <1>3 DEF StartTimeout
<1>4. CASE StartTakeGate
  BY <1>4 DEF StartTakeGate
<1>5. CASE StartOpenCodec
  BY <1>5 DEF StartOpenCodec
<1>6. CASE StartOpenOpus
  BY <1>6 DEF StartOpenOpus
<1>7. CASE StartAbandon
  BY <1>7 DEF StartAbandon
<1>8. CASE StartLaunch
  BY <1>8 DEF StartLaunch
<1>9. CASE StartAudio
  BY <1>9 DEF StartAudio
<1>10. CASE StartAudioFails
  BY <1>10 DEF StartAudioFails
<1>11. CASE StartFailWaited
  BY <1>11 DEF StartFailWaited
<1>12. CASE Stop
  BY <1>12 DEF Stop
<1>13. CASE SendSentinel
  BY <1>13 DEF SendSentinel
<1>14. CASE Cancel
  BY <1>14 DEF Cancel
<1>15. CASE CancelStop
  BY <1>15 DEF CancelStop
<1>16. CASE CancelReset
  BY <1>16 DEF CancelReset
<1>17. CASE CancelSend
  BY <1>17 DEF CancelSend
<1>18. CASE PlayChime
  BY <1>18 DEF PlayChime
<1>19. CASE AudioLoop
  BY <1>19 DEF AudioLoop, AppAndChimeUnchanged
<1>20. CASE AudioCapture
  BY <1>20 DEF AudioCapture, AppAndChimeUnchanged
<1>21. CASE AudioReadFails
  BY <1>21 DEF AudioReadFails, AppAndChimeUnchanged
<1>22. CASE AudioPush
  <2>1. running => \A i \in DOMAIN txQueue' : ~txQueue'[i].end
    BY <1>22, SentEntries DEF AudioPush
  <2>q. QED
    BY <1>22, <2>1 DEF AudioPush, AppAndChimeUnchanged
<1>23. CASE AudioDiscardOldest
  <2>1. CASE txQueue = <<>>
    BY <1>23, <2>1 DEF AudioDiscardOldest, AppAndChimeUnchanged
  <2>2. CASE txQueue # <<>>
    <3>1. txQueue' = Tail(txQueue)
      BY <1>23, <2>2 DEF AudioDiscardOldest
    <3>2. running => \A i \in DOMAIN txQueue' : ~txQueue'[i].end
      BY <1>23, <2>2, <3>1, ReceivedEntries DEF AudioDiscardOldest, AppAndChimeUnchanged
    <3>q. QED
      BY <1>23, <3>2 DEF AudioDiscardOldest, AppAndChimeUnchanged
  <2>q. QED
    BY <2>1, <2>2
<1>24. CASE AudioPushAgain
  BY <1>24 DEF AudioPushAgain, AppAndChimeUnchanged
<1>25. CASE AudioCount
  BY <1>25 DEF AudioCount, AppAndChimeUnchanged
<1>26. CASE AudioExit
  BY <1>26 DEF AudioExit, AppAndChimeUnchanged
<1>27. CASE TxReceive
  <2>1. running => /\ ~Head(txQueue).end
                   /\ \A i \in DOMAIN txQueue' : ~txQueue'[i].end
    BY <1>27, ReceivedEntries DEF TxReceive, TxKeeps
  <2>q. QED
    BY <1>27, <2>1 DEF TxReceive, TxKeeps
<1>28. CASE TxCheck
  BY <1>28 DEF TxCheck, TxKeeps
<1>29. CASE TxSend
  BY <1>29 DEF TxSend, TxKeeps
<1>30. CASE TxFailed
  BY <1>30 DEF TxFailed, TxKeeps
<1>31. CASE TxDrain
  BY <1>31 DEF TxDrain, TxKeeps
<1>32. CASE TxDrainSend
  BY <1>32 DEF TxDrainSend, TxKeeps
<1>33. CASE TxEnd
  BY <1>33 DEF TxEnd, TxKeeps
<1>34. CASE TxCancel
  BY <1>34 DEF TxCancel, TxKeeps
<1>35. CASE TxCleanup
  BY <1>35 DEF TxCleanup, TxKeeps
<1>36. CASE TxClear
  BY <1>36 DEF TxClear, TxKeeps
<1>37. CASE TxGive
  BY <1>37 DEF TxGive, TxKeeps
<1>38. CASE ChimeTakeGate
  BY <1>38 DEF ChimeTakeGate, ChimeKeeps
<1>39. CASE ChimeTimeout
  BY <1>39 DEF ChimeTimeout, ChimeKeeps
<1>40. CASE ChimeOpen
  BY <1>40 DEF ChimeOpen, ChimeKeeps
<1>41. CASE ChimePlay
  BY <1>41 DEF ChimePlay, ChimeKeeps
<1>42. CASE ChimeClose
  BY <1>42 DEF ChimeClose, ChimeKeeps
<1>43. CASE ChimeRelease
  BY <1>43 DEF ChimeRelease, ChimeKeeps
<1>44. CASE UNCHANGED vars
  BY <1>44
<1>q. QED
  BY <1>1, <1>2, <1>3, <1>4, <1>5, <1>6, <1>7, <1>8, <1>9, <1>10, <1>11, <1>12,
     <1>13, <1>14, <1>15, <1>16, <1>17, <1>18, <1>19, <1>20, <1>21, <1>22, <1>23, <1>24,
     <1>25, <1>26, <1>27, <1>28, <1>29, <1>30, <1>31, <1>32, <1>33, <1>34, <1>35, <1>36,
     <1>37, <1>38, <1>39, <1>40, <1>41, <1>42, <1>43, <1>44
  DEF Next, App, Audio, Tx, Chime

-----------------------------------------------------------------------------
(* The order of the frames *)

\* A queue whose frames are in order stays so when something is taken from its
\* front, or emptied.
LEMMA OrderTaken ==
    ASSUME NEW q \in Seq(Packet), q # <<>>
    PROVE  /\ Rises(q) => Rises(Tail(q))
           /\ Rises(q) /\ ~Head(q).end => Above(Tail(q), Head(q).seq)
           /\ \A n \in Nat : Below(q, n) => /\ Below(Tail(q), n)
                                            /\ ~Head(q).end => Head(q).seq < n
           /\ \A n \in Nat : Above(q, n) => /\ Above(Tail(q), n)
                                            /\ ~Head(q).end => n < Head(q).seq
<1>1. /\ 1 \in DOMAIN q /\ Head(q) = q[1]
      /\ \A i \in DOMAIN Tail(q) : i + 1 \in DOMAIN q /\ Tail(q)[i] = q[i + 1]
  BY ReceivedEntries
<1>2. \A i \in DOMAIN Tail(q) : i \in Nat /\ 1 < i + 1
  OBVIOUS
<1>3. Rises(q) => Rises(Tail(q))
  BY <1>1, <1>2 DEF Rises
<1>4. Rises(q) /\ ~Head(q).end => Above(Tail(q), Head(q).seq)
  BY <1>1, <1>2 DEF Rises, Above
<1>5. \A n \in Nat : Below(q, n) => /\ Below(Tail(q), n)
                                    /\ ~Head(q).end => Head(q).seq < n
  BY <1>1 DEF Below
<1>6. \A n \in Nat : Above(q, n) => /\ Above(Tail(q), n)
                                    /\ ~Head(q).end => n < Head(q).seq
  BY <1>1 DEF Above
<1>q. QED
  BY <1>3, <1>4, <1>5, <1>6

\* Nothing is out of order in an empty queue.
LEMMA OrderEmpty ==
    /\ Rises(<<>>)
    /\ \A n \in Nat : Below(<<>>, n) /\ Above(<<>>, n)
  BY DEF Rises, Below, Above

\* A frame numbered above those of the queue may be put behind them.
LEMMA OrderSent ==
    ASSUME NEW q \in Seq(Packet), NEW p \in Packet, Rises(q)
    PROVE  /\ p.end \/ Below(q, p.seq) => Rises(Append(q, p))
           /\ \A n \in Nat : Below(q, n) /\ (p.end \/ p.seq < n) => Below(Append(q, p), n)
           /\ \A n \in Nat : Above(q, n) /\ (p.end \/ n < p.seq) => Above(Append(q, p), n)
<1>1. \A i \in DOMAIN Append(q, p) : \/ i \in DOMAIN q /\ Append(q, p)[i] = q[i]
                                     \/ i = Len(q) + 1 /\ Append(q, p)[i] = p
  OBVIOUS
<1>2. \A i \in DOMAIN q : i \in Nat /\ i < Len(q) + 1
  OBVIOUS
<1>3. ASSUME p.end \/ Below(q, p.seq) PROVE Rises(Append(q, p))
  <2> SUFFICES ASSUME NEW i \in DOMAIN Append(q, p), NEW j \in DOMAIN Append(q, p), i < j,
                      ~Append(q, p)[i].end, ~Append(q, p)[j].end
               PROVE  Append(q, p)[i].seq < Append(q, p)[j].seq
    BY DEF Rises
  <2>1. i \in DOMAIN q /\ Append(q, p)[i] = q[i]
    <3>1. \A k \in DOMAIN Append(q, p) : k \in Nat /\ k <= Len(q) + 1
      OBVIOUS
    <3>q. QED
      BY <1>1, <3>1
  <2>2. CASE j \in DOMAIN q /\ Append(q, p)[j] = q[j]
    BY <2>1, <2>2 DEF Rises
  <2>3. CASE j = Len(q) + 1 /\ Append(q, p)[j] = p
    BY <1>3, <2>1, <2>3 DEF Below
  <2>q. QED
    BY <1>1, <2>2, <2>3
<1>4. \A n \in Nat : Below(q, n) /\ (p.end \/ p.seq < n) => Below(Append(q, p), n)
  BY <1>1 DEF Below
<1>5. \A n \in Nat : Above(q, n) /\ (p.end \/ n < p.seq) => Above(Append(q, p), n)
  BY <1>1 DEF Above
<1>q. QED
  BY <1>3, <1>4, <1>5

\* A sentinel in front of a queue changes nothing in the order of its frames.
LEMMA OrderSentToFront ==
    ASSUME NEW q \in Seq(Packet), NEW p \in Packet, p.end
    PROVE  /\ Rises(q) => Rises(<<p>> \o q)
           /\ \A n \in Nat : Below(q, n) => Below(<<p>> \o q, n)
           /\ \A n \in Nat : Above(q, n) => Above(<<p>> \o q, n)
<1>1. \A i \in DOMAIN (<<p>> \o q) : \/ (<<p>> \o q)[i] = p
                                     \/ i - 1 \in DOMAIN q /\ (<<p>> \o q)[i] = q[i - 1]
  BY SentToFrontEntries
<1>2. \A i, j \in DOMAIN (<<p>> \o q) : i < j => i - 1 < j - 1
  OBVIOUS
<1>q. QED
  BY <1>1, <1>2 DEF Rises, Below, Above

\* A larger number is above whatever a smaller one was above of.
LEMMA BelowMore ==
    ASSUME NEW q \in Seq(Packet), NEW n \in Nat, Below(q, n)
    PROVE  Below(q, n + 1)
<1>1. \A i \in DOMAIN q : q[i] \in Packet
  OBVIOUS
<1>2. \A i \in DOMAIN q : q[i].seq \in Nat
  BY <1>1 DEF Packet
<1>q. QED
  BY <1>2 DEF Below

\* What the order part says of numbers and packets is of the right types.
LEMMA OrderTypes ==
    ASSUME TypeOK
    PROVE  /\ txQueue \in Seq(Packet) /\ seq \in Nat /\ NextSeq \in Nat
           /\ sessionId \in Nat /\ air.sid \in Nat /\ air.seq \in Nat /\ txPkt.seq \in Nat
           /\ txPkt \in Packet /\ audioPkt \in Packet /\ air \in Packet
           /\ air.end \in BOOLEAN /\ txPkt.end \in BOOLEAN
  BY DEF TypeOK, DataTypes, NextSeq, Packet

\* A step that moves no packet keeps the order, if it puts nothing in a hand.
LEMMA OrderKept ==
    ASSUME OrderInv,
           UNCHANGED <<sessionId, seq, txQueue, audioPkt, txPkt, air>>,
           audio' = "count" <=> audio = "count", Built' => Built, InHand' => InHand,
           tx' # "none" => tx # "none",
           tx \in {"cleanup", "clear", "give"} => tx' \in {"cleanup", "clear", "give", "none"}
    PROVE  OrderInv'
  BY DEF OrderInv, NextSeq, OnAir, Built, InHand

\* audio_task's packet goes into the queue: none there or before has its number.
LEMMA OrderPushed ==
    ASSUME TypeOK, SessionInv, OrderInv, Built,
           txQueue' = Append(txQueue, audioPkt), audio' = "count",
           UNCHANGED <<sessionId, seq, tx, txPkt, air>>
    PROVE  OrderInv'
<1>1. ~audioPkt.end /\ audioPkt.seq = seq /\ NextSeq = seq /\ NextSeq' = seq + 1
  BY DEF SessionInv, OrderInv, Built, NextSeq
<1>2. Rises(txQueue) /\ Below(txQueue, seq) /\ Below(txQueue, seq + 1)
  BY <1>1, OrderTypes, BelowMore DEF OrderInv
<1>3. Rises(txQueue') /\ Below(txQueue', NextSeq')
  BY <1>1, <1>2, OrderTypes, OrderSent
<1>4. \A n \in Nat : n < seq /\ Above(txQueue, n) => Above(txQueue', n)
  BY <1>1, <1>2, OrderTypes, OrderSent
<1>q. QED
  BY <1>1, <1>3, <1>4, OrderTypes DEF OrderInv, OnAir, Built, InHand

\* tx_task takes the oldest packet: its number is below those left in the queue
\* and above that of the frame on the air.
LEMMA OrderReceived ==
    ASSUME TypeOK, OrderInv, tx \in {"recv", "drain"}, txQueue # <<>>,
           txPkt' = Head(txQueue), txQueue' = Tail(txQueue), tx' # "none",
           InHand' => ~Head(txQueue).end,
           UNCHANGED <<sessionId, seq, audio, audioPkt, air>>
    PROVE  OrderInv'
<1>1. /\ Rises(txQueue') /\ Below(txQueue', NextSeq)
      /\ ~Head(txQueue).end => /\ Above(txQueue', Head(txQueue).seq)
                               /\ Head(txQueue).seq < NextSeq
  BY OrderTypes, OrderTaken DEF OrderInv
<1>2. \A n \in Nat : Above(txQueue, n) => /\ Above(txQueue', n)
                                          /\ ~Head(txQueue).end => n < Head(txQueue).seq
  BY OrderTypes, OrderTaken
<1>3. ~(OnAir /\ air.end)
  BY DEF OrderInv
<1>q. QED
  BY <1>1, <1>2, <1>3, OrderTypes DEF OrderInv, NextSeq, OnAir, Built, InHand

\* The packet in tx_task's hand goes on the air.
LEMMA OrderOnAir ==
    ASSUME TypeOK, SessionInv, OrderInv, InHand,
           air' = txPkt, tx' \in {"recv", "drain"},
           UNCHANGED <<sessionId, seq, txQueue, audio, audioPkt, txPkt>>
    PROVE  OrderInv'
<1>1. ~txPkt.end
  BY DEF SessionInv, InHand
<1>q. QED
  BY <1>1 DEF OrderInv, NextSeq, OnAir, Built, InHand

\* tx_task stops sending: what the queue still holds is thrown away or left.
LEMMA OrderEnds ==
    ASSUME TypeOK, OrderInv, tx \notin {"none", "cleanup", "clear", "give"},
           tx' \in {"end", "cleanup"}, txQueue' = <<>>,
           UNCHANGED <<sessionId, seq, audio, audioPkt, air>>
    PROVE  OrderInv'
  BY OrderTypes, OrderEmpty DEF OrderInv, NextSeq, OnAir, Built, InHand

\* The order part is preserved: every packet goes from audio_task's hand to the
\* end of the queue, from its front to tx_task's hand, and from there to the air.
LEMMA OrderInvStep ==
    ASSUME TypeOK, ControlInv, SessionInv, CancelInv, OrderInv, [Next]_vars
    PROVE  OrderInv'
<1> USE DEF vars, flags, chimeVars, session, handles, resources, audioVars, txVars,
            chimeTask, history
<1>1. CASE Start
  BY <1>1, OrderKept DEF Start, Built, InHand
<1>2. CASE StartTasksExited
  BY <1>2, OrderKept DEF StartTasksExited, Built, InHand
<1>3. CASE StartTimeout
  BY <1>3, OrderKept DEF StartTimeout, Built, InHand
<1>4. CASE StartTakeGate
  BY <1>4, OrderKept DEF StartTakeGate, Built, InHand
<1>5. CASE StartOpenCodec
  BY <1>5, OrderKept DEF StartOpenCodec, Built, InHand
<1>6. CASE StartOpenOpus
  BY <1>6, OrderKept DEF StartOpenOpus, Built, InHand
<1>7. CASE StartAbandon
  <2>1. CASE app # "launch"
    BY <1>7, <2>1, OrderKept DEF StartAbandon, Built, InHand
  <2>2. CASE app = "launch"
    <3>1. audio = "none" /\ tx = "none"
      BY <2>2 DEF ControlInv, GateExclusive, AppOwns, TxOwns
    <3>2. /\ txQueue' = <<>> /\ seq' = 0
          /\ UNCHANGED <<audio, tx>>
      BY <1>7, <2>2 DEF StartAbandon
    <3>q. QED
      BY <3>1, <3>2, OrderEmpty DEF OrderInv, NextSeq, OnAir, Built, InHand
  <2>q. QED
    BY <2>1, <2>2
<1>8. CASE StartLaunch
  <2>1. /\ txQueue' = <<>> /\ seq' = 0 /\ sessionId' = nextId - 1 /\ tx' = "recv"
        /\ UNCHANGED <<audio, air>>
    BY <1>8 DEF StartLaunch
  <2>2. audio = "none"
    BY <1>8 DEF StartLaunch, ControlInv
  <2>3. air.sid < nextId - 1
    <3>1. sessionId < nextId - 1 /\ air.sid <= sessionId
      BY <1>8 DEF StartLaunch, CancelInv, SessionInv
    <3>2. nextId \in Nat
      BY DEF TypeOK, DataTypes
    <3>q. QED
      BY <3>1, <3>2, OrderTypes
  <2>4. ~OnAir'
    <3>1. nextId \in Nat
      BY DEF TypeOK, DataTypes
    <3>q. QED
      BY <2>1, <2>3, <3>1, OrderTypes DEF OnAir
  <2>q. QED
    BY <2>1, <2>2, <2>4, OrderEmpty DEF OrderInv, NextSeq, Built, InHand
<1>9. CASE StartAudio
  <2>1. audio = "none" /\ audio' = "loop" /\ UNCHANGED <<tx, txPkt, txQueue, air>>
    BY <1>9 DEF StartAudio, ControlInv
  <2>q. QED
    BY <1>9, <2>1, OrderKept DEF StartAudio, Built, InHand
<1>10. CASE StartAudioFails
  BY <1>10, OrderKept DEF StartAudioFails, Built, InHand
<1>11. CASE StartFailWaited
  BY <1>11, OrderKept DEF StartFailWaited, Built, InHand
<1>12. CASE Stop
  BY <1>12, OrderKept DEF Stop, Built, InHand
<1>13. CASE SendSentinel
  <2>1. /\ txQueue' = Append(txQueue, Sentinel)
        /\ UNCHANGED <<sessionId, seq, audio, audioPkt, tx, txPkt, air>>
    BY <1>13 DEF SendSentinel
  <2>2. Sentinel \in Packet /\ Sentinel.end
    BY SentinelIsPacket DEF Sentinel
  <2>3. Rises(txQueue) /\ Below(txQueue, NextSeq)
    BY DEF OrderInv
  <2>4. /\ Rises(txQueue')
        /\ Below(txQueue, NextSeq) => Below(txQueue', NextSeq)
        /\ \A n \in Nat : Above(txQueue, n) => Above(txQueue', n)
    BY <2>1, <2>2, <2>3, OrderTypes, OrderSent
  <2>q. QED
    BY <2>1, <2>4, OrderTypes DEF OrderInv, NextSeq, OnAir, Built, InHand
<1>14. CASE Cancel
  BY <1>14, OrderKept DEF Cancel, Built, InHand
<1>15. CASE CancelStop
  BY <1>15, OrderKept DEF CancelStop, Built, InHand
<1>16. CASE CancelReset
  <2>1. /\ txQueue' = <<>>
        /\ UNCHANGED <<sessionId, seq, audio, audioPkt, tx, txPkt, air>>
    BY <1>16 DEF CancelReset
  <2>q. QED
    BY <2>1, OrderTypes, OrderEmpty DEF OrderInv, NextSeq, OnAir, Built, InHand
<1>17. CASE CancelSend
  <2>1. CASE Full
    BY <1>17, <2>1, OrderKept DEF CancelSend, Built, InHand
  <2>2. CASE ~Full
    <3>1. /\ txQueue' = <<Sentinel>> \o txQueue
          /\ UNCHANGED <<sessionId, seq, audio, audioPkt, tx, txPkt, air>>
      BY <1>17, <2>2 DEF CancelSend
    <3>2. Sentinel \in Packet /\ Sentinel.end
      BY SentinelIsPacket DEF Sentinel
    <3>3. /\ Rises(txQueue) => Rises(txQueue')
          /\ \A n \in Nat : Below(txQueue, n) => Below(txQueue', n)
          /\ \A n \in Nat : Above(txQueue, n) => Above(txQueue', n)
      BY <3>1, <3>2, OrderTypes, OrderSentToFront
    <3>q. QED
      BY <3>1, <3>3, OrderTypes DEF OrderInv, NextSeq, OnAir, Built, InHand
  <2>q. QED
    BY <2>1, <2>2
<1>18. CASE PlayChime
  BY <1>18, OrderKept DEF PlayChime, Built, InHand
<1>19. CASE AudioLoop
  BY <1>19, OrderKept DEF AudioLoop, AppAndChimeUnchanged, Built, InHand
<1>20. CASE AudioCapture
  <2>1. /\ audio = "read" /\ audio' = "push" /\ audioPkt'.seq = seq
        /\ UNCHANGED <<sessionId, seq, txQueue, tx, txPkt, air>>
    BY <1>20 DEF AudioCapture
  <2>q. QED
    BY <2>1 DEF OrderInv, NextSeq, OnAir, Built, InHand
<1>21. CASE AudioReadFails
  BY <1>21, OrderKept DEF AudioReadFails, AppAndChimeUnchanged, Built, InHand
<1>22. CASE AudioPush
  <2>1. CASE Full
    BY <1>22, <2>1, OrderKept DEF AudioPush, Built, InHand
  <2>2. CASE ~Full
    BY <1>22, <2>2, OrderPushed DEF AudioPush, Built
  <2>q. QED
    BY <2>1, <2>2
<1>23. CASE AudioDiscardOldest
  <2>1. CASE txQueue = <<>>
    BY <1>23, <2>1, OrderKept DEF AudioDiscardOldest, Built, InHand
  <2>2. CASE txQueue # <<>>
    <3>1. /\ audio = "discard" /\ audio' = "pushAgain" /\ txQueue' = Tail(txQueue)
          /\ UNCHANGED <<sessionId, seq, audioPkt, tx, txPkt, air>>
      BY <1>23, <2>2 DEF AudioDiscardOldest
    <3>2. /\ Rises(txQueue) => Rises(txQueue')
          /\ \A n \in Nat : Below(txQueue, n) => Below(txQueue', n)
          /\ \A n \in Nat : Above(txQueue, n) => Above(txQueue', n)
      BY <2>2, <3>1, OrderTypes, OrderTaken
    <3>q. QED
      BY <3>1, <3>2, OrderTypes DEF OrderInv, NextSeq, OnAir, Built, InHand
  <2>q. QED
    BY <2>1, <2>2
<1>24. CASE AudioPushAgain
  <2>1. CASE Full
    <3>1. /\ audio = "pushAgain" /\ audio' = "count"
          /\ UNCHANGED <<sessionId, seq, txQueue, audioPkt, tx, txPkt, air>>
      BY <1>24, <2>1 DEF AudioPushAgain
    <3>2. NextSeq = seq /\ NextSeq' = NextSeq + 1
      BY <3>1 DEF NextSeq
    <3>3. Below(txQueue, NextSeq + 1)
      BY OrderTypes, BelowMore DEF OrderInv
    <3>q. QED
      BY <3>1, <3>2, <3>3, OrderTypes DEF OrderInv, OnAir, Built, InHand
  <2>2. CASE ~Full
    BY <1>24, <2>2, OrderPushed DEF AudioPushAgain, Built
  <2>q. QED
    BY <2>1, <2>2
<1>25. CASE AudioCount
  <2>1. /\ NextSeq' = NextSeq /\ audio' = "loop"
        /\ UNCHANGED <<sessionId, txQueue, audioPkt, tx, txPkt, air>>
    BY <1>25 DEF AudioCount, NextSeq
  <2>q. QED
    BY <2>1 DEF OrderInv, OnAir, Built, InHand
<1>26. CASE AudioExit
  BY <1>26, OrderKept DEF AudioExit, AppAndChimeUnchanged, Built, InHand
<1>27. CASE TxReceive
  <2>1. /\ tx = "recv" /\ txQueue # <<>> /\ txPkt' = Head(txQueue)
        /\ txQueue' = Tail(txQueue)
        /\ tx' \in {"cancel", "drain", "check"} /\ (tx' = "check" => ~Head(txQueue).end)
        /\ UNCHANGED <<sessionId, seq, audio, audioPkt, air>>
    BY <1>27 DEF TxReceive, TxKeeps
  <2>q. QED
    BY <2>1, OrderReceived DEF InHand
<1>28. CASE TxCheck
  BY <1>28, OrderKept DEF TxCheck, TxKeeps, Built, InHand
<1>29. CASE TxSend
  <2>1. CASE tx' = "failed" /\ air' = air
    BY <1>29, <2>1, OrderKept DEF TxSend, TxKeeps, Built, InHand
  <2>2. CASE air' = txPkt /\ tx' = "recv"
    BY <1>29, <2>2, OrderOnAir DEF TxSend, TxKeeps, InHand
  <2>q. QED
    BY <1>29, <2>1, <2>2 DEF TxSend
<1>30. CASE TxFailed
  BY <1>30, OrderKept DEF TxFailed, TxKeeps, Built, InHand
<1>31. CASE TxDrain
  <2>1. CASE txQueue = <<>>
    BY <1>31, <2>1, OrderEnds DEF TxDrain, TxKeeps
  <2>2. CASE txQueue # <<>>
    <3>1. \/ /\ tx' = IF Head(txQueue).end THEN "end" ELSE "drainSend"
             /\ txQueue' = Tail(txQueue)
          \/ tx' = "end" /\ txQueue' = <<>>
      BY <1>31, <2>2 DEF TxDrain
    <3>2. /\ tx = "drain" /\ txPkt' = Head(txQueue)
          /\ UNCHANGED <<sessionId, seq, audio, audioPkt, air>>
      BY <1>31, <2>2 DEF TxDrain, TxKeeps
    <3>3. CASE tx' = "end" /\ txQueue' = <<>>
      BY <3>2, <3>3, OrderEnds
    <3>4. CASE /\ tx' = IF Head(txQueue).end THEN "end" ELSE "drainSend"
               /\ txQueue' = Tail(txQueue)
      <4>1. tx' \in {"end", "drainSend"} /\ (tx' = "drainSend" => ~Head(txQueue).end)
        BY <3>4
      <4>q. QED
        BY <2>2, <3>2, <3>4, <4>1, OrderReceived DEF InHand
    <3>q. QED
      BY <3>1, <3>3, <3>4
  <2>q. QED
    BY <2>1, <2>2
<1>32. CASE TxDrainSend
  <2>1. CASE air' = txPkt /\ tx' = "drain"
    BY <1>32, <2>1, OrderOnAir DEF TxDrainSend, TxKeeps, InHand
  <2>2. CASE air' = air /\ tx' \in {"drain", "drainSend"}
    BY <1>32, <2>2, OrderKept DEF TxDrainSend, TxKeeps, Built, InHand
  <2>q. QED
    BY <1>32, <2>1, <2>2 DEF TxDrainSend
<1>33. CASE TxEnd
  <2>1. /\ tx = "end" /\ tx' = "cleanup" /\ (air' = air \/ air'.end)
        /\ UNCHANGED <<sessionId, seq, audio, audioPkt, txQueue, txPkt>>
    BY <1>33 DEF TxEnd, TxKeeps
  <2>2. CASE air' = air
    BY <2>1, <2>2, OrderKept DEF Built, InHand
  <2>3. CASE air'.end
    BY <2>1, <2>3 DEF OrderInv, NextSeq, OnAir, Built, InHand
  <2>q. QED
    BY <2>1, <2>2, <2>3
<1>34. CASE TxCancel
  BY <1>34, OrderEnds DEF TxCancel, TxKeeps
<1>35. CASE TxCleanup
  BY <1>35, OrderKept DEF TxCleanup, TxKeeps, Built, InHand
<1>36. CASE TxClear
  BY <1>36, OrderKept DEF TxClear, TxKeeps, Built, InHand
<1>37. CASE TxGive
  BY <1>37, OrderKept DEF TxGive, TxKeeps, Built, InHand
<1>38. CASE ChimeTakeGate
  BY <1>38, OrderKept DEF ChimeTakeGate, ChimeKeeps, Built, InHand
<1>39. CASE ChimeTimeout
  BY <1>39, OrderKept DEF ChimeTimeout, ChimeKeeps, Built, InHand
<1>40. CASE ChimeOpen
  BY <1>40, OrderKept DEF ChimeOpen, ChimeKeeps, Built, InHand
<1>41. CASE ChimePlay
  BY <1>41, OrderKept DEF ChimePlay, ChimeKeeps, Built, InHand
<1>42. CASE ChimeClose
  BY <1>42, OrderKept DEF ChimeClose, ChimeKeeps, Built, InHand
<1>43. CASE ChimeRelease
  BY <1>43, OrderKept DEF ChimeRelease, ChimeKeeps, Built, InHand
<1>44. CASE UNCHANGED vars
  BY <1>44, OrderKept DEF Built, InHand
<1>q. QED
  BY <1>1, <1>2, <1>3, <1>4, <1>5, <1>6, <1>7, <1>8, <1>9, <1>10, <1>11, <1>12,
     <1>13, <1>14, <1>15, <1>16, <1>17, <1>18, <1>19, <1>20, <1>21, <1>22, <1>23, <1>24,
     <1>25, <1>26, <1>27, <1>28, <1>29, <1>30, <1>31, <1>32, <1>33, <1>34, <1>35, <1>36,
     <1>37, <1>38, <1>39, <1>40, <1>41, <1>42, <1>43, <1>44
  DEF Next, App, Audio, Tx, Chime

-----------------------------------------------------------------------------
(* The invariant *)

\* The inductive invariant holds initially and in every step.
LEMMA InitInv == Init => IInv
<1> SUFFICES ASSUME Init PROVE IInv
  OBVIOUS
<1>1. TypeOK
  <2>1. FlagTypes
    BY DEF Init, FlagTypes
  <2>2. DataTypes
    BY DEF Init, DataTypes, NoPacket, Packet
  <2>3. ControlTypes
    BY DEF Init, ControlTypes
  <2>q. QED
    BY <2>1, <2>2, <2>3 DEF TypeOK
<1>2. ControlInv
  BY DEF Init, ControlInv, GateExclusive, AppOwns, TxOwns, ChimeOwns
<1>3. ResourceInv
  BY DEF Init, ResourceInv
<1>4. SessionInv
  BY DEF Init, SessionInv, OneSessionInFlight, NoPacket
<1>5. CancelInv
  BY DEF Init, CancelInv, NoEndAfterCancel, NoPacket
<1>6. OrderInv
  BY OrderEmpty DEF Init, OrderInv, NextSeq, OnAir, Built, InHand
<1>q. QED
  BY <1>1, <1>2, <1>3, <1>4, <1>5, <1>6 DEF IInv

LEMMA Inductive == Spec => []IInv
<1>1. TypeOK /\ [Next]_vars => TypeOK'
  BY FlagTypesStep, DataTypesStep, ControlTypesStep DEF TypeOK
<1>2. IInv /\ [Next]_vars => IInv'
  BY <1>1, ControlInvStep, ResourceInvStep, SessionInvStep, CancelInvStep, OrderInvStep DEF IInv
<1>q. QED
  BY InitInv, <1>2, PTL DEF Spec

-----------------------------------------------------------------------------
(* The theorems *)

\* The semaphore is available exactly when nobody owns the codec, and the app
\* task, tx_task and the chime never own it together.
THEOREM GateIsExclusive == Spec => []GateExclusive
<1>1. IInv => GateExclusive
  BY DEF IInv, ControlInv
<1>q. QED
  BY <1>1, Inductive, PTL

\* audio_task never reads a codec or encoder that another task's proper
\* teardown has closed, and a chime plays only on a codec open for playback.
THEOREM ResourcesAreHeld == Spec => []ResourcesHeld
<1>1. IInv => ResourcesHeld
  BY DEF IInv, ControlInv, ResourceInv, ResourcesHeld, CaptureOpen
<1>q. QED
  BY <1>1, Inductive, PTL

\* Packets of an earlier recording are never queued or sent in a later one.
THEOREM SessionsDoNotMix == Spec => []OneSessionInFlight
<1>1. IInv => OneSessionInFlight
  BY DEF IInv, SessionInv
<1>q. QED
  BY <1>1, Inductive, PTL

\* No END marker is ever sent for a cancelled recording.
THEOREM CancelledNeverCompleted == Spec => []NoEndAfterCancel
<1>1. IInv => NoEndAfterCancel
  BY DEF IInv, CancelInv
<1>q. QED
  BY <1>1, Inductive, PTL

\* What goes on the air next is a later frame of the session, its END after the
\* last frame, or of a later session: the desktop receives recordings in order.
LEMMA NextOnAir ==
    ASSUME IInv, [Next]_vars, air' # air
    PROVE  MayFollow(air, air')
<1>1. TxSend \/ TxDrainSend \/ TxEnd
  BY DEF Next, App, Audio, Tx, Chime, vars, flags, chimeVars, session, handles, resources,
         audioVars, txVars, chimeTask, history, AppAndChimeUnchanged, TxKeeps, ChimeKeeps,
         Start, StartTasksExited, StartTimeout, StartTakeGate, StartOpenCodec, StartOpenOpus,
         StartAbandon, StartLaunch, StartAudio, StartAudioFails, StartFailWaited, Stop,
         SendSentinel, Cancel, CancelStop, CancelReset, CancelSend, PlayChime, AudioLoop,
         AudioCapture, AudioReadFails, AudioPush, AudioDiscardOldest, AudioPushAgain,
         AudioCount, AudioExit, TxReceive, TxCheck, TxFailed, TxDrain, TxCancel, TxCleanup,
         TxClear, TxGive, ChimeTakeGate, ChimeTimeout, ChimeOpen, ChimePlay, ChimeClose,
         ChimeRelease
<1>2. air.sid <= sessionId /\ air.sid \in Nat /\ sessionId \in Nat /\ seq \in Nat
  BY OrderTypes DEF IInv, SessionInv
<1>3. CASE TxSend \/ TxDrainSend
  <2>1. InHand /\ air' = txPkt
    BY <1>3 DEF TxSend, TxDrainSend, InHand
  <2>2. txPkt.sid = sessionId
    BY <2>1 DEF IInv, SessionInv, OneSessionInFlight, InHand
  <2>3. air.sid = sessionId => ~air.end /\ air.seq < txPkt.seq
    BY <2>1 DEF IInv, OrderInv, OnAir, InHand
  <2>q. QED
    BY <1>2, <2>1, <2>2, <2>3 DEF MayFollow
<1>4. CASE TxEnd
  <2>1. tx = "end" /\ air' = [sid |-> sessionId, seq |-> seq, end |-> TRUE]
    BY <1>4 DEF TxEnd
  <2>2. air.sid = sessionId => ~air.end /\ air.seq < NextSeq
    BY <2>1 DEF IInv, OrderInv, OnAir
  <2>3. NextSeq \in {seq, seq + 1} /\ air.seq \in Nat
    BY OrderTypes DEF IInv, NextSeq
  <2>4. air.sid = sessionId => air.seq < seq \/ air.seq = seq
    BY <1>2, <2>2, <2>3
  <2>q. QED
    BY <1>2, <2>1, <2>2, <2>4 DEF MayFollow
<1>q. QED
  BY <1>1, <1>3, <1>4

\* The desktop receives the frames of one recording in order, then its END, then
\* those of the next, for every depth of the queue and number of retries.
THEOREM AirInOrder == Spec => FramesInOrder
<1>1. IInv /\ [Next]_vars => [air' # air => MayFollow(air, air')]_air
  BY NextOnAir
<1>q. QED
  BY <1>1, Inductive, PTL DEF Spec, FramesInOrder

=============================================================================
