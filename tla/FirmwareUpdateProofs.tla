------------------------ MODULE FirmwareUpdateProofs ------------------------
(***************************************************************************)
(* Theorems about FirmwareUpdate, for every image size, window and number  *)
(* of transfers and sessions: the device implements AtomicUpdate, and an      *)
(* update reported to have succeeded is booted.                            *)
(***************************************************************************)
EXTENDS FirmwareUpdate, SequenceTheorems, TLAPS

-----------------------------------------------------------------------------
(* Queues, and images as sequences *)

\* What sending to a queue and taking its head leave in it.
LEMMA QueueTypes ==
    ASSUME NEW S, NEW q \in Seq(S), NEW e \in S
    PROVE  /\ Append(q, e) \in Seq(S)
           /\ <<>> \in Seq(S)
           /\ q # <<>> => Head(q) \in S /\ Tail(q) \in Seq(S)
  OBVIOUS

\* A link that drops loses the end of a queue only.
LEMMA PrefixEntries ==
    ASSUME NEW S, NEW q \in Seq(S), NEW r \in Prefixes(q)
    PROVE  /\ r \in Seq(S)
           /\ \A i \in DOMAIN r : i \in DOMAIN q /\ r[i] = q[i]
  <1>1. PICK n \in 0..Len(q) : r = SubSeq(q, 1, n)
    BY DEF Prefixes
  <1>2. Len(q) \in Nat /\ n \in Int /\ 1 \in Int
    BY LenProperties
  <1>3. \A i \in 1..n : q[i] \in S
    BY <1>2, ElementOfSeq
  <1>4. /\ r \in Seq(S)
        /\ Len(r) = n
        /\ \A i \in 1..n : r[i] = q[i]
    BY <1>1, <1>2, <1>3, SubSeqProperties
  <1>5. DOMAIN r = 1..n /\ DOMAIN q = 1..Len(q)
    BY <1>4, LenProperties
  <1> QED
    BY <1>2, <1>4, <1>5

\* Appending a chunk in order extends a prefix of an image by one.
LEMMA PrefixAppend ==
    ASSUME NEW t \in Transfers, NEW n \in 0..(Chunks - 1)
    PROVE  Append(AU!Prefix(t, n), AU!Chunk(t, n)) = AU!Prefix(t, n + 1)
  <1> DEFINE p == AU!Prefix(t, n)
             c == AU!Chunk(t, n)
             r == AU!Prefix(t, n + 1)
  <1>1. n \in Nat /\ n < Chunks
    BY ChunksAssumption
  <1>2. c \in ImageChunk
    BY <1>1, ChunksAssumption DEF ImageChunk, AU!Chunk
  <1>3. p \in [1..n -> ImageChunk] /\ r \in [1..(n + 1) -> ImageChunk]
    BY <1>1, ChunksAssumption DEF ImageChunk, AU!Prefix, AU!Chunk
  <1>4. p \in Seq(ImageChunk) /\ r \in Seq(ImageChunk)
    BY <1>1, <1>3, SeqDef
  <1>5. Len(p) = n /\ Len(r) = n + 1
    BY <1>1, <1>3, <1>4, LenProperties
  <1>6. /\ Append(p, c) \in Seq(ImageChunk)
        /\ Len(Append(p, c)) = n + 1
        /\ \A i \in 1..n : Append(p, c)[i] = p[i]
        /\ Append(p, c)[n + 1] = c
    BY <1>2, <1>4, <1>5, AppendProperties
  <1>7. /\ \A i \in 1..n : p[i] = r[i]
        /\ r[n + 1] = c
    BY <1>1 DEF AU!Prefix, AU!Chunk
  <1>8. \A i \in 1..Len(Append(p, c)) : Append(p, c)[i] = r[i]
    BY <1>1, <1>6, <1>7
  <1> HIDE DEF p, c, r
  <1>9. Append(p, c) = r
    BY <1>4, <1>5, <1>6, <1>8, SeqEqual
  <1> QED
    BY <1>9 DEF p, c, r

\* No chunk received is the prefix of every image.
LEMMA PrefixEmpty == ASSUME NEW t PROVE AU!Prefix(t, 0) = <<>>
  BY DEF AU!Prefix

-----------------------------------------------------------------------------
(* The inductive invariant *)

\* A coroutine that has data left to write has not written all of it.
ChunksLeft ==
    \A t \in Transfers :
        co[t].at \in {"created", "begin", "data", "write"} => co[t].offset < Chunks

\* What an active transfer has written is the first chunks of its image.
ImageGrows ==
    ota.active => ota.transfer \in Transfers /\ flash = AU!Prefix(ota.transfer, ota.written)

\* An event under way that tells of success tells the truth.
DoneIsApplied ==
    \A i \in DOMAIN toHost : toHost[i].event = "done" => toHost[i].transfer \in applied

IInv == TypeOK /\ ChunksLeft /\ ImageGrows /\ DoneIsApplied /\ SuccessBoots

\* What the assumptions on the constants give.
LEMMA Constants ==
    /\ Chunks \in Nat /\ Chunks > 0
    /\ Transfers \subseteq Nat /\ 0 \notin Transfers
    /\ MaxSessions \in Nat
  BY ChunksAssumption, TransfersAssumption, MaxSessionsAssumption

\* Before any transfer the invariant holds.
LEMMA InitInv == Init => IInv
  <1> SUFFICES ASSUME Init PROVE IInv
    OBVIOUS
  <1> USE Constants DEF Init
  <1>1. TypeOK
    <2>1. Cleared \in OtaState
      BY DEF Cleared, OtaState
    <2>2. co \in [Transfers -> CoState]
      BY DEF CoState, Places
    <2>3. /\ toDevice \in Seq(DeviceWrite) /\ toHost \in Seq(HostEvent)
          /\ flash \in Seq(ImageChunk) /\ boot \in Seq(ImageChunk)
      BY EmptySeq DEF AU!Factory
    <2>4. /\ session \in 0..MaxSessions /\ sessions \in 0..MaxSessions
          /\ confirmed \in [Transfers -> 0..Chunks]
      OBVIOUS
    <2>5. /\ answer \in [Transfers -> {"none", "ok", "error"}]
          /\ result \in [Transfers -> {"none", "done", "failed"}]
      OBVIOUS
    <2>6. /\ link \in BOOLEAN /\ s_connected \in BOOLEAN
          /\ rebooting \in BOOLEAN /\ crashed \in BOOLEAN /\ starved \in BOOLEAN
          /\ untold \subseteq Transfers
      OBVIOUS
    <2> QED
      BY <2>1, <2>2, <2>3, <2>4, <2>5, <2>6 DEF TypeOK
  <1>2. ChunksLeft
    BY DEF ChunksLeft
  <1>3. ImageGrows
    BY DEF ImageGrows, Cleared
  <1>4. DoneIsApplied
    BY DEF DoneIsApplied
  <1>5. SuccessBoots
    BY DEF SuccessBoots
  <1> QED
    BY <1>1, <1>2, <1>3, <1>4, <1>5 DEF IInv

-----------------------------------------------------------------------------
(* Types *)

\* A notification, delivered or not, is of the right type.
LEMMA NotifyTypes ==
    ASSUME TypeOK, NEW e \in HostEvent, Notify(e) \/ Quiet
    PROVE  toHost' \in Seq(HostEvent) /\ starved' \in BOOLEAN
  <1>1. toHost \in Seq(HostEvent) /\ starved \in BOOLEAN
    BY DEF TypeOK
  <1>2. Append(toHost, e) \in Seq(HostEvent)
    BY <1>1, QueueTypes
  <1> QED
    BY <1>1, <1>2 DEF Notify, Quiet

\* The events the device sends.
LEMMA EventTypes ==
    /\ OtaEvent("error", 0, 0) \in HostEvent
    /\ \A t \in Transfers, n \in 0..Chunks :
          OtaEvent("progress", t, n) \in HostEvent /\ OtaEvent("done", t, n) \in HostEvent
  BY Constants DEF OtaEvent, HostEvent

\* Sending nothing is the case of NotifyTypes with any event.
LEMMA QuietTypes ==
    ASSUME TypeOK, Quiet
    PROVE  toHost' \in Seq(HostEvent) /\ starved' \in BOOLEAN
  BY NotifyTypes, EventTypes

\* The write ota_access_cb takes.
LEMMA AccessTypes ==
    ASSUME TypeOK, NEW type, NEW m, Access(type, m)
    PROVE  m \in DeviceWrite /\ toDevice' \in Seq(DeviceWrite)
  BY QueueTypes DEF TypeOK, Access

\* The answer to a write with response.
LEMMA AnswerTypes ==
    ASSUME TypeOK, NEW t, NEW rc \in {"ok", "error"}, Answer(t, rc)
    PROVE  answer' \in [Transfers -> {"none", "ok", "error"}]
  BY DEF TypeOK, Answer

\* The answers that are lost with a link or a session.
LEMMA AnswersLostTypes ==
    ASSUME TypeOK, AnswersLost
    PROVE  answer' \in [Transfers -> {"none", "ok", "error"}]
  BY DEF TypeOK, AnswersLost

\* The device restarts.
LEMMA RebootTypes ==
    ASSUME TypeOK, Reboot
    PROVE  TypeOK'
  <1>1. toHost' \in Seq(HostEvent)
    BY PrefixEntries DEF Reboot, TypeOK
  <1>2. toDevice' \in Seq(DeviceWrite)
    BY EmptySeq DEF Reboot
  <1>3. ota' \in OtaState
    BY Constants DEF Reboot, Cleared, OtaState
  <1>4. answer' \in [Transfers -> {"none", "ok", "error"}]
    BY AnswersLostTypes DEF Reboot
  <1>5. link' \in BOOLEAN /\ s_connected' \in BOOLEAN /\ rebooting' \in BOOLEAN
    BY DEF Reboot
  <1>6. UNCHANGED <<starved, flash, boot, applied, hostVars>>
    BY DEF Reboot
  <1> QED
    BY <1>1, <1>2, <1>3, <1>4, <1>5, <1>6 DEF TypeOK, hostVars

\* The device's handlers keep the types.
LEMMA DeviceTypes ==
    ASSUME TypeOK, Device
    PROVE  TypeOK'
  <1> DEFINE m == Head(toDevice)
  <1> USE DEF hostVars, sessionVars
  <1>0. Cleared \in OtaState
    BY Constants DEF Cleared, OtaState
  <1>1. CASE ota_begin
    <2>1. m \in DeviceWrite /\ toDevice' \in Seq(DeviceWrite)
      BY <1>1, AccessTypes DEF ota_begin
    <2>2. m.transfer \in Transfers
      BY <2>1 DEF DeviceWrite
    <2>3. [active |-> TRUE, transfer |-> m.transfer, written |-> 0] \in OtaState
      BY <2>2, Constants DEF OtaState
    <2>4. ota' \in OtaState
      BY <1>0, <1>1, <2>3 DEF ota_begin
    <2>7. flash' \in Seq(ImageChunk)
      BY <1>1, EmptySeq DEF ota_begin, TypeOK
    <2>5. answer' \in [Transfers -> {"none", "ok", "error"}]
      BY <1>1, AnswerTypes DEF ota_begin
    <2>6. toHost' \in Seq(HostEvent) /\ starved' \in BOOLEAN
      BY <1>1, NotifyTypes, QuietTypes, EventTypes DEF ota_begin, ota_send_error
    <2> QED
      BY <1>1, <2>1, <2>4, <2>5, <2>6, <2>7 DEF ota_begin, TypeOK
  <1>2. CASE ota_write_data
    <2>1. m \in DeviceWrite /\ toDevice' \in Seq(DeviceWrite)
      BY <1>2, AccessTypes DEF ota_write_data
    <2>2. m.transfer \in Transfers /\ m.offset \in 0..Chunks
      BY <2>1 DEF DeviceWrite
    <2>3. CASE ota_send_error /\ UNCHANGED <<ota, flash>>
      <3>1. toHost' \in Seq(HostEvent) /\ starved' \in BOOLEAN
        BY <2>3, NotifyTypes, EventTypes DEF ota_send_error
      <3> QED
        BY <1>2, <2>1, <2>3, <3>1 DEF ota_write_data, TypeOK
    <2>4. CASE ~(ota_send_error /\ UNCHANGED <<ota, flash>>)
      <3>1. /\ ~BadOffset(m.offset)
            /\ flash' = Append(flash, AU!Chunk(m.transfer, m.offset))
            /\ ota' = [ota EXCEPT !.written = @ + 1]
            /\ \/ Notify(OtaEvent("progress", m.transfer, ota'.written))
               \/ Quiet
        BY <1>2, <2>4 DEF ota_write_data
      <3>2. ota \in OtaState /\ flash \in Seq(ImageChunk)
        BY DEF TypeOK
      <3>3. ota.written \in 0..Chunks /\ ota.written + 1 <= Chunks
        BY <3>1, <3>2, Constants DEF BadOffset, OtaState
      <3>4. ota' \in OtaState /\ ota'.written \in 0..Chunks
        BY <3>1, <3>2, <3>3, Constants DEF OtaState
      <3>5. AU!Chunk(m.transfer, m.offset) \in ImageChunk
        BY <2>2 DEF ImageChunk, AU!Chunk
      <3>6. flash' \in Seq(ImageChunk)
        BY <3>1, <3>2, <3>5, QueueTypes
      <3>7. OtaEvent("progress", m.transfer, ota'.written) \in HostEvent
        BY <2>2, <3>4, EventTypes
      <3>8. toHost' \in Seq(HostEvent) /\ starved' \in BOOLEAN
        BY <3>1, <3>7, NotifyTypes
      <3> QED
        BY <1>2, <2>1, <3>4, <3>6, <3>8 DEF ota_write_data, TypeOK
    <2> QED
      BY <2>3, <2>4
  <1>3. CASE ota_finish
    <2>1. m \in DeviceWrite /\ toDevice' \in Seq(DeviceWrite)
      BY <1>3, AccessTypes DEF ota_finish
    <2>2. m.transfer \in Transfers /\ Chunks \in 0..Chunks
      BY <2>1, Constants DEF DeviceWrite
    <2>3. toHost' \in Seq(HostEvent) /\ starved' \in BOOLEAN
      BY <1>3, <2>2, NotifyTypes, EventTypes DEF ota_finish, ota_send_error
    <2>4. answer' \in [Transfers -> {"none", "ok", "error"}]
      BY <1>3, AnswerTypes DEF ota_finish, TypeOK
    <2>5. applied' \subseteq Transfers
      BY <1>3, <2>2 DEF ota_finish, TypeOK
    <2> QED
      BY <1>0, <1>3, <2>1, <2>3, <2>4, <2>5 DEF ota_finish, TypeOK
  <1>4. CASE ota_abort
    <2>1. toDevice' \in Seq(DeviceWrite)
      BY <1>4, AccessTypes DEF ota_abort
    <2> QED
      BY <1>0, <1>4, <2>1 DEF ota_abort, Quiet, TypeOK
  <1>5. CASE DeviceDisconnected
    BY <1>0, <1>5, Constants DEF DeviceDisconnected, Quiet, TypeOK
  <1>6. CASE esp_restart
    BY <1>6, RebootTypes DEF esp_restart
  <1> QED
    BY <1>1, <1>2, <1>3, <1>4, <1>5, <1>6 DEF Device

-----------------------------------------------------------------------------

\* The link drops, comes back or restarts the device.
LEMMA LinkTypes ==
    ASSUME TypeOK, PowerLoss \/ Connect \/ Drop \/ Relink
    PROVE  TypeOK'
  <1> USE DEF hostVars, sessionVars, deviceVars
  <1>1. CASE PowerLoss
    BY <1>1, RebootTypes DEF PowerLoss
  <1>2. CASE Connect
    <2>1. session' \in 0..MaxSessions /\ sessions' \in 0..MaxSessions
      BY <1>2, Constants DEF Connect, TypeOK
    <2>2. link' \in BOOLEAN /\ s_connected' \in BOOLEAN
      BY <1>2 DEF Connect
    <2> QED
      BY <1>2, <2>1, <2>2 DEF Connect, TypeOK
  <1>3. CASE Drop
    <2>1. toHost' \in Seq(HostEvent) /\ toDevice' \in Seq(DeviceWrite)
      BY <1>3, PrefixEntries DEF Drop, TypeOK
    <2>2. answer' \in [Transfers -> {"none", "ok", "error"}]
      BY <1>3, AnswersLostTypes DEF Drop
    <2>3. link' \in BOOLEAN
      BY <1>3 DEF Drop
    <2> QED
      BY <1>3, <2>1, <2>2, <2>3 DEF Drop, TypeOK
  <1>4. CASE Relink
    <2>1. untold' \subseteq Transfers
      BY <1>4 DEF Relink, LeaveUpdate, TypeOK
    <2>2. link' \in BOOLEAN /\ s_connected' \in BOOLEAN
      BY <1>4 DEF Relink
    <2> QED
      BY <1>4, <2>1, <2>2 DEF Relink, TypeOK
  <1> QED
    BY <1>1, <1>2, <1>3, <1>4

\* The completion of an update.
LEMMA FinishTypes ==
    ASSUME TypeOK, NEW t, NEW r \in {"done", "failed"}, FinishFirmwareUpdate(t, r)
    PROVE  /\ update' \in Transfers \cup {0}
           /\ result' \in [Transfers -> {"none", "done", "failed"}]
  BY DEF TypeOK, FinishFirmwareUpdate, sessionVars

\* A coroutine moves on, or returns, to a place p that it can be at.
Moves(t, p) ==
    /\ co' = [co EXCEPT ![t].at = p]
    /\ p \in {"begin", "data", "write", "confirm", "finish", "end", "gone"}
    /\ p \in {"begin", "data", "write"} =>
          co[t].at \in {"created", "begin", "data", "write"}

\* A coroutine that moves keeps its types and its chunks.
LEMMA MoveTypes ==
    ASSUME TypeOK, ChunksLeft, NEW t \in Transfers, NEW p, Moves(t, p)
    PROVE  co' \in [Transfers -> CoState] /\ ChunksLeft'
  <1>1. co \in [Transfers -> CoState]
    BY DEF TypeOK
  <1>2. p \in Places
    BY DEF Moves, Places
  <1>3. co' \in [Transfers -> CoState]
    BY <1>1, <1>2 DEF Moves, CoState
  <1>4. \A u \in Transfers : u # t => co'[u] = co[u]
    BY <1>1 DEF Moves
  <1>5. co'[t].at = p /\ co'[t].offset = co[t].offset
    BY <1>1 DEF Moves, CoState
  <1>6. ASSUME NEW u \in Transfers, co'[u].at \in {"created", "begin", "data", "write"}
        PROVE  co'[u].offset < Chunks
    <2>1. CASE u = t
      BY <1>5, <1>6, <2>1 DEF Moves, ChunksLeft
    <2>2. CASE u # t
      BY <1>4, <1>6, <2>2 DEF ChunksLeft
    <2> QED
      BY <2>1, <2>2
  <1> QED
    BY <1>3, <1>6 DEF ChunksLeft

\* What a coroutine writes.
LEMMA WriteTypes ==
    ASSUME TypeOK, NEW t, NEW w \in DeviceWrite, Write(t, w)
    PROVE  toDevice' \in Seq(DeviceWrite)
  BY QueueTypes DEF TypeOK, Write

\* A transfer that fails in its coroutine.
LEMMA FailTypes ==
    ASSUME TypeOK, ChunksLeft, NEW t \in Transfers, Fail(t)
    PROVE  /\ update' \in Transfers \cup {0}
           /\ result' \in [Transfers -> {"none", "done", "failed"}]
           /\ co' \in [Transfers -> CoState]
           /\ ChunksLeft'
  <1>1. Moves(t, "gone")
    BY DEF Fail, Return, Moves
  <1>2. FinishFirmwareUpdate(t, "failed")
    BY DEF Fail
  <1> QED
    BY <1>1, <1>2, MoveTypes, FinishTypes

\* A write that does not reach the device.
LEMMA WriteLostTypes ==
    ASSUME TypeOK, ChunksLeft, NEW t \in Transfers, WriteLost(t)
    PROVE  /\ toDevice' \in Seq(DeviceWrite)
           /\ update' \in Transfers \cup {0}
           /\ result' \in [Transfers -> {"none", "done", "failed"}]
           /\ co' \in [Transfers -> CoState]
           /\ crashed' \in BOOLEAN
           /\ ChunksLeft'
  <1>1. toDevice' \in Seq(DeviceWrite) /\ crashed' \in BOOLEAN
    BY DEF WriteLost, TypeOK
  <1>2. CASE Fail(t)
    BY <1>1, <1>2, FailTypes
  <1>3. CASE UNCHANGED <<co, sessionVars>>
    BY <1>1, <1>3 DEF TypeOK, ChunksLeft, sessionVars
  <1> QED
    BY <1>2, <1>3 DEF WriteLost

\* The steps of a coroutine keep the types, and count no more chunks than the
\* image has.
LEMMA CoroutineTypes ==
    ASSUME TypeOK, ChunksLeft, NEW t \in Transfers, Coroutine(t)
    PROVE  TypeOK' /\ ChunksLeft'
  <1> USE Constants
  <1> USE DEF CoUnchanged, sessionVars, deviceVars
  <1>0. /\ co \in [Transfers -> CoState]
        /\ co[t].offset \in 0..Chunks
    BY DEF TypeOK, CoState, Places
  <1>1. CASE StartTransfer(t)
    <2>1. Message("begin", t, 0) \in DeviceWrite
      BY DEF Message, DeviceWrite
    <2>2. toDevice' \in Seq(DeviceWrite)
      BY <1>1, <2>1, WriteTypes DEF StartTransfer, TypeOK
    <2>3. crashed' \in BOOLEAN
      BY <1>1 DEF StartTransfer, TypeOK
    <2>4. CASE Fail(t)
      BY <1>1, <2>2, <2>3, <2>4, FailTypes DEF StartTransfer, TypeOK
    <2>5. CASE UNCHANGED sessionVars
      <3>1. UNCHANGED co \/ Moves(t, "begin") \/ Moves(t, "gone") \/ Fail(t)
        BY <1>1 DEF StartTransfer, Return, Moves
      <3>2. co' \in [Transfers -> CoState] /\ ChunksLeft'
        BY <3>1, MoveTypes, FailTypes DEF TypeOK, ChunksLeft
      <3> QED
        BY <1>1, <2>2, <2>3, <2>5, <3>2 DEF StartTransfer, TypeOK
    <2> QED
      BY <1>1, <2>4, <2>5 DEF StartTransfer
  <1>2. CASE BeginAnswered(t)
    <2>1. co' \in [Transfers -> CoState] /\ ChunksLeft'
      <3>1. Moves(t, "data")
        BY <1>2 DEF BeginAnswered, Moves
      <3> QED
        BY <3>1, MoveTypes
    <2> QED
      BY <1>2, <2>1 DEF BeginAnswered, TypeOK
  <1>3. CASE WriteFailed(t)
    <2>1. Fail(t)
      BY <1>3 DEF WriteFailed
    <2> QED
      BY <1>3, <2>1, FailTypes DEF WriteFailed, TypeOK
  <1>4. CASE CancelSeen(t)
    <2>1. co' \in [Transfers -> CoState] /\ ChunksLeft'
      <3>1. Moves(t, "gone")
        BY <1>4 DEF CancelSeen, Return, Moves
      <3> QED
        BY <3>1, MoveTypes
    <2> QED
      BY <1>4, <2>1 DEF CancelSeen, TypeOK
  <1>5. CASE DataLoop(t)
    <2>1. co' \in [Transfers -> CoState] /\ ChunksLeft'
      <3>1. Moves(t, "write")
        BY <1>5 DEF DataLoop, Moves
      <3> QED
        BY <3>1, MoveTypes
    <2> QED
      BY <1>5, <2>1 DEF DataLoop, TypeOK
  <1>6. CASE WriteData(t)
    <2>1. CASE WriteLost(t)
      BY <1>6, <2>1, WriteLostTypes DEF WriteData, TypeOK
    <2>2. CASE ~WriteLost(t)
      <3>1. /\ Write(t, Message("data", t, co[t].offset))
            /\ co' = [co EXCEPT ![t].offset = @ + 1,
                                ![t].at = IF co[t].offset + 1 < Chunks
                                          THEN "data" ELSE "confirm"]
            /\ UNCHANGED <<crashed, sessionVars>>
        BY <1>6, <2>2 DEF WriteData
      <3>2. co[t].offset < Chunks
        BY <1>6 DEF WriteData, ChunksLeft
      <3>3. co[t].offset + 1 \in 0..Chunks
        BY <1>0, <3>2
      <3>4. co' \in [Transfers -> CoState]
        BY <1>0, <3>1, <3>3 DEF CoState, Places
      <3>5. ASSUME NEW u \in Transfers, co'[u].at \in {"created", "begin", "data", "write"}
            PROVE  co'[u].offset < Chunks
        <4>1. CASE u = t
          BY <1>0, <3>1, <3>3, <3>5, <4>1 DEF CoState
        <4>2. CASE u # t
          BY <1>0, <3>1, <3>5, <4>2 DEF ChunksLeft
        <4> QED
          BY <4>1, <4>2
      <3>6. Message("data", t, co[t].offset) \in DeviceWrite
        BY <1>0 DEF Message, DeviceWrite
      <3>7. toDevice' \in Seq(DeviceWrite)
        BY <3>1, <3>6, WriteTypes
      <3>8. ChunksLeft'
        BY <3>5 DEF ChunksLeft
      <3> QED
        BY <1>6, <3>1, <3>4, <3>7, <3>8 DEF WriteData, TypeOK
    <2> QED
      BY <2>1, <2>2
  <1>7. CASE FinalWait(t)
    <2>1. CASE Fail(t)
      BY <1>7, <2>1, FailTypes DEF FinalWait, TypeOK
    <2>2. CASE UNCHANGED sessionVars
      <3>1. Moves(t, "finish") \/ Fail(t)
        BY <1>7 DEF FinalWait, Moves
      <3>2. co' \in [Transfers -> CoState] /\ ChunksLeft'
        BY <3>1, MoveTypes, FailTypes
      <3> QED
        BY <1>7, <2>2, <3>2 DEF FinalWait, TypeOK
    <2> QED
      BY <1>7, <2>1, <2>2 DEF FinalWait
  <1>8. CASE WriteEnd(t)
    <2>1. CASE WriteLost(t)
      BY <1>8, <2>1, WriteLostTypes DEF WriteEnd, TypeOK
    <2>2. CASE ~WriteLost(t)
      <3>1. /\ Write(t, Message("end", t, 0))
            /\ co' = [co EXCEPT ![t].at = "end"]
            /\ UNCHANGED <<crashed, sessionVars>>
        BY <1>8, <2>2 DEF WriteEnd
      <3>2. Message("end", t, 0) \in DeviceWrite
        BY DEF Message, DeviceWrite
      <3>3. toDevice' \in Seq(DeviceWrite)
        BY <3>1, <3>2, WriteTypes
      <3>4. Moves(t, "end")
        BY <3>1 DEF Moves
      <3>5. co' \in [Transfers -> CoState] /\ ChunksLeft'
        BY <3>4, MoveTypes
      <3> QED
        BY <1>8, <3>1, <3>3, <3>5 DEF WriteEnd, TypeOK
    <2> QED
      BY <2>1, <2>2
  <1> QED
    BY <1>1, <1>2, <1>3, <1>4, <1>5, <1>6, <1>7, <1>8 DEF Coroutine

\* Closing a session.
LEMMA CloseSessionTypes ==
    ASSUME TypeOK, CloseSession
    PROVE  session' \in 0..MaxSessions /\ toHost' \in Seq(HostEvent)
  <1>1. toHost' \in Seq(HostEvent)
    BY PrefixEntries DEF CloseSession, TypeOK
  <1> QED
    BY <1>1, Constants DEF CloseSession

\* What the user, the UI thread and the Bluetooth stack do keeps them too.
LEMMA HostTypes ==
    ASSUME TypeOK, ChunksLeft,
           \/ Host \/ CancelFirmwareUpdate \/ UpdatePairedDeviceIds
           \/ \E t \in Transfers : UpdateFirmware(t)
    PROVE  TypeOK' /\ ChunksLeft'
  <1> USE Constants DEF sessionVars, deviceVars
  <1>1. CASE HandleFirmwareOtaStateEvent
    <2> DEFINE e == Head(toHost)
    <2>1. e \in HostEvent /\ toHost' \in Seq(HostEvent)
      BY <1>1, QueueTypes DEF HandleFirmwareOtaStateEvent, TypeOK
    <2>2. e.written \in 0..Chunks
      BY <2>1 DEF HostEvent
    <2>3. /\ update' \in Transfers \cup {0}
          /\ result' \in [Transfers -> {"none", "done", "failed"}]
      BY <1>1, FinishTypes DEF HandleFirmwareOtaStateEvent, TypeOK
    <2>4. confirmed' \in [Transfers -> 0..Chunks]
      BY <1>1, <2>2 DEF HandleFirmwareOtaStateEvent, TypeOK
    <2> QED
      BY <1>1, <2>1, <2>3, <2>4 DEF HandleFirmwareOtaStateEvent, TypeOK, ChunksLeft
  <1>2. CASE HandleDeviceDisconnected
    <2>1. /\ update' \in Transfers \cup {0}
          /\ result' \in [Transfers -> {"none", "done", "failed"}]
      BY <1>2, FinishTypes DEF HandleDeviceDisconnected
    <2>2. session' \in 0..MaxSessions /\ toHost' \in Seq(HostEvent)
      BY <1>2, CloseSessionTypes DEF HandleDeviceDisconnected
    <2> QED
      BY <1>2, <2>1, <2>2 DEF HandleDeviceDisconnected, TypeOK, ChunksLeft
  <1>3. CASE CancelFirmwareUpdate
    <2>1. update \in Transfers
      BY <1>3 DEF CancelFirmwareUpdate, TypeOK
    <2>2. Message("abort", update, 0) \in DeviceWrite
      BY <2>1 DEF Message, DeviceWrite
    <2>3. toDevice' \in Seq(DeviceWrite)
      BY <1>3, <2>2, QueueTypes DEF CancelFirmwareUpdate, TypeOK
    <2>4. /\ update' \in Transfers \cup {0}
          /\ result' \in [Transfers -> {"none", "done", "failed"}]
      BY <1>3, FinishTypes DEF CancelFirmwareUpdate
    <2> QED
      BY <1>3, <2>1, <2>3, <2>4 DEF CancelFirmwareUpdate, TypeOK, ChunksLeft
  <1>4. ASSUME NEW t \in Transfers, UpdateFirmware(t)
        PROVE  TypeOK' /\ ChunksLeft'
    <2>1. [at |-> "created", offset |-> 0, session |-> session] \in CoState
      BY DEF TypeOK, CoState, Places
    <2>2. co' = [co EXCEPT ![t] = [at |-> "created", offset |-> 0, session |-> session]]
      BY <1>4 DEF UpdateFirmware
    <2>3. co' \in [Transfers -> CoState]
      BY <2>1, <2>2 DEF TypeOK
    <2>4. ChunksLeft'
      BY <2>2 DEF TypeOK, ChunksLeft
    <2> QED
      BY <1>4, <2>3, <2>4 DEF UpdateFirmware, TypeOK
  <1>5. CASE UpdatePairedDeviceIds
    <2>1. session' \in 0..MaxSessions /\ toHost' \in Seq(HostEvent)
      BY <1>5, CloseSessionTypes DEF UpdatePairedDeviceIds
    <2>2. untold' \subseteq Transfers
      BY <1>5 DEF UpdatePairedDeviceIds, LeaveUpdate, TypeOK
    <2>3. answer' \in [Transfers -> {"none", "ok", "error"}]
      BY <1>5, AnswersLostTypes DEF UpdatePairedDeviceIds, TypeOK
    <2> QED
      BY <1>5, <2>1, <2>2, <2>3 DEF UpdatePairedDeviceIds, TypeOK, ChunksLeft
  <1> QED
    BY <1>1, <1>2, <1>3, <1>4, <1>5 DEF Host

\* Every step keeps the types.
LEMMA NextTypes ==
    ASSUME TypeOK, ChunksLeft, [Next]_vars
    PROVE  TypeOK' /\ ChunksLeft'
  <1>1. CASE Device
    <2>1. UNCHANGED co
      BY <1>1 DEF Device, ota_begin, ota_write_data, ota_finish, ota_abort,
                  DeviceDisconnected, esp_restart, Reboot, hostVars
    <2> QED
      BY <1>1, <2>1, DeviceTypes DEF ChunksLeft
  <1>2. CASE PowerLoss \/ Connect \/ Drop \/ Relink
    <2>1. UNCHANGED co
      BY <1>2 DEF PowerLoss, Reboot, Connect, Drop, Relink, hostVars
    <2> QED
      BY <1>2, <2>1, LinkTypes DEF ChunksLeft
  <1>3. CASE \/ Host \/ CancelFirmwareUpdate \/ UpdatePairedDeviceIds
             \/ \E t \in Transfers : UpdateFirmware(t)
    BY <1>3, HostTypes
  <1>4. CASE \E t \in Transfers : Coroutine(t)
    BY <1>4, CoroutineTypes
  <1>5. CASE UNCHANGED vars
    BY <1>5 DEF vars, deviceVars, hostVars, sessionVars, TypeOK, ChunksLeft
  <1> QED
    BY <1>1, <1>2, <1>3, <1>4, <1>5 DEF Next

-----------------------------------------------------------------------------
(* The image *)

\* A handler that clears s_ota discards what was staged.
LEMMA ClearedDiscards ==
    ASSUME ota' = Cleared, boot' = boot
    PROVE  ImageGrows' /\ AU!AuNext
  <1>1. ~ota'.active
    BY DEF Cleared
  <1> QED
    BY <1>1 DEF ImageGrows, AU!AuNext, AU!Discard

\* A step that leaves s_ota and the partitions alone.
LEMMA ImageUntouched ==
    ASSUME ImageGrows, UNCHANGED <<ota, flash, boot>>
    PROVE  ImageGrows' /\ UNCHANGED AU!auVars
  BY DEF ImageGrows, AU!auVars

\* Every step of the program is one of the abstract update, or none.
LEMMA ImageSteps ==
    ASSUME TypeOK, ImageGrows, [Next]_vars
    PROVE  ImageGrows' /\ [AU!AuNext]_(AU!auVars)
  <1> DEFINE m == Head(toDevice)
  <1> USE Constants
  <1>1. CASE ota_begin
    <2>1. m.transfer \in Transfers
      BY <1>1, AccessTypes DEF ota_begin, DeviceWrite
    <2>2. boot' = boot
      BY <1>1 DEF ota_begin
    <2>3. CASE ota' = Cleared
      BY <2>2, <2>3, ClearedDiscards
    <2>4. CASE /\ ota' = [active |-> TRUE, transfer |-> m.transfer, written |-> 0]
               /\ flash' = <<>>
      <3>1. ota'.active /\ ota'.transfer = m.transfer /\ ota'.written = 0
        BY <2>4
      <3>2. ImageGrows'
        BY <2>1, <2>4, <3>1, PrefixEmpty DEF ImageGrows
      <3>3. AU!Discard
        BY <2>2, <2>4, <3>1 DEF AU!Discard
      <3> QED
        BY <3>2, <3>3 DEF AU!AuNext
    <2> QED
      BY <1>1, <2>3, <2>4 DEF ota_begin
  <1>2. CASE ota_write_data
    <2>1. boot' = boot
      BY <1>2 DEF ota_write_data
    <2>2. CASE UNCHANGED <<ota, flash>>
      BY <2>1, <2>2, ImageUntouched
    <2>3. CASE /\ ~NotActive(m.transfer) /\ ~BadOffset(m.offset)
               /\ flash' = Append(flash, AU!Chunk(m.transfer, m.offset))
               /\ ota' = [ota EXCEPT !.written = @ + 1]
      <3> DEFINE n == ota.written
                 t == ota.transfer
      <3>1. ota.active /\ m.transfer = t /\ m.offset = n /\ n + 1 <= Chunks /\ n \in 0..Chunks
        BY <2>3 DEF NotActive, BadOffset, TypeOK, OtaState
      <3>2. t \in Transfers /\ flash = AU!Prefix(t, n) /\ n \in 0..(Chunks - 1)
        BY <3>1 DEF ImageGrows
      <3>3. ota'.active /\ ota'.transfer = t /\ ota'.written = n + 1
        BY <2>3, <3>1 DEF TypeOK, OtaState
      <3>4. flash' = AU!Prefix(t, n + 1)
        BY <2>3, <3>1, <3>2, PrefixAppend
      <3>5. ImageGrows'
        BY <3>2, <3>3, <3>4 DEF ImageGrows
      <3>6. AU!Receive
        BY <2>1, <3>1, <3>2, <3>3, <3>4 DEF AU!Receive
      <3> QED
        BY <3>5, <3>6 DEF AU!AuNext
    <2> QED
      BY <1>2, <2>2, <2>3 DEF ota_write_data
  <1>3. CASE ota_finish
    <2>1. CASE UNCHANGED <<ota, boot>>
      BY <1>3, <2>1, ImageUntouched DEF ota_finish
    <2>2. CASE ota' = Cleared /\ boot' = boot
      BY <2>2, ClearedDiscards
    <2>3. CASE /\ ~NotActive(m.transfer) /\ ~Incomplete
               /\ boot' = flash /\ ota' = Cleared
      <3>1. ota.active /\ ota.written = Chunks /\ ~ota'.active
        BY <2>3 DEF NotActive, Incomplete, Cleared
      <3>2. ota.transfer \in Transfers /\ flash = AU!Whole(ota.transfer)
        BY <3>1 DEF ImageGrows, AU!Whole
      <3>3. AU!Commit
        BY <2>3, <3>1, <3>2 DEF AU!Commit
      <3> QED
        BY <3>1, <3>3 DEF ImageGrows, AU!AuNext
    <2> QED
      BY <1>3, <2>1, <2>2, <2>3 DEF ota_finish
  <1>4. CASE ota_abort
    BY <1>4, ClearedDiscards DEF ota_abort
  <1>5. CASE DeviceDisconnected
    BY <1>5, ClearedDiscards DEF DeviceDisconnected
  <1>6. CASE Reboot
    BY <1>6, ClearedDiscards DEF Reboot
  <1>7. CASE Connect \/ Drop \/ Relink
    BY <1>7, ImageUntouched DEF Connect, Drop, Relink, deviceVars
  <1>8. CASE Host \/ CancelFirmwareUpdate \/ UpdatePairedDeviceIds
    BY <1>8, ImageUntouched DEF Host, HandleFirmwareOtaStateEvent,
       HandleDeviceDisconnected, CancelFirmwareUpdate, UpdatePairedDeviceIds, deviceVars
  <1>9. ASSUME NEW t \in Transfers, UpdateFirmware(t) \/ Coroutine(t)
        PROVE  ImageGrows' /\ [AU!AuNext]_(AU!auVars)
    <2>1. UNCHANGED deviceVars
      BY <1>9 DEF UpdateFirmware, Coroutine, StartTransfer, BeginAnswered, WriteFailed,
         CancelSeen, DataLoop, WriteData, FinalWait, WriteEnd, CoUnchanged
    <2> QED
      BY <2>1, ImageUntouched DEF deviceVars
  <1>10. CASE UNCHANGED vars
    BY <1>10, ImageUntouched DEF vars, deviceVars
  <1> QED
    BY <1>1, <1>2, <1>3, <1>4, <1>5, <1>6, <1>7, <1>8, <1>9, <1>10
       DEF Next, Device, esp_restart, PowerLoss

-----------------------------------------------------------------------------
(* What the host is told *)

\* Entries of a queue after a send, and after its head is taken.
LEMMA QueueEntries ==
    ASSUME NEW S, NEW q \in Seq(S), NEW e \in S
    PROVE  /\ \A i \in DOMAIN Append(q, e) :
                 (i \in DOMAIN q /\ Append(q, e)[i] = q[i]) \/ Append(q, e)[i] = e
           /\ q # <<>> => /\ 1 \in DOMAIN q /\ Head(q) = q[1]
                          /\ \A i \in DOMAIN Tail(q) :
                                i + 1 \in DOMAIN q /\ Tail(q)[i] = q[i + 1]
  OBVIOUS

\* A notification is true if what it adds is.
LEMMA NotifyTrue ==
    ASSUME TypeOK, DoneIsApplied, applied \subseteq applied',
           NEW e \in HostEvent, Notify(e) \/ Quiet,
           e.event = "done" => e.transfer \in applied'
    PROVE  DoneIsApplied'
  <1>1. toHost \in Seq(HostEvent)
    BY DEF TypeOK
  <1>2. CASE toHost' = Append(toHost, e)
    BY <1>1, <1>2, QueueEntries DEF DoneIsApplied
  <1>3. CASE UNCHANGED toHost
    BY <1>3 DEF DoneIsApplied
  <1> QED
    BY <1>2, <1>3 DEF Notify, Quiet

\* Losing the end of the queue makes nothing untrue.
LEMMA PrefixTrue ==
    ASSUME TypeOK, DoneIsApplied, applied' = applied, toHost' \in Prefixes(toHost)
    PROVE  DoneIsApplied'
  BY PrefixEntries DEF TypeOK, DoneIsApplied

\* Failing an update never reports success.
LEMMA FailedIsTrue ==
    ASSUME TypeOK, SuccessBoots, applied \subseteq applied',
           NEW t, FinishFirmwareUpdate(t, "failed") \/ UNCHANGED result
    PROVE  SuccessBoots'
  <1>1. result \in [Transfers -> {"none", "done", "failed"}]
    BY DEF TypeOK
  <1>2. \A u \in Transfers : result'[u] = "done" => result[u] = "done"
    BY <1>1 DEF FinishFirmwareUpdate, sessionVars
  <1> QED
    BY <1>2 DEF SuccessBoots

\* Whoever tells of success, the events and the results stay true.
LEMMA TrueSteps ==
    ASSUME TypeOK, DoneIsApplied, SuccessBoots, [Next]_vars
    PROVE  DoneIsApplied' /\ SuccessBoots'
  <1> DEFINE m == Head(toDevice)
             error == OtaEvent("error", 0, 0)
  <1> USE Constants
  <1>0. error \in HostEvent /\ error.event # "done"
    BY EventTypes DEF OtaEvent
  <1>1. CASE ota_begin \/ ota_abort \/ DeviceDisconnected
    <2>1. applied' = applied /\ UNCHANGED result
      BY <1>1 DEF ota_begin, ota_abort, DeviceDisconnected, hostVars
    <2>2. Notify(error) \/ Quiet
      BY <1>1 DEF ota_begin, ota_abort, DeviceDisconnected, ota_send_error
    <2> QED
      BY <1>0, <2>1, <2>2, NotifyTrue, FailedIsTrue
  <1>2. CASE ota_write_data
    <2> DEFINE progress == OtaEvent("progress", m.transfer, ota'.written)
    <2>1. applied' = applied /\ UNCHANGED result
      BY <1>2 DEF ota_write_data, hostVars
    <2>2. m.transfer \in Transfers
      BY <1>2, AccessTypes DEF ota_write_data, DeviceWrite
    <2>3. TypeOK'
      BY <1>2, DeviceTypes DEF Device
    <2>4. progress \in HostEvent /\ progress.event # "done"
      BY <2>2, <2>3, EventTypes DEF OtaEvent, TypeOK, OtaState
    <2>5. Notify(error) \/ Notify(progress) \/ Quiet
      BY <1>2 DEF ota_write_data, ota_send_error
    <2> QED
      BY <1>0, <2>1, <2>4, <2>5, NotifyTrue, FailedIsTrue
  <1>3. CASE ota_finish
    <2> DEFINE done == OtaEvent("done", m.transfer, Chunks)
    <2>1. applied \subseteq applied' /\ UNCHANGED result
      BY <1>3 DEF ota_finish, hostVars
    <2>2. m.transfer \in Transfers
      BY <1>3, AccessTypes DEF ota_finish, DeviceWrite
    <2>3. done \in HostEvent /\ done.transfer = m.transfer
      <3>1. Chunks \in 0..Chunks
        OBVIOUS
      <3>2. done \in HostEvent
        BY <2>2, <3>1, EventTypes
      <3> QED
        BY <3>2 DEF OtaEvent
    <2>4. Notify(error) \/ (Notify(done) /\ m.transfer \in applied')
      BY <1>3 DEF ota_finish, ota_send_error
    <2> QED
      BY <1>0, <2>1, <2>3, <2>4, NotifyTrue, FailedIsTrue
  <1>4. CASE Reboot \/ Drop
    <2>1. applied' = applied /\ UNCHANGED result /\ toHost' \in Prefixes(toHost)
      BY <1>4 DEF Reboot, Drop, deviceVars, hostVars
    <2> QED
      BY <2>1, PrefixTrue, FailedIsTrue
  <1>5. CASE HandleFirmwareOtaStateEvent
    <2> DEFINE e == Head(toHost)
    <2>1. applied' = applied /\ toHost # <<>> /\ toHost' = Tail(toHost)
      BY <1>5 DEF HandleFirmwareOtaStateEvent, deviceVars
    <2>2. /\ 1 \in DOMAIN toHost /\ e = toHost[1]
          /\ \A i \in DOMAIN toHost' : i + 1 \in DOMAIN toHost /\ toHost'[i] = toHost[i + 1]
      BY <1>0, <2>1, QueueEntries DEF TypeOK
    <2>3. DoneIsApplied'
      BY <2>1, <2>2 DEF DoneIsApplied
    <2>4. e.event = "done" => e.transfer \in applied /\ e.transfer # 0
      BY <2>2 DEF DoneIsApplied, TypeOK
    <2>5. CASE UNCHANGED result \/ FinishFirmwareUpdate(update, "failed")
      BY <2>1, <2>3, <2>5, FailedIsTrue
    <2>6. CASE /\ e.event = "done" /\ (e.transfer = 0 \/ e.transfer = update)
               /\ FinishFirmwareUpdate(update, "done")
      <3>1. update \in applied
        BY <2>4, <2>6
      <3>2. \A t \in Transfers : result'[t] = "done" => result[t] = "done" \/ t = update
        BY <2>6 DEF FinishFirmwareUpdate, sessionVars, TypeOK
      <3> QED
        BY <2>1, <2>3, <3>1, <3>2 DEF SuccessBoots
    <2> QED
      BY <1>5, <2>5, <2>6 DEF HandleFirmwareOtaStateEvent, sessionVars
  <1>6. CASE CancelFirmwareUpdate \/ Connect \/ Relink
    <2>1. applied' = applied /\ UNCHANGED toHost
      BY <1>6 DEF CancelFirmwareUpdate, Connect, Relink, deviceVars
    <2>2. UNCHANGED result \/ FinishFirmwareUpdate(update, "failed")
      BY <1>6 DEF CancelFirmwareUpdate, Connect, Relink, sessionVars
    <2> QED
      BY <2>1, <2>2, FailedIsTrue DEF DoneIsApplied
  <1>9. CASE HandleDeviceDisconnected \/ UpdatePairedDeviceIds
    <2>1. applied' = applied /\ toHost' \in Prefixes(toHost)
      BY <1>9 DEF HandleDeviceDisconnected, UpdatePairedDeviceIds, CloseSession, deviceVars
    <2>2. UNCHANGED result \/ FinishFirmwareUpdate(update, "failed")
      BY <1>9 DEF HandleDeviceDisconnected, UpdatePairedDeviceIds, sessionVars
    <2> QED
      BY <2>1, <2>2, PrefixTrue, FailedIsTrue
  <1>7. ASSUME NEW t \in Transfers, UpdateFirmware(t) \/ Coroutine(t)
        PROVE  DoneIsApplied' /\ SuccessBoots'
    <2>1. applied' = applied /\ UNCHANGED toHost
      BY <1>7 DEF UpdateFirmware, Coroutine, StartTransfer, BeginAnswered, WriteFailed,
         CancelSeen, DataLoop, WriteData, FinalWait, WriteEnd, CoUnchanged, deviceVars
    <2>2. UNCHANGED result \/ FinishFirmwareUpdate(t, "failed")
      BY <1>7 DEF UpdateFirmware, Coroutine, StartTransfer, BeginAnswered, WriteFailed,
         CancelSeen, DataLoop, WriteData, FinalWait, WriteEnd, WriteLost, Fail, sessionVars
    <2> QED
      BY <2>1, <2>2, FailedIsTrue DEF DoneIsApplied
  <1>8. CASE UNCHANGED vars
    BY <1>8 DEF vars, deviceVars, hostVars, DoneIsApplied, SuccessBoots
  <1> QED
    BY <1>1, <1>2, <1>3, <1>4, <1>5, <1>6, <1>7, <1>8, <1>9
       DEF Next, Device, Host, esp_restart, PowerLoss

-----------------------------------------------------------------------------
(* Theorems *)

\* The inductive invariant holds of every behaviour.
THEOREM Invariance == Spec => []IInv
  <1>1. IInv /\ [Next]_vars => IInv'
    BY NextTypes, ImageSteps, TrueSteps DEF IInv
  <1> QED
    BY <1>1, InitInv, PTL DEF Spec

\* Every variable keeps its type, for any image size, window and number of
\* transfers and sessions.
THEOREM TypeCorrect == Spec => []TypeOK
  <1>1. IInv => TypeOK
    BY DEF IInv
  <1> QED
    BY <1>1, Invariance, PTL

\* The device implements the abstract update (ota_begin, ota_write_data,
\* ota_finish): it only ever boots an image received whole, in order and from
\* one transfer, for any number of transfers whose writes mix and links that
\* drop, and whenever the power fails.
THEOREM ImplementsAtomicUpdate == Spec => BootsWholeImage
  <1>1. Init => AU!AuInit
    BY DEF Init, Cleared, AU!AuInit
  <1>2. IInv /\ [Next]_vars => [AU!AuNext]_(AU!auVars)
    BY ImageSteps DEF IInv
  <1> QED
    BY <1>1, <1>2, Invariance, PTL DEF Spec, BootsWholeImage, AU!AuSpec

\* An update reported to have succeeded did make its image the boot image
\* (HandleFirmwareOtaStateEvent, ota_finish).
THEOREM SuccessIsBooted == Spec => []SuccessBoots
  <1>1. IInv => SuccessBoots
    BY DEF IInv
  <1> QED
    BY <1>1, Invariance, PTL
=============================================================================
