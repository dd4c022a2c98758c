--------------------------- MODULE FirmwareUpdate ---------------------------
(***************************************************************************)
(* A firmware update over BLE, both ends of it: the OTA service of the     *)
(* device (src/firmware/components/voice_ble/voice_ble.c) and the transfer *)
(* of the Windows host (src/desktop/windows/src/ble_central_win.cc), which *)
(* talk over a link that may drop.                                         *)
(*                                                                         *)
(* The device handles one write at a time on the NimBLE host task.  On the *)
(* host a transfer is a coroutine on a pool thread, OTA state events and   *)
(* cancellation run on the UI thread, and a disconnection is noticed on a  *)
(* thread of the Bluetooth stack; firmware_update_session_ is all they     *)
(* share.  A finished transfer's coroutine may still be running when the   *)
(* next one starts.                                                        *)
(*                                                                         *)
(* An image is Chunks chunks and a chunk one unit of offset; the events    *)
(* "ready" and "aborted", which the host ignores, are left out.            *)
(***************************************************************************)
EXTENDS Naturals, Sequences

CONSTANTS
    Chunks,         \* chunks of an image
    Transfers,      \* transfer ids, used once each and in order
    ProgressEvery,  \* OTA_PROGRESS_NOTIFY_BYTES
    MaxInFlight,    \* max_in_flight of the host
    MaxSessions     \* bound on how often the host connects

ASSUME ChunksAssumption == Chunks \in Nat \ {0}
ASSUME TransfersAssumption == Transfers \subseteq Nat \ {0}
ASSUME WindowAssumption ==
    /\ ProgressEvery \in Nat \ {0}
    /\ MaxInFlight \in Nat
    /\ ProgressEvery <= MaxInFlight + 1
ASSUME MaxSessionsAssumption == MaxSessions \in Nat

VARIABLES
    link,           \* the BLE link is up
    toDevice,       \* writes to ota_rx the device has not handled
    toHost,         \* ota_state notifications, and those queued for the UI thread
    \* the device
    s_connected,
    ota,            \* s_ota
    flash,          \* what esp_ota_write put in the update partition
    boot,           \* contents of the boot partition
    rebooting,      \* ota_finish waits to call esp_restart
    \* the host
    session,        \* the DeviceSession that is ready, or 0
    sessions,       \* how many there were
    update,         \* transfer of firmware_update_session_, or 0
    co,             \* UpdateFirmwareAsync of each transfer
    confirmed,      \* device_confirmed_written of each transfer
    cancelled,      \* the transfers with cancel_requested
    answer,         \* the answer to the write with response a transfer awaits
    result,         \* what the completion of each transfer was told
    crashed,        \* the host used a session or an update that was reset
    \* history
    applied,        \* transfers whose image was made the boot image
    starved,        \* an OTA state event found no buffer
    untold          \* transfers not told that their session or its link went

deviceVars == <<s_connected, ota, flash, boot, rebooting, applied>>
sessionVars == <<update, result>>
hostVars == <<session, sessions, update, co, confirmed, cancelled, result, crashed, untold>>
vars == <<link, toDevice, toHost, deviceVars, hostVars, answer, starved>>

AU == INSTANCE AtomicUpdate WITH staged <- IF ota.active THEN flash ELSE <<>>

\* Where a coroutine is: not started, in UpdateFirmware after the unlock,
\* awaiting the answer to BEGIN, checking the data loop, writing DATA, in the
\* final wait, writing END, awaiting the answer to END, and returned.
Places == {"none", "created", "begin", "data", "write", "confirm", "finish", "end", "gone"}

Cleared == [active |-> FALSE, transfer |-> 0, written |-> 0]
Message(type, t, offset) == [type |-> type, transfer |-> t, offset |-> offset]
\* An error event does not say which transfer it is about.
OtaEvent(event, t, written) == [event |-> event, transfer |-> t, written |-> written]

Prefixes(q) == {SubSeq(q, 1, n) : n \in 0..Len(q)}

\* What travels in either direction, what a chunk of flash holds, and the
\* states of a transfer on the device and on the host.
DeviceWrite == [type : {"begin", "data", "end", "abort"},
                transfer : Transfers, offset : 0..Chunks]
HostEvent   == [event : {"progress", "done", "error"},
                transfer : Transfers \cup {0}, written : 0..Chunks]
ImageChunk  == [transfer : Transfers, offset : 0..Chunks]
OtaState    == [active : BOOLEAN, transfer : Transfers \cup {0}, written : 0..Chunks]
CoState     == [at : Places, offset : 0..Chunks, session : 0..MaxSessions]

\* The type of every variable.
TypeOK ==
    /\ link \in BOOLEAN
    /\ toDevice \in Seq(DeviceWrite)
    /\ toHost \in Seq(HostEvent)
    /\ s_connected \in BOOLEAN
    /\ ota \in OtaState
    /\ flash \in Seq(ImageChunk) /\ boot \in Seq(ImageChunk)
    /\ rebooting \in BOOLEAN
    /\ session \in 0..MaxSessions /\ sessions \in 0..MaxSessions
    /\ update \in Transfers \cup {0}
    /\ co \in [Transfers -> CoState]
    /\ confirmed \in [Transfers -> 0..Chunks]
    /\ cancelled \subseteq Transfers
    /\ answer \in [Transfers -> {"none", "ok", "error"}]
    /\ result \in [Transfers -> {"none", "done", "failed"}]
    /\ crashed \in BOOLEAN
    /\ applied \subseteq Transfers
    /\ starved \in BOOLEAN
    /\ untold \subseteq Transfers

Init ==
    /\ link = FALSE /\ toDevice = <<>> /\ toHost = <<>>
    /\ s_connected = FALSE /\ ota = Cleared /\ flash = <<>> /\ boot = AU!Factory
    /\ rebooting = FALSE
    /\ session = 0 /\ sessions = 0 /\ update = 0 /\ crashed = FALSE
    /\ co = [t \in Transfers |-> [at |-> "none", offset |-> 0, session |-> 0]]
    /\ confirmed = [t \in Transfers |-> 0]
    /\ cancelled = {}
    /\ answer = [t \in Transfers |-> "none"]
    /\ result = [t \in Transfers |-> "none"]
    /\ applied = {} /\ starved = FALSE /\ untold = {}

-----------------------------------------------------------------------------
(* The device. *)

\* ota_send_state_json: a notification may find no buffer; its result is
\* ignored.  A host without a session has no handler for it.
Notify(e) ==
    \/ /\ toHost' = IF link /\ session # 0 THEN Append(toHost, e) ELSE toHost
       /\ UNCHANGED starved
    \/ /\ UNCHANGED toHost
       /\ starved' = TRUE

Quiet == UNCHANGED <<toHost, starved>>

ota_send_error == Notify(OtaEvent("error", 0, 0))

\* What the write with response of a transfer is answered, if the link is up.
Answer(t, rc) == answer' = IF link THEN [answer EXCEPT ![t] = rc] ELSE answer

\* ota_access_cb takes the next write.
Access(type, m) ==
    /\ toDevice # <<>> /\ ~rebooting
    /\ m = Head(toDevice) /\ m.type = type
    /\ toDevice' = Tail(toDevice)

\* An active transfer is aborted first.  Without a partition, with a bad size
\* or when esp_ota_begin fails nothing is active.
ota_begin ==
    LET m == Head(toDevice) IN
        /\ Access("begin", m)
        /\ \/ /\ ota' = [active |-> TRUE, transfer |-> m.transfer, written |-> 0]
              /\ flash' = <<>>
              /\ Answer(m.transfer, "ok")
              /\ Quiet
           \/ /\ ota' = Cleared
              /\ Answer(m.transfer, "error")
              /\ ota_send_error
              /\ UNCHANGED flash
        /\ UNCHANGED <<link, s_connected, boot, rebooting, applied, hostVars>>

\* Mutant: a write of another transfer is accepted.
NotActiveAnyId(t) == ~ota.active

NotActive(t) == ~ota.active \/ t # ota.transfer
BadOffset(offset) == offset # ota.written \/ ota.written + 1 > Chunks

\* A refused or failed write leaves s_ota as it is.
ota_write_data ==
    LET m == Head(toDevice) IN
        /\ Access("data", m)
        /\ \/ /\ \/ NotActive(m.transfer)
                 \/ BadOffset(m.offset)
                 \/ TRUE  \* esp_ota_write failed
              /\ ota_send_error
              /\ UNCHANGED <<ota, flash>>
           \/ /\ ~NotActive(m.transfer) /\ ~BadOffset(m.offset)
              /\ flash' = Append(flash, AU!Chunk(m.transfer, m.offset))
              /\ ota' = [ota EXCEPT !.written = @ + 1]
              /\ IF ota'.written % ProgressEvery = 0 \/ ota'.written = Chunks
                 THEN Notify(OtaEvent("progress", m.transfer, ota'.written))
                 ELSE Quiet
        /\ UNCHANGED <<link, answer, s_connected, boot, rebooting, applied, hostVars>>

Incomplete == ota.written # Chunks

\* After done the handler waits 500 ms and restarts: the write is never
\* answered.  esp_ota_end and esp_ota_set_boot_partition may fail.
ota_finish ==
    LET m == Head(toDevice) IN
        /\ Access("end", m)
        /\ \/ /\ NotActive(m.transfer) \/ Incomplete
              /\ ota_send_error
              /\ Answer(m.transfer, "error")
              /\ UNCHANGED <<ota, boot, rebooting, applied>>
           \/ /\ ~NotActive(m.transfer) /\ ~Incomplete
              /\ ota' = Cleared
              /\ ota_send_error
              /\ Answer(m.transfer, "error")
              /\ UNCHANGED <<boot, rebooting, applied>>
           \/ /\ ~NotActive(m.transfer) /\ ~Incomplete
              /\ boot' = flash
              /\ applied' = applied \cup {m.transfer}
              /\ ota' = Cleared
              /\ Notify(OtaEvent("done", m.transfer, Chunks))
              /\ rebooting' = TRUE
              /\ UNCHANGED answer
        /\ UNCHANGED <<link, s_connected, flash, hostVars>>

\* An abort clears s_ota whatever transfer it names.
ota_abort ==
    LET m == Head(toDevice) IN
        /\ Access("abort", m)
        /\ ota' = Cleared
        /\ Quiet
        /\ UNCHANGED <<link, answer, s_connected, flash, boot, rebooting, applied,
                       hostVars>>

\* BLE_GAP_EVENT_DISCONNECT, after the writes that came before it.
DeviceDisconnected ==
    /\ s_connected /\ ~link /\ toDevice = <<>> /\ ~rebooting
    /\ s_connected' = FALSE
    /\ ota' = Cleared
    /\ Quiet
    /\ UNCHANGED <<link, toDevice, answer, flash, boot, rebooting, applied, hostVars>>

\* A write with response that is awaited fails with its link.
AnswersLost ==
    answer' = [t \in Transfers |-> IF co[t].at \in {"begin", "end"} /\ answer[t] = "none"
                                   THEN "error" ELSE answer[t]]

\* The device starts from the boot partition; the host gets some of what was
\* on the air.
Reboot ==
    /\ s_connected' = FALSE /\ ota' = Cleared /\ rebooting' = FALSE
    /\ link' = FALSE /\ toDevice' = <<>>
    /\ toHost' \in Prefixes(toHost)
    /\ AnswersLost
    /\ UNCHANGED <<starved, flash, boot, applied, hostVars>>

esp_restart == rebooting /\ Reboot
PowerLoss   == ~rebooting /\ s_connected /\ Reboot

-----------------------------------------------------------------------------
(* The link. *)

\* The host is connected and its session ready, over a new link or over one
\* that outlived its session.
Connect ==
    /\ session = 0 /\ ~rebooting /\ sessions < MaxSessions
    /\ link \/ ~s_connected
    /\ sessions' = sessions + 1 /\ session' = sessions'
    /\ link' = TRUE /\ s_connected' = TRUE
    /\ UNCHANGED <<toDevice, toHost, ota, flash, boot, rebooting, applied, sessionVars,
                   co, confirmed, cancelled, crashed, untold, answer, starved>>

\* What had arrived is still handled, the rest is lost.
Drop ==
    /\ link
    /\ link' = FALSE
    /\ toDevice' \in Prefixes(toDevice)
    /\ toHost' \in Prefixes(toHost)
    /\ AnswersLost
    /\ UNCHANGED <<deviceVars, hostVars, starved>>

\* Nothing was told of the running update.
LeaveUpdate == untold' = untold \cup ({update} \ {0})

\* Windows has the link back before the handler of the loss reads the status:
\* the handler returns, and the session stays.
Relink ==
    /\ ~crashed /\ session # 0 /\ ~link /\ ~s_connected
    /\ link' = TRUE /\ s_connected' = TRUE
    /\ LeaveUpdate
    /\ UNCHANGED <<toDevice, toHost, ota, flash, boot, rebooting, applied, sessionVars,
                   session, sessions, co, confirmed, cancelled, crashed, answer, starved>>

-----------------------------------------------------------------------------
(* The host. *)

\* Only the session that is current has a completion left to call.
FinishFirmwareUpdate(t, r) ==
    IF t # 0 /\ update = t
    THEN update' = 0 /\ result' = [result EXCEPT ![t] = r]
    ELSE UNCHANGED sessionVars

Return(t) == co' = [co EXCEPT ![t].at = "gone"]

Write(t, m) == toDevice' = Append(toDevice, m)

\* Called on the thread that downloaded the image.  A later transfer has its
\* image only after this one has left UpdateFirmware.
UpdateFirmware(t) ==
    /\ ~crashed /\ update = 0 /\ session # 0
    /\ \A u \in Transfers : co[u].at # "created"
    /\ co[t].at = "none"
    /\ \A u \in Transfers : u < t => co[u].at # "none"
    /\ update' = t
    /\ co' = [co EXCEPT ![t] = [at |-> "created", offset |-> 0, session |-> session]]
    /\ UNCHANGED <<link, toDevice, toHost, deviceVars, session, sessions, confirmed,
                   cancelled, result, crashed, untold, answer, starved>>

\* The steps of a coroutine leave the rest alone.
CoUnchanged == UNCHANGED <<link, toHost, deviceVars, session, sessions, confirmed, cancelled,
                           untold, starved>>

Fail(t) ==
    /\ FinishFirmwareUpdate(t, "failed")
    /\ Return(t)

\* CloseSession has been at the session of the coroutine.
Closed(t) == session # co[t].session

\* UpdateFirmware reads firmware_update_session_ again, twice, without the
\* lock, and starts the coroutine, which writes BEGIN.
StartTransfer(t) ==
    /\ ~crashed /\ co[t].at = "created"
    /\ \/ /\ update # t
          /\ crashed' = TRUE
          /\ UNCHANGED <<co, toDevice, sessionVars>>
       \/ /\ update # t
          /\ Return(t)
          /\ UNCHANGED <<crashed, toDevice, sessionVars>>
       \/ /\ update = t /\ link /\ ~Closed(t)
          /\ Write(t, Message("begin", t, 0))
          /\ co' = [co EXCEPT ![t].at = "begin"]
          /\ UNCHANGED <<crashed, sessionVars>>
       \/ /\ update = t /\ (~link \/ Closed(t))
          /\ Fail(t)
          /\ UNCHANGED <<crashed, toDevice>>
    /\ CoUnchanged /\ UNCHANGED answer

BeginAnswered(t) ==
    /\ ~crashed /\ co[t].at = "begin" /\ answer[t] = "ok"
    /\ answer' = [answer EXCEPT ![t] = "none"]
    /\ co' = [co EXCEPT ![t].at = "data"]
    /\ CoUnchanged /\ UNCHANGED <<crashed, toDevice, sessionVars>>

\* A write with response was refused, or its link went.
WriteFailed(t) ==
    /\ ~crashed /\ co[t].at \in {"begin", "end"} /\ answer[t] = "error"
    /\ Fail(t)
    /\ CoUnchanged /\ UNCHANGED <<crashed, toDevice, answer>>

\* The loops look at cancel_requested first.
CancelSeen(t) ==
    /\ ~crashed /\ co[t].at \in {"data", "confirm"} /\ t \in cancelled
    /\ Return(t)
    /\ CoUnchanged /\ UNCHANGED <<crashed, toDevice, sessionVars, answer>>

WindowOpen(t) == co[t].offset <= confirmed[t] + MaxInFlight

\* The data loop waits, without a limit, while too much is unconfirmed.
DataLoop(t) ==
    /\ ~crashed /\ co[t].at = "data" /\ t \notin cancelled
    /\ WindowOpen(t)
    /\ co' = [co EXCEPT ![t].at = "write"]
    /\ CoUnchanged /\ UNCHANGED <<crashed, toDevice, sessionVars, answer>>

\* A write fails without a link.  One through a closed session throws, or finds
\* that CloseSession has set the characteristic to null, which nothing catches.
WriteLost(t) ==
    /\ \/ ~link /\ Fail(t) /\ UNCHANGED crashed
       \/ Closed(t) /\ Fail(t) /\ UNCHANGED crashed
       \/ Closed(t) /\ crashed' = TRUE /\ UNCHANGED <<co, sessionVars>>
    /\ UNCHANGED toDevice

WriteData(t) ==
    /\ ~crashed /\ co[t].at = "write"
    /\ \/ /\ link /\ ~Closed(t)
          /\ Write(t, Message("data", t, co[t].offset))
          /\ co' = [co EXCEPT ![t].offset = @ + 1,
                              ![t].at = IF co[t].offset + 1 < Chunks
                                        THEN "data" ELSE "confirm"]
          /\ UNCHANGED <<crashed, sessionVars>>
       \/ WriteLost(t)
    /\ CoUnchanged /\ UNCHANGED answer

\* The final wait lasts at most 10 s.
FinalWait(t) ==
    /\ ~crashed /\ co[t].at = "confirm" /\ t \notin cancelled
    /\ \/ /\ confirmed[t] >= Chunks
          /\ co' = [co EXCEPT ![t].at = "finish"]
          /\ UNCHANGED sessionVars
       \/ /\ confirmed[t] < Chunks
          /\ Fail(t)
    /\ CoUnchanged /\ UNCHANGED <<crashed, toDevice, answer>>

WriteEnd(t) ==
    /\ ~crashed /\ co[t].at = "finish"
    /\ \/ /\ link /\ ~Closed(t)
          /\ Write(t, Message("end", t, 0))
          /\ co' = [co EXCEPT ![t].at = "end"]
          /\ UNCHANGED <<crashed, sessionVars>>
       \/ WriteLost(t)
    /\ CoUnchanged /\ UNCHANGED answer

\* Mutant: the transfer an event names is not compared.
HandleFirmwareOtaStateEventAny ==
    /\ ~crashed /\ toHost # <<>>
    /\ toHost' = Tail(toHost)
    /\ LET e == Head(toHost) IN
        IF update = 0 THEN UNCHANGED <<sessionVars, confirmed>>
        ELSE IF e.event = "progress"
             THEN confirmed' = [confirmed EXCEPT ![update] = e.written] /\ UNCHANGED sessionVars
             ELSE /\ FinishFirmwareUpdate(update, IF e.event = "done" THEN "done" ELSE "failed")
                  /\ UNCHANGED confirmed
    /\ UNCHANGED <<link, toDevice, deviceVars, session, sessions, co, cancelled, crashed,
                   untold, answer, starved>>

\* The events of another transfer are ignored; an error names none.
HandleFirmwareOtaStateEvent ==
    /\ ~crashed /\ toHost # <<>>
    /\ toHost' = Tail(toHost)
    /\ LET e == Head(toHost) IN
        IF update = 0 \/ (e.transfer # 0 /\ e.transfer # update)
        THEN UNCHANGED <<sessionVars, confirmed>>
        ELSE \/ /\ e.event = "progress"
                /\ confirmed' = [confirmed EXCEPT ![update] = e.written]
                /\ UNCHANGED sessionVars
             \/ /\ e.event = "done"
                /\ FinishFirmwareUpdate(update, "done")
                /\ UNCHANGED confirmed
             \/ /\ e.event = "error"
                /\ FinishFirmwareUpdate(update, "failed")
                /\ UNCHANGED confirmed
    /\ UNCHANGED <<link, toDevice, deviceVars, session, sessions, co, cancelled, crashed,
                   untold, answer, starved>>

CancelFirmwareUpdate ==
    /\ ~crashed /\ update # 0
    /\ cancelled' = cancelled \cup {update}
    /\ toDevice' = IF link /\ session # 0
                   THEN Append(toDevice, Message("abort", update, 0)) ELSE toDevice
    /\ FinishFirmwareUpdate(update, "failed")
    /\ UNCHANGED <<link, toHost, deviceVars, session, sessions, co, confirmed, crashed,
                   untold, answer, starved>>

\* CloseSession takes the handlers of the session away: what they had not yet
\* queued for the UI thread is lost.
CloseSession ==
    /\ session # 0
    /\ session' = 0
    /\ toHost' \in Prefixes(toHost)

\* Mutant: the update is not told that its device is gone.
HandleDeviceDisconnectedSilent ==
    /\ ~crashed /\ ~link
    /\ CloseSession
    /\ UNCHANGED <<link, sessions, toDevice, deviceVars, sessionVars, co, confirmed,
                   cancelled, crashed, untold, answer, starved>>

\* The link is still down when the handler of the loss reads the status.
HandleDeviceDisconnected ==
    /\ ~crashed /\ ~link
    /\ CloseSession
    /\ FinishFirmwareUpdate(update, "failed")
    /\ UNCHANGED <<link, sessions, toDevice, deviceVars, co, confirmed, cancelled, crashed,
                   untold, answer, starved>>

\* The list of paired devices changes, or a reconnection is asked for: the
\* session is closed whatever uses it, and its link may outlive it.
UpdatePairedDeviceIds ==
    /\ ~crashed
    /\ CloseSession
    /\ LeaveUpdate
    /\ AnswersLost \/ UNCHANGED answer
    /\ UNCHANGED <<link, sessions, toDevice, deviceVars, sessionVars, co, confirmed,
                   cancelled, crashed, starved>>

-----------------------------------------------------------------------------

Device == ota_begin \/ ota_write_data \/ ota_finish \/ ota_abort \/ DeviceDisconnected
          \/ esp_restart

Coroutine(t) == StartTransfer(t) \/ BeginAnswered(t) \/ WriteFailed(t) \/ CancelSeen(t)
                \/ DataLoop(t) \/ WriteData(t) \/ FinalWait(t) \/ WriteEnd(t)

Host == HandleFirmwareOtaStateEvent \/ HandleDeviceDisconnected

Next ==
    \/ Device \/ Host
    \/ PowerLoss \/ Connect \/ Drop \/ Relink
    \/ CancelFirmwareUpdate \/ UpdatePairedDeviceIds
    \/ \E t \in Transfers : UpdateFirmware(t) \/ Coroutine(t)

\* Tasks and threads keep running; users, links and power promise nothing.
Spec ==
    /\ Init /\ [][Next]_vars
    /\ WF_vars(Device)
    /\ WF_vars(HandleFirmwareOtaStateEvent) /\ WF_vars(HandleDeviceDisconnected)
    /\ \A t \in Transfers : WF_vars(Coroutine(t))

-----------------------------------------------------------------------------
(* Properties. *)

\* The device only ever boots an image received whole, in order and from one
\* transfer, whatever old coroutines still write (ota_begin, ota_write_data,
\* ota_finish).
BootsWholeImage == AU!AuSpec

\* An update reported to have succeeded did make its image the boot image:
\* events of an earlier transfer never complete a later one
\* (HandleFirmwareOtaStateEvent, ota_finish).
SuccessBoots == \A t \in Transfers : result[t] = "done" => t \in applied

\* An update always ends, in success or failure, with the link up or down: the
\* data loop waits for progress or an error without a limit
\* (UpdateFirmwareAsync).  The code breaks this in three ways, which are
\* excepted: the device could not send an event; the session was closed, or the
\* link came back, without the update being told; and the host crashed.
UpdateEnds ==
    \A t \in Transfers :
        update = t ~> (update # t \/ starved \/ t \in untold \/ crashed)
=============================================================================
