------------------------------- MODULE WinBle -------------------------------
(***************************************************************************)
(* The Bluetooth central of the Windows host                               *)
(* (src/desktop/windows/src/ble_central_win.cc): paired devices, the       *)
(* advertisement watcher, connection attempts and sessions.                *)
(*                                                                         *)
(* The UI thread pairs, forgets, cancels and restarts the scan; the        *)
(* watcher and the status handlers call from threads of the Bluetooth      *)
(* stack; an attempt is a coroutine that runs on whatever thread resumes   *)
(* it.  mutex_ protects the maps for the length of a lookup or a change    *)
(* only, so an attempt takes many steps between its first and its last.    *)
(*                                                                         *)
(* A device has one address, so addresses are devices.  The Bluetooth      *)
(* stack and the devices are external: a device in range answers, links    *)
(* come up while an object of the device is open and may end at any time,  *)
(* and a status event that is on its way is delivered even after its       *)
(* handler was detached.                                                   *)
(***************************************************************************)
EXTENDS Naturals

CONSTANTS
    Devices,
    MaxAttempts,  \* bound on how many connections are attempted
    Tries,        \* kServiceDiscoveryAttempts
    MaxUpdates    \* bound on how often the paired devices change

ASSUME BoundsAssumption ==
    MaxAttempts \in Nat \ {0} /\ Tries \in Nat \ {0} /\ MaxUpdates \in Nat

ASSUME DevicesAssumption == Devices # {}

Attempts == 1..MaxAttempts

VARIABLES
    paired,       \* paired_device_ids_
    sessions,     \* sessions_by_device_id_: the attempt that connected, or 0
    connecting,   \* connecting_addresses_
    cancelled,    \* cancelled_device_ids_
    watcher,      \* watcher_: "off", "on", or stopped by the stack ("dead")
    att,          \* ConnectDeviceAsync of each attempt, and its DeviceSession
    restart,      \* PublishConnections and StartScan are queued for the UI thread
    closing,      \* UpdatePairedDeviceIds has yet to close the sessions
    \* the stack
    link,         \* the devices whose link is up
    notices,      \* attempts whose status handler is about to see a disconnection
    \* history
    updates,      \* how often the paired devices changed
    split,        \* devices whose pairing was refreshed during an attempt
    missed        \* attempts whose disconnection came before their session

mapVars == <<paired, sessions, connecting, cancelled>>
uiVars  == <<watcher, restart, closing>>
airVars == <<link, notices>>
history == <<updates, split, missed>>
vars == <<mapVars, uiVars, att, airVars, history>>

\* Where an attempt is: its coroutine, a session, or neither any more.
Stages == {"open", "discover", "subscribe", "insert"}
Places == Stages \cup {"none", "connected", "failed", "closed"}

Live(a) == att[a].at \in Stages
LiveFor(d) == {a \in Attempts : Live(a) /\ att[a].device = d}

Idle == [device |-> CHOOSE d \in Devices : TRUE, at |-> "none", try |-> 1,
         unpaired |-> FALSE, attached |-> FALSE]

\* An attempt that has not begun is for no device in particular.
Attempt == [device : Devices, at : Places, try : 1..Tries,
            unpaired : BOOLEAN, attached : BOOLEAN]

\* The type of every variable.
TypeOK ==
    /\ paired \subseteq Devices
    /\ sessions \in [Devices -> Attempts \cup {0}]
    /\ connecting \subseteq Devices
    /\ cancelled \subseteq Devices
    /\ watcher \in {"off", "on", "dead"}
    /\ att \in [Attempts -> Attempt]
    /\ restart \in BOOLEAN /\ closing \in BOOLEAN
    /\ link \subseteq Devices
    /\ notices \subseteq Attempts
    /\ updates \in 0..MaxUpdates
    /\ split \subseteq Devices
    /\ missed \subseteq Attempts

\* The devices of the saved configuration; Start scans if there are any.
Init ==
    /\ paired \in SUBSET Devices
    /\ sessions = [d \in Devices |-> 0]
    /\ connecting = {} /\ cancelled = {}
    /\ watcher = IF paired = {} THEN "off" ELSE "on"
    /\ att = [a \in Attempts |-> Idle]
    /\ restart = FALSE /\ closing = FALSE
    /\ link = {} /\ notices = {}
    /\ updates = 0 /\ split = {} /\ missed = {}

-----------------------------------------------------------------------------
(* The UI thread. *)

\* StartScan: the watcher may not start, which is shown and not tried again.
StartScan(ids) == IF ids = {} THEN watcher' = "off" ELSE watcher' \in {"off", "on"}

\* CloseSession detaches the handlers and closes the handles.
Closed(as) ==
    [a \in Attempts |-> IF a \in as THEN [Idle EXCEPT !.device = att[a].device, !.at = "closed"]
                        ELSE att[a]]

SessionAttempts == {sessions[d] : d \in Devices} \ {0}

\* Pairing or forgetting a device, or reconnecting the paired ones: the marks
\* are cleared, and the attempts that run are not told.  The lock is released
\* before the sessions are closed.
UpdatePairedDeviceIds ==
    /\ ~closing /\ updates < MaxUpdates
    /\ updates' = updates + 1
    /\ paired' \in SUBSET Devices
    /\ connecting' = {}
    /\ split' = split \cup {d \in Devices : LiveFor(d) # {}}
    /\ closing' = TRUE
    /\ UNCHANGED <<sessions, cancelled, watcher, restart, att, airVars, missed>>

\* The rest of UpdatePairedDeviceIds
CloseSessions ==
    /\ closing
    /\ closing' = FALSE
    /\ sessions' = [d \in Devices |-> 0]
    /\ att' = Closed(SessionAttempts)
    /\ StartScan(paired)
    /\ UNCHANGED <<paired, connecting, cancelled, restart, airVars, history>>

Begin(d) ==
    \E a \in Attempts :
        /\ att[a].at = "none" /\ \A b \in 1..(a - 1) : att[b].at # "none"
        /\ att' = [att EXCEPT ![a] = [Idle EXCEPT !.device = d, !.at = "open"]]

\* The pairing dialog connects a device it has found.
ConnectPairedDevice(d) ==
    /\ ~closing
    /\ paired' = paired \cup {d}
    /\ IF sessions[d] = 0 /\ d \notin connecting
       THEN connecting' = connecting \cup {d} /\ Begin(d)
       ELSE UNCHANGED <<connecting, att>>
    /\ UNCHANGED <<sessions, cancelled, uiVars, airVars, history>>

\* The flag is set whether or not an attempt is there to see it.
CancelPendingConnect(d) ==
    /\ ~closing
    /\ cancelled' = cancelled \cup {d}
    /\ UNCHANGED <<paired, sessions, connecting, uiVars, att, airVars, history>>

\* The callback a disconnection queues: PublishConnections and StartScan.
ProcessDispatchedCallbacks ==
    /\ ~closing /\ restart
    /\ restart' = FALSE
    /\ StartScan(paired)
    /\ UNCHANGED <<closing, mapVars, att, airVars, history>>

-----------------------------------------------------------------------------
(* Threads of the Bluetooth stack. *)

\* Mutant: the addresses that are being connected are not looked at.
HandleAdvertisementAgain(d) ==
    /\ watcher = "on" /\ d \notin link
    /\ d \in paired /\ sessions[d] = 0
    /\ connecting' = connecting \cup {d}
    /\ Begin(d)
    /\ UNCHANGED <<paired, sessions, cancelled, uiVars, airVars, history>>

\* An advertisement of a paired device that has no session and no attempt.
HandleAdvertisement(d) ==
    /\ watcher = "on" /\ d \notin link
    /\ d \in paired /\ sessions[d] = 0 /\ d \notin connecting
    /\ connecting' = connecting \cup {d}
    /\ Begin(d)
    /\ UNCHANGED <<paired, sessions, cancelled, uiVars, airVars, history>>

\* The handler has a weak pointer to its session: an attempt that failed or
\* was closed left none, and then whatever session the device has is removed.
Removes(a) ==
    LET d == att[a].device IN
    sessions[d] # 0 /\ (sessions[d] = a \/ att[a].at \in {"failed", "closed"})

\* The handler reads the status when it runs, and does nothing if the link is
\* back.
HandleDeviceDisconnected(a) ==
    /\ a \in notices
    /\ notices' = notices \ {a}
    /\ LET d == att[a].device IN
       IF d \notin link /\ Removes(a)
       THEN /\ sessions' = [sessions EXCEPT ![d] = 0]
            /\ connecting' = connecting \ {d}
            /\ att' = Closed({sessions[d]})
            /\ restart' = TRUE
            /\ UNCHANGED missed
       ELSE /\ missed' = IF d \notin link /\ Live(a) THEN missed \cup {a} ELSE missed
            /\ UNCHANGED <<sessions, connecting, att, restart>>
    /\ UNCHANGED <<paired, cancelled, watcher, closing, link, updates, split>>

Attached(d) == {a \in Attempts : att[a].attached /\ att[a].device = d}

LinkUp(d) ==
    /\ d \notin link /\ Attached(d) # {}
    /\ link' = link \cup {d}
    /\ UNCHANGED <<mapVars, uiVars, att, notices, history>>

LinkDown(d) ==
    /\ d \in link
    /\ link' = link \ {d}
    /\ notices' = notices \cup Attached(d)
    /\ UNCHANGED <<mapVars, uiVars, att, history>>

-----------------------------------------------------------------------------
(* ConnectDeviceAsync. *)

Goto(a, place) == att' = [att EXCEPT ![a].at = place]

\* The lambda "fail": nothing is left of the attempt but its error message.
Fail(a) ==
    /\ connecting' = connecting \ {att[a].device}
    /\ cancelled' = cancelled \ {att[a].device}
    /\ att' = [att EXCEPT ![a] = [Idle EXCEPT !.device = att[a].device, !.at = "failed"]]
    /\ UNCHANGED <<paired, sessions>>

Up(a) == att[a].device \in link

\* Mutant: the handlers are attached to the first object of the device only.
OpenDeviceOnceAttached(a) ==
    /\ att[a].at = "open"
    /\ \/ /\ att' = [att EXCEPT ![a].at = "discover", ![a].attached = att[a].try = 1]
          /\ UNCHANGED mapVars
       \/ Fail(a)
    /\ UNCHANGED <<uiVars, airVars, history>>

\* A stale Windows pairing is removed first, if that works.  Opening the device
\* gives handles, with status handlers, or fails; the link is then given 4 s to
\* come up, and discovery is tried without it, too.
OpenDevice(a) ==
    /\ att[a].at = "open"
    /\ \/ /\ att' = [att EXCEPT ![a].at = "discover", ![a].attached = TRUE]
          /\ UNCHANGED mapVars
       \/ Fail(a)
    /\ UNCHANGED <<uiVars, airVars, history>>

\* Each round of service discovery looks for a cancellation, before and while
\* it waits.
DiscoveryCancelled(a) ==
    /\ att[a].at = "discover"
    /\ att[a].device \in cancelled
    /\ Fail(a)
    /\ UNCHANGED <<uiVars, airVars, history>>

\* The last round takes what the cache of Windows has.
ServiceFound(a) ==
    /\ att[a].at = "discover" /\ (Up(a) \/ att[a].try = Tries)
    /\ Goto(a, "subscribe")
    /\ UNCHANGED <<mapVars, uiVars, airVars, history>>

\* The last round that fails ends the attempt.
DiscoveryFailed(a) ==
    /\ att[a].at = "discover" /\ att[a].try = Tries
    /\ Fail(a)
    /\ UNCHANGED <<uiVars, airVars, history>>

\* The service was not there: wait and look again.
DiscoverAgain(a) ==
    /\ att[a].at = "discover" /\ att[a].try < Tries
    /\ att' = [att EXCEPT ![a].try = @ + 1]
    /\ UNCHANGED <<mapVars, uiVars, airVars, history>>

\* Mutant: opening the device again starts the rounds afresh.
RecycleAfresh(a) ==
    /\ att[a].at = "discover" /\ att[a].try < Tries
    /\ \E unpair \in BOOLEAN :
          att' = [att EXCEPT ![a].at = "open", ![a].try = 1, ![a].attached = FALSE,
                             ![a].unpaired = @ \/ unpair]
    /\ UNCHANGED <<mapVars, uiVars, airVars, history>>

\* A call that threw or timed out, which may be a stale bond: the device is
\* unpaired once, and its handles are closed and opened again.
Recycle(a) ==
    /\ att[a].at = "discover" /\ att[a].try < Tries
    /\ \E unpair \in BOOLEAN :
          att' = [att EXCEPT ![a].at = "open", ![a].try = @ + 1, ![a].attached = FALSE,
                             ![a].unpaired = @ \/ unpair]
    /\ UNCHANGED <<mapVars, uiVars, airVars, history>>

\* TryResetBluetoothRadioAsync: the radio of the computer is turned off and on,
\* which ends every link and stops the watcher; or access is denied.
TryResetBluetoothRadio(a) ==
    \/ /\ link' = {}
       /\ notices' = notices \cup {b \in Attempts \ {a} : att[b].attached /\ Up(b)}
       /\ watcher' = IF watcher = "on" THEN "dead" ELSE watcher
    \/ UNCHANGED <<airVars, watcher>>

\* An unreachable device is unpaired, once, and the radio reset.
ResetRadio(a) ==
    /\ att[a].at = "discover" /\ att[a].try < Tries /\ ~att[a].unpaired
    /\ att' = [att EXCEPT ![a].at = "open", ![a].try = @ + 1, ![a].attached = FALSE,
                          ![a].unpaired = TRUE]
    /\ TryResetBluetoothRadio(a)
    /\ UNCHANGED <<mapVars, restart, closing, history>>

\* The characteristics, all of them with the properties they need, and their
\* notifications: state, audio and OTA state.  One that fails fails the attempt.
Subscribe(a) ==
    /\ att[a].at = "subscribe"
    /\ \/ Up(a) /\ Goto(a, "insert") /\ UNCHANGED mapVars
       \/ Fail(a)
    /\ UNCHANGED <<uiVars, airVars, history>>

\* The session is entered without a look at the paired devices, at the link,
\* or at a session that is there; the cancelled flag stays.
InsertSession(a) ==
    /\ att[a].at = "insert"
    /\ LET d == att[a].device IN
       /\ sessions' = [sessions EXCEPT ![d] = a]
       /\ connecting' = connecting \ {d}
       /\ att' = [Closed({sessions[d]}) EXCEPT ![a].at = "connected"]
    /\ UNCHANGED <<paired, cancelled, uiVars, airVars, history>>

Step(a) ==
    \/ OpenDevice(a)
    \/ DiscoveryCancelled(a) \/ ServiceFound(a) \/ DiscoveryFailed(a) \/ DiscoverAgain(a)
    \/ Recycle(a) \/ ResetRadio(a)
    \/ Subscribe(a) \/ InsertSession(a)

-----------------------------------------------------------------------------

Next ==
    \/ UpdatePairedDeviceIds \/ CloseSessions \/ ProcessDispatchedCallbacks
    \/ \E d \in Devices : \/ ConnectPairedDevice(d) \/ CancelPendingConnect(d)
                          \/ HandleAdvertisement(d) \/ LinkUp(d) \/ LinkDown(d)
    \/ \E a \in Attempts : Step(a) \/ HandleDeviceDisconnected(a)

\* Functions return, coroutines resume, and status events and dispatched callbacks are delivered.
Spec ==
    /\ Init /\ [][Next]_vars
    /\ WF_vars(CloseSessions) /\ WF_vars(ProcessDispatchedCallbacks)
    /\ \A a \in Attempts : WF_vars(Step(a)) /\ WF_vars(HandleDeviceDisconnected(a))

-----------------------------------------------------------------------------
(* Properties. *)

\* An address is marked as connecting only while an attempt for it runs: every
\* way an attempt can end takes the mark back, so the device is not locked out
\* (ConnectDeviceAsync, UpdatePairedDeviceIds).
ConnectingHasAttempt == \A d \in connecting : LiveFor(d) # {}

\* A device has one connection, an attempt or a session, and only if it is
\* paired, or its session is about to be closed; unless the paired devices were
\* refreshed during an attempt
\* (HandleAdvertisement, ConnectPairedDevice, UpdatePairedDeviceIds).
OneConnection ==
    \A d \in Devices \ split :
        /\ \A a, b \in LiveFor(d) : a = b
        /\ LiveFor(d) # {} => sessions[d] = 0
        /\ LiveFor(d) # {} \/ (sessions[d] # 0 /\ ~closing) => d \in paired

\* The maps the watcher and the settings decide on say what is really going on:
\* which devices are being connected, and which are connected.
ConnectionsTracked == ConnectingHasAttempt /\ OneConnection

\* A session whose device stays away is removed, so that the device can be
\* connected again, unless the disconnection came before the session
\* (HandleDeviceDisconnected).  If the link comes back, the session may stay.
DeadSessionRemoved ==
    \A d \in Devices, a \in Attempts :
        (sessions[d] = a /\ d \notin link)
            ~> (sessions[d] # a \/ d \in link \/ a \in missed)

\* An attempt always ends, in a session or with its handles closed
\* (ConnectDeviceAsync).
AttemptEnds == \A a \in Attempts : Live(a) ~> ~Live(a)
=============================================================================
