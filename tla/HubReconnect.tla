---------------------------- MODULE HubReconnect ----------------------------
(***************************************************************************)
(* Who calls the client of BleConnection, and when: the hub, with its       *)
(* endless reconnect to the known companion, and the scan activity.         *)
(*                                                                          *)
(* The hub learns of the client's state in two ways.  Its callback          *)
(* (handleStateChange) runs on the task that sets the state: the worker's   *)
(* for a connection made or failed, the main task's for a loss or a         *)
(* disconnect.  Its loop reads the state again, on the main task.  `again'  *)
(* and `pending' are written by both tasks without a lock.                  *)
(***************************************************************************)
EXTENDS BleConnection

VARIABLES
  screen,      \* the activity on top, or what is being opened or left
  auto,        \* autoReconnecting
  again,       \* reconnectOnDisconnect
  pending,     \* pendingAutoReconnect
  phase,       \* _reconnectPhase
  known,       \* the client's auto-reconnect address, saved across restarts
  connecting,  \* MeshCoreScanActivity::connecting
  then         \* what the hub does when the disconnect in progress returns

hubOnly == <<screen, auto, again, pending, phase, known, connecting, then>>
hubVars == <<bleVars, hubOnly>>

Phase == {"CONNECT", "IDLE", "SCAN", "WAIT_SCAN"}

HubTypeOK ==
  /\ BleTypeOK
  /\ screen \in {"home", "hub", "child", "scanEnter", "scan", "exit"}
  /\ auto \in BOOLEAN /\ again \in BOOLEAN /\ pending \in BOOLEAN
  /\ phase \in Phase
  /\ known \in Peers \cup {Nobody}
  /\ connecting \in BOOLEAN
  /\ then \in {"none", "scan", "exit", "stay"}
  /\ auto => screen = "hub"
  /\ then # "none" => screen = "hub" /\ ~auto

HubInit ==
  /\ BleInit
  /\ screen = "home"
  /\ auto = FALSE /\ again = FALSE /\ pending = FALSE
  /\ phase = "CONNECT"
  /\ known \in Peers \cup {Nobody}
  /\ connecting = FALSE /\ then = "none"

-----------------------------------------------------------------------------
(* handleStateChange on the way down, in the step that sets the state. *)
Lost == state # "DISCONNECTED" /\ state' = "DISCONNECTED" /\ ~leaving

OnDown == pending' = (pending \/ (Lost /\ again /\ ~auto))

(* handleStateChange on CONNECTED reads the companion's data from the card   *)
(* and then sets reconnectOnDisconnect: the end of the worker's "notify".    *)
(* The address is known before the handshake.                                *)
WorkerStep ==
  /\ Worker
  /\ OnDown
  /\ again' = (again \/ (wpc = "notify" /\ wpc' = "wait"))
  /\ known' = IF wpc' = "init" /\ wpc = "handshake" THEN peer ELSE known
  /\ UNCHANGED <<screen, auto, phase, connecting, then>>

(* The main task inside disconnect and deinit. *)
WaitStep ==
  /\ Waits
  /\ OnDown
  /\ UNCHANGED <<screen, auto, again, phase, known, connecting, then>>

DropStep == Drop /\ UNCHANGED hubOnly

-----------------------------------------------------------------------------
(* poll(), called by the hub and by the activities it opens, not by the scan *)
(* activity: what it finds out about the connection.                         *)
Polling == screen \in {"hub", "child"} /\ then = "none"

PollHub ==
  /\ Polling
  /\ LinkLossFound \/ FireBurst
  /\ OnDown
  /\ UNCHANGED <<screen, auto, again, phase, known, connecting, then>>

(* startScan and connectTo, or their refusal. *)
TryScan ==
  \/ StartScan
  \/ Idle /\ (state # "DISCONNECTED" \/ Len(work) = WORK_QUEUE_SIZE) /\ UNCHANGED bleVars

TryConnect(p) ==
  \/ ConnectTo(p)
  \/ /\ Idle
     /\ state \in {"CONNECTED", "CONNECTING"} \/ Len(work) = WORK_QUEUE_SIZE
     /\ UNCHANGED bleVars

(* startAutoReconnect, with the flag pending as given. *)
StartAutoReconnect ==
  IF known = Nobody
  THEN /\ screen' = "scanEnter"
       /\ Idle /\ UNCHANGED <<bleVars, auto, phase>>
  ELSE /\ screen' = "hub"
       /\ auto' = TRUE
       /\ phase' = "CONNECT"
       /\ TryConnect(known)

(* Every action of the hub's loop comes after a poll that found nothing. *)
Top == screen = "hub" /\ then = "none" /\ ~(state = "CONNECTED" /\ client /\ ~link)

EnterHub ==
  /\ screen = "home"
  /\ StartAutoReconnect
  /\ UNCHANGED <<again, pending, known, connecting, then>>

AutoConnected ==
  /\ Top /\ Idle /\ auto
  /\ state = "CONNECTED"
  /\ auto' = FALSE
  /\ UNCHANGED <<bleVars, screen, again, pending, phase, known, connecting, then>>

(* Mutant: the Scan button leaves autoReconnecting set. *)
AutoScanStaysAuto ==
  /\ Top /\ auto
  /\ state # "CONNECTED"
  /\ IF state # "DISCONNECTED"
     THEN CallDisconnect /\ then' = "scan" /\ UNCHANGED screen
     ELSE Idle /\ screen' = "scanEnter" /\ UNCHANGED <<bleVars, then>>
  /\ UNCHANGED <<auto, again, pending, phase, known, connecting>>

(* The Scan and the Back button on the reconnect screen. *)
AutoScan ==
  /\ Top /\ auto
  /\ state # "CONNECTED"
  /\ auto' = FALSE
  /\ IF state # "DISCONNECTED"
     THEN CallDisconnect /\ then' = "scan" /\ UNCHANGED screen
     ELSE Idle /\ screen' = "scanEnter" /\ UNCHANGED <<bleVars, then>>
  /\ UNCHANGED <<again, pending, phase, known, connecting>>

AutoBack ==
  /\ Top /\ auto
  /\ state # "CONNECTED"
  /\ auto' = FALSE
  /\ CallDisconnect /\ then' = "exit"
  /\ UNCHANGED <<screen, again, pending, phase, known, connecting>>

(* The four phases: a connect that failed, the pause, a scan begun, ended.   *)
AutoPhase(from, to) ==
  /\ Top /\ Idle /\ auto
  /\ phase = from
  /\ phase' = to
  /\ UNCHANGED <<screen, auto, again, pending, known, connecting, then>>

ConnectFailed == state = "DISCONNECTED" /\ AutoPhase("CONNECT", "IDLE") /\ UNCHANGED bleVars
PauseOver     == state # "CONNECTED" /\ AutoPhase("IDLE", "SCAN") /\ UNCHANGED bleVars
BeginScan     == state = "DISCONNECTED" /\ AutoPhase("SCAN", "WAIT_SCAN") /\ TryScan
ScanHit       == state = "DISCONNECTED" /\ known # Nobody
                   /\ AutoPhase("WAIT_SCAN", "CONNECT") /\ TryConnect(known)
ScanMiss      == state = "DISCONNECTED" /\ AutoPhase("WAIT_SCAN", "IDLE") /\ UNCHANGED bleVars

(* A loss: back to the known companion, or to a scan if there is none. *)
Reconnect ==
  /\ Top /\ ~auto /\ pending
  /\ pending' = FALSE
  /\ again' = FALSE
  /\ StartAutoReconnect
  /\ UNCHANGED <<known, connecting, then>>

(* Mutant: the companion is forgotten and its connection kept. *)
ForgetOnly ==
  /\ Top /\ Idle /\ ~auto /\ ~pending
  /\ known' = Nobody
  /\ UNCHANGED <<bleVars, screen, auto, again, pending, phase, connecting, then>>

(* The disconnect popup: the companion is forgotten. *)
ManualDisconnect ==
  /\ Top /\ ~auto /\ ~pending
  /\ known' = Nobody
  /\ CallDisconnect /\ then' = "stay"
  /\ UNCHANGED <<screen, auto, again, pending, phase, connecting>>

LeaveHub ==
  /\ Top /\ Idle /\ ~auto /\ ~pending
  /\ again' = FALSE
  /\ screen' = "exit"
  /\ UNCHANGED <<bleVars, auto, pending, phase, known, connecting, then>>

OpenChild ==
  /\ Top /\ Idle /\ ~auto /\ ~pending
  /\ screen' = "child"
  /\ UNCHANGED <<bleVars, auto, again, pending, phase, known, connecting, then>>

CloseChild ==
  /\ screen = "child" /\ Idle
  /\ screen' = "hub"
  /\ UNCHANGED <<bleVars, auto, again, pending, phase, known, connecting, then>>

(* What follows a disconnect the hub has called. *)
AfterDisconnect ==
  /\ mpc = "idle" /\ then # "none"
  /\ screen' = CASE then = "scan" -> "scanEnter" [] then = "exit" -> "exit" [] OTHER -> screen
  /\ then' = "none"
  /\ UNCHANGED <<bleVars, auto, again, pending, phase, known, connecting>>

(* onExit: deinit, then a restart of the device. *)
Exit ==
  /\ screen = "exit"
  /\ CallDeinit
  /\ screen' = "home"
  /\ UNCHANGED <<auto, again, pending, phase, known, connecting, then>>

HubRestart ==
  /\ Restart
  /\ auto' = FALSE /\ again' = FALSE /\ pending' = FALSE
  /\ phase' = "CONNECT" /\ connecting' = FALSE
  /\ UNCHANGED <<screen, known, then>>

-----------------------------------------------------------------------------
(* The scan activity: it scans, or finds the heap too low. *)
ScanEnter ==
  /\ screen = "scanEnter"
  /\ \/ screen' = "scan" /\ TryScan
     \/ screen' = "exit" /\ Idle /\ UNCHANGED bleVars
  /\ connecting' = FALSE
  /\ UNCHANGED <<auto, again, pending, phase, known, then>>

Scan == screen = "scan" /\ UNCHANGED <<auto, again, pending, phase, then>>

ScanRetry   == /\ Scan /\ ~connecting /\ state # "SCANNING"
               /\ TryScan
               /\ UNCHANGED <<screen, known, connecting>>
ScanConnect == /\ Scan /\ ~connecting /\ state # "SCANNING"
               /\ \E p \in Peers : TryConnect(p)
               /\ connecting' = TRUE
               /\ UNCHANGED <<screen, known>>
ScanDone    == /\ Scan /\ Idle /\ connecting /\ state = "CONNECTED"
               /\ connecting' = FALSE /\ screen' = "hub"
               /\ UNCHANGED <<bleVars, known>>
ScanFailed  == /\ Scan /\ Idle /\ connecting /\ state = "DISCONNECTED"
               /\ connecting' = FALSE /\ known' = Nobody
               /\ UNCHANGED <<bleVars, screen>>
ScanBack    == /\ Scan /\ Idle
               /\ screen' = "exit"
               /\ UNCHANGED <<bleVars, known, connecting>>

-----------------------------------------------------------------------------
ScanActivity == ScanEnter \/ ScanRetry \/ ScanConnect \/ ScanDone \/ ScanFailed \/ ScanBack

(* The hub's loop while it reconnects, without the user. *)
AutoStep == AutoConnected \/ ConnectFailed \/ PauseOver \/ BeginScan \/ ScanHit \/ ScanMiss

Buttons == AutoScan \/ AutoBack \/ ManualDisconnect \/ LeaveHub \/ OpenChild \/ CloseChild

Hub == \/ EnterHub \/ AutoStep \/ Buttons \/ Reconnect
       \/ AfterDisconnect \/ Exit \/ HubRestart

HubNext == WorkerStep \/ WaitStep \/ DropStep \/ PollHub \/ Hub \/ ScanActivity

HubSpec == HubInit /\ [][HubNext]_hubVars

(* Time passes: calls return, the loop runs, the hub goes on with its phases.*)
FairSpec ==
  /\ HubSpec
  /\ WF_hubVars(WorkerStep) /\ WF_hubVars(WaitStep) /\ WF_hubVars(PollHub)
  /\ WF_hubVars(AutoStep)

-----------------------------------------------------------------------------
(* Both tasks at rest, on the hub. *)
AtRest == screen = "hub" /\ then = "none" /\ mpc = "idle" /\ wpc = "wait" /\ work = <<>>

(* The hub never sits there without a connection and without trying to get   *)
(* one: after a loss "endless auto-reconnect to the known companion".        *)
KeepsTrying == AtRest /\ state = "DISCONNECTED" => auto \/ pending

(* A companion the user has disconnected from is forgotten for good: with no *)
(* known companion the hub is not connected, nor connecting, nor on its way  *)
(* to reconnect, whatever the worker was doing at the time.                  *)
Forgotten == AtRest /\ known = Nobody => ~auto /\ state = "DISCONNECTED" /\ ~link

(* Once the companion stays in range and the user waits, the reconnect ends  *)
(* in a connection: no phase waits for a state that has already passed.      *)
Missed == \/ link /\ ~link'                                  \* the link drops
          \/ state = "CONNECTING" /\ state' = "DISCONNECTED"  \* a connect fails
          \/ wpc' = "abandon"                                \* the handshake fails
          \/ phase = "WAIT_SCAN" /\ phase' = "IDLE"           \* the scan misses
InRange == <>[][~Missed]_hubVars
Reconnects == InRange => (auto ~> state = "CONNECTED" \/ ~auto)
=============================================================================
