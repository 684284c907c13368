---------------------------- MODULE BleConnection ----------------------------
(***************************************************************************)
(* The connection of MeshCoreClient to a companion: two tasks that share    *)
(* `state', the NimBLE client and three flags without a lock.  The main     *)
(* task calls startScan, connectTo, disconnect, poll and deinit; the worker *)
(* task takes SCAN, CONNECT and SHUTDOWN items from a queue of two and runs *)
(* the blocking NimBLE calls.                                               *)
(*                                                                          *)
(* wpc is where the worker is: the blocking call or delay it is in, or      *)
(* "notify", the state callback of a connection just made.  A step of the   *)
(* worker is the end of that call and all it does up to the next one, so    *)
(* the main task runs between any two calls.  mpc is where the main task    *)
(* is: "idle" between two calls of the client, or inside disconnect or      *)
(* deinit, which wait for the worker.                                       *)
(*                                                                          *)
(* The main loop yields in every iteration, so an idle worker takes its     *)
(* item before the main task's next call (Yielded).  The callback of a      *)
(* change of state is in HubReconnect.  A full work queue makes startScan   *)
(* and connectTo fail and changes nothing.                                  *)
(***************************************************************************)
EXTENDS Integers, Sequences

CONSTANTS
  Peers,      \* the addresses of companions
  Nobody      \* no companion

ASSUME PeerAssumption == Nobody \notin Peers

WORK_QUEUE_SIZE == 2

VARIABLES
  state,      \* BleConnectionState
  client,     \* bleClient points to a client
  link,       \* bleClient->isConnected()
  chars,      \* rxChar and txChar are set
  cancel,     \* cancelConnect
  burst,      \* initialRequestsPending
  work,       \* workQueue
  wpc,        \* where the worker task is
  peer,       \* the address the worker last took from the queue
  mpc,        \* where the main task is
  skip,       \* skipClientTeardown of the disconnect in progress
  leaving,    \* deinit has been called
  wanted      \* not in the code: the address of the last connectTo, until disconnect

bleVars == <<state, client, link, chars, cancel, burst, work, wpc, peer, mpc, skip,
             leaving, wanted>>

BleState == {"DISCONNECTED", "SCANNING", "CONNECTING", "INITIALIZING", "CONNECTED"}

Item == [type : {"SCAN", "SHUTDOWN"}, to : {Nobody}] \cup [type : {"CONNECT"}, to : Peers]

(* Where doConnect holds the client, where it may stay for long, all of it;  *)
(* and a worker that has exited or has been killed.                          *)
InCall  == {"connect", "settle", "pair", "discover", "handshake", "init"}
Blocking == {"connect", "pair", "discover", "init"}
Attempt == InCall \cup {"abandon", "ready", "notify"}
Gone    == {"exited", "killed", "killedConnecting", "killedScanning"}

BleTypeOK ==
  /\ state \in BleState
  /\ client \in BOOLEAN /\ link \in BOOLEAN /\ chars \in BOOLEAN
  /\ cancel \in BOOLEAN /\ burst \in BOOLEAN /\ skip \in BOOLEAN /\ leaving \in BOOLEAN
  /\ work \in Seq(Item) /\ Len(work) <= WORK_QUEUE_SIZE
  /\ wpc \in {"wait", "scan"} \cup Attempt \cup Gone
  /\ peer \in Peers \cup {Nobody} /\ wanted \in Peers \cup {Nobody}
  /\ mpc \in {"idle", "cancel", "scanWait", "teardown", "reset",
              "shutdown", "join", "dispose", "off"}

BleInit ==
  /\ state = "DISCONNECTED"
  /\ client = FALSE /\ link = FALSE /\ chars = FALSE
  /\ cancel = FALSE /\ burst = FALSE
  /\ work = <<>> /\ wpc = "wait" /\ peer = Nobody
  /\ mpc = "idle" /\ skip = FALSE /\ leaving = FALSE
  /\ wanted = Nobody

(* InFlightScope: a killed worker never leaves the scope. *)
ConnectInFlight == wpc \in Attempt \cup {"killedConnecting"}
ScanInFlight    == wpc \in {"scan", "killedScanning"}

linkVars == <<client, link, chars>>
mainVars == <<mpc, skip, leaving, cancel>>

-----------------------------------------------------------------------------
(* The worker task. *)
TakeScan ==
  /\ wpc = "wait" /\ work # <<>> /\ Head(work).type = "SCAN"
  /\ work' = Tail(work)
  /\ wpc' = "scan"
  /\ UNCHANGED <<state, linkVars, burst, peer, mainVars, wanted>>

(* Mutant: the scan ends without a word. *)
ScanEndsSilently ==
  /\ wpc = "scan"
  /\ wpc' = "wait"
  /\ UNCHANGED <<state, linkVars, burst, work, peer, mainVars, wanted>>

(* doScan sets the state whatever it has become since startScan. *)
ScanEnds ==
  /\ wpc = "scan"
  /\ state' = "DISCONNECTED"
  /\ wpc' = "wait"
  /\ UNCHANGED <<linkVars, burst, work, peer, mainVars, wanted>>

(* doConnect up to connect(): a stale item is skipped; a client left behind  *)
(* is deleted and a new one created, or not (createClient fails).            *)
TakeConnect ==
  /\ wpc = "wait" /\ work # <<>> /\ Head(work).type = "CONNECT"
  /\ work' = Tail(work)
  /\ peer' = Head(work).to
  /\ \/ /\ state # "CONNECTING"
        /\ UNCHANGED <<state, linkVars, wpc>>
     \/ /\ state = "CONNECTING"
        /\ client' = TRUE /\ link' = FALSE
        /\ wpc' = "connect"
        /\ UNCHANGED <<state, chars>>
     \/ /\ state = "CONNECTING"
        /\ client' = FALSE /\ link' = FALSE
        /\ state' = "DISCONNECTED"
        /\ UNCHANGED <<chars, wpc>>
  /\ UNCHANGED <<burst, mainVars, wanted>>

(* Mutant: the worker goes on after SHUTDOWN. *)
IgnoreShutdown ==
  /\ wpc = "wait" /\ work # <<>> /\ Head(work).type = "SHUTDOWN"
  /\ work' = Tail(work)
  /\ UNCHANGED <<state, linkVars, burst, wpc, peer, mainVars, wanted>>

TakeShutdown ==
  /\ wpc = "wait" /\ work # <<>> /\ Head(work).type = "SHUTDOWN"
  /\ work' = Tail(work)
  /\ wpc' = "exited"
  /\ UNCHANGED <<state, linkVars, burst, peer, mainVars, wanted>>

LinkLost == cancel \/ ~link

(* Mutant: the client is left behind with its link. *)
FailKeepsLink ==
  /\ UNCHANGED <<client, link>>
  /\ chars' = FALSE
  /\ state' = "DISCONNECTED"
  /\ wpc' = "wait"

(* failConnect: a cancelled attempt leaves the client to the main task. *)
FailConnect ==
  /\ client' = (client /\ cancel)
  /\ link' = (link /\ cancel)
  /\ chars' = FALSE
  /\ state' = "DISCONNECTED"
  /\ wpc' = "wait"

(* connect() returns; cancelling it may come too late. *)
ConnectReturns ==
  /\ wpc = "connect"
  /\ \/ /\ link' = TRUE
        /\ wpc' = "settle"
        /\ UNCHANGED <<state, client, chars>>
     \/ FailConnect
  /\ UNCHANGED <<burst, work, peer, mainVars, wanted>>

SettleEnds ==
  /\ wpc = "settle"
  /\ \/ LinkLost /\ FailConnect
     \/ ~LinkLost /\ wpc' = "pair" /\ UNCHANGED <<state, linkVars>>
  /\ UNCHANGED <<burst, work, peer, mainVars, wanted>>

(* secureConnection() returns. *)
PairReturns ==
  /\ wpc = "pair"
  /\ \/ FailConnect
     \/ ~LinkLost /\ wpc' = "discover" /\ UNCHANGED <<state, linkVars>>
  /\ UNCHANGED <<burst, work, peer, mainVars, wanted>>

(* The service and its characteristics are found and subscribed to. *)
DiscoverReturns ==
  /\ wpc = "discover"
  /\ \/ FailConnect
     \/ /\ ~LinkLost
        /\ chars' = TRUE
        /\ wpc' = "handshake"
        /\ UNCHANGED <<state, client, link>>
  /\ UNCHANGED <<burst, work, peer, mainVars, wanted>>

HandshakeEnds ==
  /\ wpc = "handshake"
  /\ \/ LinkLost /\ FailConnect
     \/ /\ ~LinkLost
        /\ state' = "INITIALIZING"
        /\ wpc' = "init"
        /\ UNCHANGED linkVars
  /\ UNCHANGED <<burst, work, peer, mainVars, wanted>>

(* runInitSequence returns; when it has failed doConnect calls disconnect,   *)
(* which deletes the client and waits 500 ms.                                *)
InitReturns ==
  /\ wpc = "init"
  /\ \/ /\ burst' = TRUE
        /\ wpc' = "ready"
        /\ UNCHANGED <<client, link>>
     \/ /\ client' = FALSE /\ link' = FALSE
        /\ wpc' = "abandon"
        /\ UNCHANGED burst
  /\ UNCHANGED <<state, chars, work, peer, mainVars, wanted>>

InitAbandoned ==
  /\ wpc = "abandon"
  /\ chars' = FALSE /\ burst' = FALSE
  /\ state' = "DISCONNECTED"
  /\ wpc' = "wait"
  /\ UNCHANGED <<client, link, work, peer, mainVars, wanted>>

(* The last line of doConnect: the state first, then its callback. *)
SetConnected ==
  /\ wpc = "ready"
  /\ state' = "CONNECTED"
  /\ wpc' = "notify"
  /\ UNCHANGED <<linkVars, burst, work, peer, mainVars, wanted>>

Notified ==
  /\ wpc = "notify"
  /\ wpc' = "wait"
  /\ UNCHANGED <<state, linkVars, burst, work, peer, mainVars, wanted>>

-----------------------------------------------------------------------------
(* The main task. *)
Yielded == work # <<>> => wpc # "wait"

Idle == mpc = "idle" /\ Yielded

(* Mutant: the room in the work queue is not tested. *)
StartScanUnbounded ==
  /\ Idle
  /\ state = "DISCONNECTED"
  /\ state' = "SCANNING"
  /\ work' = Append(work, [type |-> "SCAN", to |-> Nobody])
  /\ UNCHANGED <<linkVars, burst, wpc, peer, mainVars, wanted>>

StartScan ==
  /\ Idle
  /\ state = "DISCONNECTED"
  /\ Len(work) < WORK_QUEUE_SIZE
  /\ state' = "SCANNING"
  /\ work' = Append(work, [type |-> "SCAN", to |-> Nobody])
  /\ UNCHANGED <<linkVars, burst, wpc, peer, mainVars, wanted>>

ConnectTo(p) ==
  /\ Idle
  /\ state \notin {"CONNECTED", "CONNECTING"}
  /\ Len(work) < WORK_QUEUE_SIZE
  /\ state' = "CONNECTING"
  /\ work' = Append(work, [type |-> "CONNECT", to |-> p])
  /\ wanted' = p
  /\ UNCHANGED <<linkVars, burst, wpc, peer, mainVars>>

(* Mutant: the state is not set when the link is found gone. *)
LossKeepsState ==
  /\ Idle /\ wpc # "init"
  /\ state = "CONNECTED" /\ client /\ ~link
  /\ client' = FALSE /\ chars' = FALSE
  /\ UNCHANGED <<state, link, burst, work, wpc, peer, mainVars, wanted>>

(* poll() finds the link gone: initialRequestsPending stays as it is. *)
LinkLossFound ==
  /\ Idle /\ wpc # "init"
  /\ state = "CONNECTED" /\ client /\ ~link
  /\ client' = FALSE /\ chars' = FALSE
  /\ state' = "DISCONNECTED"
  /\ UNCHANGED <<link, burst, work, wpc, peer, mainVars, wanted>>

(* poll() makes the requests that follow a connection. *)
FireBurst ==
  /\ Idle /\ wpc # "init"
  /\ ~(state = "CONNECTED" /\ client /\ ~link)
  /\ burst /\ chars
  /\ burst' = FALSE
  /\ UNCHANGED <<state, linkVars, work, wpc, peer, mainVars, wanted>>

(* disconnect() up to its first wait.  While the state is CONNECTING it      *)
(* calls cancelConnect(), which ends a connect() and not a link that is up.  *)
BeginDisconnect ==
  \/ /\ ConnectInFlight
     /\ cancel' = TRUE
     /\ link' = (link /\ state = "CONNECTING")
     /\ mpc' = "cancel"
  \/ /\ ~ConnectInFlight
     /\ mpc' = "scanWait"
     /\ UNCHANGED <<cancel, link>>

CallDisconnect ==
  /\ Idle
  /\ BeginDisconnect
  /\ UNCHANGED <<state, client, chars, burst, work, wpc, peer, skip, leaving, wanted>>

WaitedOut ==
  /\ mpc = "cancel" /\ ~ConnectInFlight
  /\ cancel' = FALSE
  /\ mpc' = "scanWait"
  /\ UNCHANGED <<state, linkVars, burst, work, wpc, peer, skip, leaving, wanted>>

(* Mutant: disconnect does not wait for the worker. *)
CancelNoWait ==
  /\ mpc = "cancel"
  /\ cancel' = FALSE
  /\ mpc' = "scanWait"
  /\ UNCHANGED <<state, linkVars, burst, work, wpc, peer, skip, leaving, wanted>>

(* The main task looks every 50 ms, when a worker with an item has taken it, *)
CancelDone == WaitedOut /\ Yielded

(* or, once in a long while, between two items of the worker. *)
CancelSlips == WaitedOut /\ ~Yielded

(* Mutant: after the time-out the client is torn down all the same. *)
TimesOutTearsDown ==
  /\ mpc = "cancel" /\ wpc \in Blocking \cup {"killedConnecting"}
  /\ cancel' = FALSE
  /\ mpc' = "scanWait"
  /\ UNCHANGED <<state, linkVars, burst, work, wpc, peer, skip, leaving, wanted>>

(* 15 s have passed and the worker is still in its call. *)
CancelTimesOut ==
  /\ mpc = "cancel" /\ wpc \in Blocking \cup {"killedConnecting"}
  /\ cancel' = FALSE
  /\ skip' = TRUE
  /\ mpc' = "scanWait"
  /\ UNCHANGED <<state, linkVars, burst, work, wpc, peer, leaving, wanted>>

ScanWaitDone ==
  /\ mpc = "scanWait" /\ ~ScanInFlight
  /\ mpc' = "teardown"
  /\ UNCHANGED <<state, linkVars, cancel, burst, work, wpc, peer, skip, leaving, wanted>>

ScanWaitTimesOut ==
  /\ mpc = "scanWait" /\ ScanInFlight
  /\ mpc' = "teardown"
  /\ UNCHANGED <<state, linkVars, cancel, burst, work, wpc, peer, skip, leaving, wanted>>

Teardown ==
  /\ mpc = "teardown"
  /\ client' = (client /\ skip)
  /\ link' = (link /\ skip)
  /\ mpc' = "reset"
  /\ UNCHANGED <<state, chars, cancel, burst, work, wpc, peer, skip, leaving, wanted>>

DisconnectReturns ==
  /\ mpc = "reset"
  /\ chars' = (chars /\ skip)
  /\ burst' = FALSE
  /\ state' = "DISCONNECTED"
  /\ skip' = FALSE
  /\ wanted' = Nobody
  /\ mpc' = IF leaving THEN "off" ELSE "idle"
  /\ UNCHANGED <<client, link, cancel, work, wpc, peer, leaving>>

(* deinit() interrupts the worker, *)
CallDeinit ==
  /\ Idle
  /\ leaving' = TRUE
  /\ cancel' = TRUE
  /\ link' = (link /\ state # "INITIALIZING")
  /\ mpc' = "shutdown"
  /\ UNCHANGED <<state, client, chars, burst, work, wpc, peer, skip, wanted>>

(* sends it SHUTDOWN (in vain if the queue stays full for a second), *)
SendShutdown ==
  /\ mpc = "shutdown"
  /\ IF Len(work) < WORK_QUEUE_SIZE
     THEN work' = Append(work, [type |-> "SHUTDOWN", to |-> Nobody])
     ELSE work' = work
  /\ mpc' = "join"
  /\ UNCHANGED <<state, linkVars, cancel, burst, wpc, peer, skip, leaving, wanted>>

(* waits for its exit, *)
WorkerJoined ==
  /\ mpc = "join" /\ wpc = "exited"
  /\ cancel' = FALSE
  /\ mpc' = "dispose"
  /\ UNCHANGED <<state, linkVars, burst, work, wpc, peer, skip, leaving, wanted>>

(* kills it after 15 s, be it stuck, scanning or without its SHUTDOWN, *)
KillWorker ==
  /\ mpc = "join"
  /\ wpc \in Blocking \cup {"scan"} \/ (wpc = "wait" /\ work = <<>>)
  /\ wpc' = IF ConnectInFlight THEN "killedConnecting"
            ELSE IF ScanInFlight THEN "killedScanning" ELSE "killed"
  /\ client' = FALSE /\ link' = FALSE /\ chars' = FALSE
  /\ cancel' = FALSE
  /\ mpc' = "dispose"
  /\ UNCHANGED <<state, burst, work, peer, skip, leaving, wanted>>

(* and disconnects. *)
Dispose ==
  /\ mpc = "dispose"
  /\ BeginDisconnect
  /\ UNCHANGED <<state, client, chars, burst, work, wpc, peer, skip, leaving, wanted>>

(* The hub restarts the device when it is left (silentRestart). *)
Restart ==
  /\ mpc = "off"
  /\ state' = "DISCONNECTED"
  /\ client' = FALSE /\ link' = FALSE /\ chars' = FALSE
  /\ cancel' = FALSE /\ burst' = FALSE
  /\ work' = <<>> /\ wpc' = "wait" /\ peer' = Nobody
  /\ mpc' = "idle" /\ skip' = FALSE /\ leaving' = FALSE
  /\ wanted' = Nobody

-----------------------------------------------------------------------------
(* The link drops by itself. *)
Drop ==
  /\ link
  /\ link' = FALSE
  /\ UNCHANGED <<state, client, chars, burst, work, wpc, peer, mainVars, wanted>>

Worker == \/ TakeScan \/ ScanEnds \/ TakeConnect \/ TakeShutdown
          \/ ConnectReturns \/ SettleEnds \/ PairReturns \/ DiscoverReturns
          \/ HandshakeEnds \/ InitReturns \/ InitAbandoned \/ SetConnected \/ Notified

(* What the main task does without being asked to. *)
Waits == \/ CancelDone \/ ScanWaitDone \/ Teardown \/ DisconnectReturns
         \/ SendShutdown \/ WorkerJoined \/ Dispose

(* The activities connect only when no scan and no connection is under way.  *)
Calls == \/ StartScan
         \/ state = "DISCONNECTED" /\ \E p \in Peers : ConnectTo(p)
         \/ LinkLossFound \/ FireBurst
         \/ CallDisconnect \/ CallDeinit \/ Restart

(* A NimBLE call that outlives the wait for it. *)
TimeOuts == CancelTimesOut \/ ScanWaitTimesOut \/ KillWorker

(* Every NimBLE call returns while it is waited for. *)
PromptNext == Worker \/ Waits \/ Calls \/ Drop

BleNext == PromptNext \/ TimeOuts

BleSpec == BleInit /\ [][BleNext]_bleVars

(* With the main task looking between two items as well, ClientHeld fails.   *)
RaceSpec == BleInit /\ [][BleNext \/ CancelSlips]_bleVars

-----------------------------------------------------------------------------
(* The client is never deleted under the worker: whatever the main task does *)
(* while the worker is inside a call on it ("a use-after-free (observed on   *)
(* device as a null-rxChar panic"), even when a wait times out.              *)
ClientHeld == wpc \in InCall => client

(* A connection the rest of the client may use has its client and its        *)
(* characteristics: enqueueCmd, whose guard is the state, writes to them.    *)
ConnectedIsWhole == state = "CONNECTED" /\ mpc = "idle" => client /\ chars

(* No state is left standing with nobody at work on it: no scan that never   *)
(* ends, no "Connecting" that nothing will change.                           *)
NoPhantom ==
  wpc = "wait" /\ work = <<>> /\ mpc = "idle" => state \in {"DISCONNECTED", "CONNECTED"}

(* The connection is the one asked for last, and a disconnect ends it.       *)
AskedFor ==
  state \in {"INITIALIZING", "CONNECTED"} /\ mpc = "idle" => peer = wanted

(* A link is not left up behind a state that says there is none.             *)
NoOrphanLink ==
  state = "DISCONNECTED" /\ wpc = "wait" /\ mpc = "idle" => ~link

(* After a disconnect only a new request leads to a connection.              *)
NoReturn ==
  [][state = "DISCONNECTED" => state' \notin {"INITIALIZING", "CONNECTED"}]_bleVars

(* The requests that follow a connection are made when enqueueCmd takes them,*)
(* not while the handshake's thread has yet to set the state.                *)
BurstAccepted ==
  [][burst /\ ~burst' /\ mpc = "idle" /\ wpc' = wpc => state = "CONNECTED"]_bleVars

(* A killed worker costs no second wait: "disconnect() below is a no-op".    *)
(* It does, for its flag stays set.                                          *)
KillIsFinal == mpc = "cancel" => wpc # "killedConnecting"

(* A disconnect or deinit that waits for the worker returns.                 *)
Returns == mpc # "idle" ~> mpc \in {"idle", "off"}
==============================================================================
