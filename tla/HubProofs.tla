------------------------------ MODULE HubProofs ------------------------------
(***************************************************************************)
(* What the hub and the scan activity make of the client, for every set of  *)
(* companions, while the calls they wait for return in time.                *)
(*                                                                          *)
(* Prompt is the client alone under that assumption, with callers that      *)
(* connect only when nothing is under way.  The composition implements it   *)
(* (HubCallsTheClient), so that what is proved of Prompt and of BleSpec     *)
(* holds of HubSpec.                                                        *)
(***************************************************************************)
EXTENDS HubReconnect, BleProofs

Prompt == BleInit /\ [][PromptNext]_bleVars

(* Where the worker is in an attempt says which state is shown, and a main   *)
(* task that waits for it has cancelled it.                                  *)
Linking == {"connect", "settle", "pair", "discover", "handshake"}
Starting == {"init", "abandon", "ready"}

Course ==
  /\ wpc \in Linking => state = "CONNECTING"
  /\ wpc \in Starting => state = "INITIALIZING"
  /\ wpc \in Attempt => peer \in Peers
  /\ ~skip /\ wpc \notin {"killed", "killedConnecting", "killedScanning"}
  /\ mpc = "cancel" => cancel
  /\ cancel => mpc = "cancel" \/ leaving

(* A state stands for one piece of work, queued or in hand, for the address  *)
(* asked for last.                                                           *)
Queued(t, p) == work = <<[type |-> t, to |-> p]>> /\ wpc \in {"wait", "notify"}
Doing(where) == work = <<>> /\ wpc \in where

Asked ==
  ~leaving =>
    /\ state \in {"DISCONNECTED", "CONNECTED"} => Doing({"wait", "notify"})
    /\ state = "SCANNING" => Queued("SCAN", Nobody) \/ Doing({"scan"})
    /\ state = "CONNECTING" => \/ Queued("CONNECT", wanted) /\ wanted \in Peers
                               \/ Doing(Linking) /\ peer = wanted
    /\ state = "INITIALIZING" => Doing(Starting)
    /\ state \in {"INITIALIZING", "CONNECTED"} => peer = wanted

(* Past its first wait, disconnect() finds the worker at rest or gone.       *)
Waiting ==
  /\ mpc \in {"scanWait", "teardown", "reset"} =>
       IF leaving THEN wpc = "exited"
       ELSE \/ wpc = "wait" /\ state \in {"DISCONNECTED", "CONNECTED"}
            \/ wpc = "scan" /\ mpc = "scanWait"
  /\ mpc \in {"idle", "cancel"} => ~leaving
  /\ mpc \in {"shutdown", "join", "dispose", "off"} => leaving
  /\ mpc = "dispose" => wpc = "exited"

(* A link is up on a client only, and a client is left behind by an attempt  *)
(* only for the disconnect that cancelled it.                                *)
Tidy ==
  /\ link => client
  /\ wpc = "abandon" => ~client
  /\ mpc = "reset" => ~client
  /\ mpc = "idle" /\ state \in {"DISCONNECTED", "SCANNING"} => ~client

SteadyInv == Course /\ Asked /\ Waiting

-----------------------------------------------------------------------------
LEMMA SteadyInit == BleInit => SteadyInv /\ Tidy
  BY DEF BleInit, SteadyInv, Course, Asked, Waiting, Tidy, Doing, Linking, Starting, Attempt,
     InCall

(* One item goes in and one comes out. *)
LEMMA OneItem ==
  ASSUME NEW i, NEW s, s = <<i>>
  PROVE  s # <<>> /\ Head(s) = i /\ Tail(s) = <<>>
  OBVIOUS

LEMMA FirstItem ==
  ASSUME NEW i
  PROVE  Append(<<>>, i) = <<i>>
  OBVIOUS

LEMMA SteadyStep ==
  Flags /\ Places /\ SteadyInv /\ [PromptNext]_bleVars => SteadyInv'
<1>0. SUFFICES ASSUME Flags, Places, SteadyInv, [PromptNext]_bleVars PROVE SteadyInv'
  OBVIOUS
<1>. USE DEF SteadyInv, Course, Asked, Waiting, Queued, Doing, linkVars, mainVars, Linking,
     Starting, InCall, Attempt, Gone, Flags
<1>1. CASE TakeScan
  BY <1>0, <1>1, OneItem DEF TakeScan
<1>2. CASE TakeConnect
  BY <1>0, <1>2, OneItem, Taken DEF TakeConnect
<1>3. CASE TakeShutdown
  <2>1. leaving
    BY <1>0, <1>3, OneItem DEF TakeShutdown, Places, BleState
  <2>. QED  BY <1>0, <1>3, <2>1 DEF TakeShutdown
<1>17. CASE ScanEnds
  BY <1>0, <1>17, OneItem DEF ScanEnds, Places, BleState
<1>4. ASSUME ConnectReturns \/ SettleEnds \/ PairReturns PROVE SteadyInv'
  BY <1>0, <1>4 DEF ConnectReturns, SettleEnds, PairReturns, FailConnect
<1>5. ASSUME DiscoverReturns \/ HandshakeEnds PROVE SteadyInv'
  BY <1>0, <1>5 DEF DiscoverReturns, HandshakeEnds, FailConnect
<1>6. ASSUME InitReturns \/ InitAbandoned \/ SetConnected \/ Notified PROVE SteadyInv'
  BY <1>0, <1>6 DEF InitReturns, InitAbandoned, SetConnected, Notified
<1>7. ASSUME LinkLossFound \/ FireBurst \/ Drop PROVE SteadyInv'
  BY <1>0, <1>7 DEF LinkLossFound, FireBurst, Drop, Idle
<1>8. CASE StartScan
  BY <1>0, <1>8, FirstItem DEF StartScan, Idle
<1>9. ASSUME state = "DISCONNECTED", NEW p \in Peers, ConnectTo(p) PROVE SteadyInv'
  BY <1>0, <1>9, FirstItem DEF ConnectTo, Idle
<1>10. CASE CallDisconnect
  BY <1>0, <1>10, OneItem DEF CallDisconnect, BeginDisconnect, ConnectInFlight, Idle,
     Yielded, Places, BleState
<1>11. CASE CancelDone
  <2>1. (work = <<>> /\ wpc # "exited") \/ wpc \notin {"wait", "exited"}
    BY <1>0, <1>11 DEF CancelDone, WaitedOut, Yielded, Places, BleState
  <2>. QED
    BY <1>0, <1>11, <2>1, OneItem DEF CancelDone, WaitedOut, ConnectInFlight, Places,
       BleState
<1>12. ASSUME ScanWaitDone \/ Teardown PROVE SteadyInv'
  BY <1>0, <1>12 DEF ScanWaitDone, Teardown, ScanInFlight
<1>13. CASE DisconnectReturns
  BY <1>0, <1>13 DEF DisconnectReturns
<1>14. ASSUME CallDeinit \/ SendShutdown \/ WorkerJoined \/ Dispose PROVE SteadyInv'
  BY <1>0, <1>14 DEF CallDeinit, SendShutdown, WorkerJoined, Dispose, BeginDisconnect,
     ConnectInFlight, Idle
<1>15. CASE Restart
  BY <1>15 DEF Restart
<1>16. CASE UNCHANGED bleVars
  BY <1>0, <1>16 DEF bleVars
<1>. QED
  BY <1>0, <1>1, <1>2, <1>3, <1>4, <1>5, <1>6, <1>7, <1>8, <1>9, <1>10, <1>11, <1>12,
     <1>13, <1>14, <1>15, <1>16, <1>17
  DEF PromptNext, Worker, Waits, Calls

(* No step leaves a link up on a client that is gone, or a client behind.    *)
LEMMA TidyStep ==
  Flags /\ Places /\ HeldInv /\ SteadyInv /\ Tidy /\ [PromptNext]_bleVars => Tidy'
<1>0. SUFFICES ASSUME Flags, Places, HeldInv, SteadyInv, Tidy, [PromptNext]_bleVars
                 PROVE  Tidy'
  OBVIOUS
<1>. USE DEF Tidy, HeldInv, ClientHeld, SteadyInv, Course, Waiting, linkVars, mainVars,
     Linking, Starting, InCall, Attempt, Flags
<1>1. ASSUME TakeScan \/ TakeShutdown PROVE Tidy'
  BY <1>0, <1>1 DEF TakeScan, TakeShutdown
<1>2. CASE TakeConnect
  <2>1. mpc = "reset" => state # "CONNECTING"
    BY <1>0, <1>2 DEF TakeConnect
  <2>. QED  BY <1>0, <1>2, <2>1 DEF TakeConnect
<1>3. CASE ScanEnds
  BY <1>0, <1>3 DEF ScanEnds, Asked, Queued, Doing, Places, BleState
<1>4. ASSUME ConnectReturns \/ SettleEnds \/ PairReturns PROVE Tidy'
  BY <1>0, <1>4 DEF ConnectReturns, SettleEnds, PairReturns, FailConnect
<1>5. ASSUME DiscoverReturns \/ HandshakeEnds PROVE Tidy'
  BY <1>0, <1>5 DEF DiscoverReturns, HandshakeEnds, FailConnect
<1>6. ASSUME InitReturns \/ InitAbandoned \/ SetConnected \/ Notified PROVE Tidy'
  BY <1>0, <1>6 DEF InitReturns, InitAbandoned, SetConnected, Notified
<1>7. ASSUME LinkLossFound \/ FireBurst \/ Drop \/ StartScan PROVE Tidy'
  BY <1>0, <1>7 DEF LinkLossFound, FireBurst, Drop, StartScan, Idle
<1>8. ASSUME state = "DISCONNECTED", NEW p \in Peers, ConnectTo(p) PROVE Tidy'
  BY <1>0, <1>8 DEF ConnectTo, Idle
<1>9. ASSUME CallDisconnect \/ CancelDone \/ ScanWaitDone PROVE Tidy'
  BY <1>0, <1>9 DEF CallDisconnect, BeginDisconnect, CancelDone, WaitedOut, ScanWaitDone
<1>10. ASSUME Teardown \/ DisconnectReturns PROVE Tidy'
  BY <1>0, <1>10 DEF Teardown, DisconnectReturns
<1>11. ASSUME CallDeinit \/ SendShutdown \/ WorkerJoined \/ Dispose PROVE Tidy'
  BY <1>0, <1>11 DEF CallDeinit, SendShutdown, WorkerJoined, Dispose, BeginDisconnect
<1>12. CASE Restart
  BY <1>12 DEF Restart
<1>13. CASE UNCHANGED bleVars
  BY <1>0, <1>13 DEF bleVars
<1>. QED
  BY <1>0, <1>1, <1>2, <1>3, <1>4, <1>5, <1>6, <1>7, <1>8, <1>9, <1>10, <1>11, <1>12,
     <1>13
  DEF PromptNext, Worker, Waits, Calls

-----------------------------------------------------------------------------
(* The hub.  Its types apart from the client's; *)
HubFlags ==
  /\ screen \in {"home", "hub", "child", "scanEnter", "scan", "exit"}
  /\ auto \in BOOLEAN /\ again \in BOOLEAN /\ pending \in BOOLEAN
  /\ phase \in Phase
  /\ known \in Peers \cup {Nobody}
  /\ connecting \in BOOLEAN
  /\ then \in {"none", "scan", "exit", "stay"}

(* what each screen, with its flags, says about the client; *)
Screens ==
  /\ auto => screen = "hub"
  /\ then # "none" => screen = "hub" /\ ~auto
  /\ leaving => screen = "home"
  /\ mpc # "idle" => leaving \/ then # "none"
  /\ screen = "home" => leaving \/ state = "DISCONNECTED"
  /\ then # "none" /\ mpc = "idle" => state = "DISCONNECTED"
  /\ screen \in {"hub", "child"} /\ ~auto /\ mpc = "idle"
       => state \in {"DISCONNECTED", "CONNECTED"}
  /\ screen = "scan" /\ ~connecting => state \in {"DISCONNECTED", "SCANNING"}
  /\ screen = "scanEnter" => state = "DISCONNECTED"

(* and a connection that is in use, or sought, is that of a known companion. *)
Known ==
  /\ auto => known # Nobody
  /\ mpc = "idle" /\ state \in {"INITIALIZING", "CONNECTED"} => known # Nobody

HubInv == HubFlags /\ Screens /\ Known

LEMMA HubInitInv == HubInit => HubInv
<1>. SUFFICES ASSUME HubInit PROVE HubInv
  OBVIOUS
<1>1. HubFlags
  BY DEF HubInit, HubFlags, Phase
<1>2. Screens /\ Known
  BY DEF HubInit, BleInit, Screens, Known
<1>. QED  BY <1>1, <1>2 DEF HubInv

(* The hub and the scan activity connect only when nothing is under way, and *)
(* whatever else they call is one call of the client.                        *)
LEMMA HubIsPrompt ==
  Places /\ SteadyInv /\ HubInv /\ [HubNext]_hubVars => [PromptNext]_bleVars
<1>0. SUFFICES ASSUME Places, SteadyInv, HubInv, [HubNext]_hubVars
               PROVE  [PromptNext]_bleVars
  OBVIOUS
<1>1. ASSUME NEW p \in Peers, TryConnect(p), state \in {"DISCONNECTED", "CONNECTED"}
      PROVE [PromptNext]_bleVars
  <2>1. CASE ConnectTo(p)
    <3>1. state = "DISCONNECTED"
      BY <1>1, <2>1 DEF ConnectTo
    <3>. QED  BY <2>1, <3>1 DEF PromptNext, Calls
  <2>. QED  BY <1>1, <2>1 DEF TryConnect
<1>2. ASSUME TryScan PROVE [PromptNext]_bleVars
  BY <1>2 DEF TryScan, PromptNext, Calls
<1>3. ASSUME StartAutoReconnect, state \in {"DISCONNECTED", "CONNECTED"}
      PROVE [PromptNext]_bleVars
  <2>1. CASE known = Nobody
    BY <1>3, <2>1 DEF StartAutoReconnect
  <2>2. CASE known # Nobody
    <3>1. known \in Peers
      BY <1>0, <2>2 DEF HubInv, HubFlags
    <3>. QED  BY <1>1, <1>3, <2>2, <3>1 DEF StartAutoReconnect
  <2>. QED  BY <2>1, <2>2
<1>4. mpc = "idle" => ~leaving
  BY <1>0 DEF SteadyInv, Waiting
<1>5. ASSUME WorkerStep \/ WaitStep \/ DropStep \/ PollHub PROVE [PromptNext]_bleVars
  BY <1>5 DEF WorkerStep, WaitStep, DropStep, PollHub, PromptNext, Calls
<1>6. CASE EnterHub
  <2>1. state = "DISCONNECTED"
    BY <1>0, <1>4, <1>6 DEF EnterHub, StartAutoReconnect, TryConnect, ConnectTo, Idle,
       HubInv, Screens
  <2>. QED  BY <1>3, <1>6, <2>1 DEF EnterHub
<1>7. CASE Reconnect
  <2>1. state \in {"DISCONNECTED", "CONNECTED"}
    BY <1>0, <1>7 DEF Reconnect, Top, StartAutoReconnect, TryConnect, ConnectTo, Idle,
       HubInv, Screens
  <2>. QED  BY <1>3, <1>7, <2>1 DEF Reconnect
<1>8. CASE ScanHit
  <2>1. known \in Peers /\ state = "DISCONNECTED" /\ TryConnect(known)
    BY <1>0, <1>8 DEF ScanHit, HubInv, HubFlags
  <2>. QED  BY <1>1, <2>1
<1>9. CASE ScanConnect
  <2>1. PICK p \in Peers : TryConnect(p)
    BY <1>9 DEF ScanConnect
  <2>2. state = "DISCONNECTED"
    BY <1>0, <1>9 DEF ScanConnect, Scan, HubInv, Screens
  <2>. QED  BY <1>1, <2>1, <2>2
<1>10. ASSUME BeginScan \/ ScanEnter \/ ScanRetry PROVE [PromptNext]_bleVars
  BY <1>2, <1>10 DEF BeginScan, ScanEnter, ScanRetry
<1>11. ASSUME AutoConnected \/ ConnectFailed \/ PauseOver \/ ScanMiss PROVE UNCHANGED bleVars
  BY <1>11 DEF AutoConnected, ConnectFailed, PauseOver, ScanMiss
<1>12. ASSUME LeaveHub \/ OpenChild \/ CloseChild \/ AfterDisconnect PROVE UNCHANGED bleVars
  BY <1>12 DEF LeaveHub, OpenChild, CloseChild, AfterDisconnect
<1>13. ASSUME ScanDone \/ ScanFailed \/ ScanBack PROVE UNCHANGED bleVars
  BY <1>13 DEF ScanDone, ScanFailed, ScanBack
<1>14. ASSUME AutoScan \/ AutoBack \/ ManualDisconnect PROVE [PromptNext]_bleVars
  BY <1>14 DEF AutoScan, AutoBack, ManualDisconnect, PromptNext, Calls
<1>15. ASSUME Exit \/ HubRestart PROVE [PromptNext]_bleVars
  BY <1>15 DEF Exit, HubRestart, PromptNext, Calls
<1>16. CASE UNCHANGED hubVars
  BY <1>16 DEF hubVars
<1>. QED
  BY <1>0, <1>5, <1>6, <1>7, <1>8, <1>9, <1>10, <1>11, <1>12, <1>13, <1>14, <1>15, <1>16
  DEF HubNext, Hub, AutoStep, Buttons, ScanActivity

(* Where a step of the worker can take the state. *)
LEMMA WorkerMoves ==
  ASSUME Places, SteadyInv, Worker
  PROVE  /\ UNCHANGED <<mpc, leaving>>
         /\ state' \in BleState
         /\ ~leaving =>
              /\ state \in {"DISCONNECTED", "CONNECTED"} => state' = state
              /\ state = "SCANNING" => state' \in {"SCANNING", "DISCONNECTED"}
              /\ state' = "INITIALIZING" => state = "INITIALIZING" \/ wpc' = "init"
              /\ state' = "CONNECTED" => state \in {"CONNECTED", "INITIALIZING"}
         /\ wpc = "handshake" => peer \in Peers
         /\ wpc # "handshake" /\ wpc' = "init" => UNCHANGED state
<1>. USE DEF SteadyInv, Course, linkVars, mainVars, Linking, Starting, InCall, Attempt,
     Places, BleState
<1>1. CASE TakeScan \/ TakeShutdown
  BY <1>1 DEF TakeScan, TakeShutdown
<1>2. CASE TakeConnect
  BY <1>2 DEF TakeConnect
<1>3. CASE ScanEnds
  BY <1>3, OneItem DEF ScanEnds, Asked, Queued, Doing
<1>4. CASE ConnectReturns \/ SettleEnds \/ PairReturns
  BY <1>4 DEF ConnectReturns, SettleEnds, PairReturns, FailConnect
<1>5. CASE DiscoverReturns \/ HandshakeEnds
  BY <1>5 DEF DiscoverReturns, HandshakeEnds, FailConnect
<1>6. CASE InitReturns \/ InitAbandoned \/ SetConnected \/ Notified
  BY <1>6 DEF InitReturns, InitAbandoned, SetConnected, Notified
<1>. QED
  BY <1>1, <1>2, <1>3, <1>4, <1>5, <1>6 DEF Worker

LEMMA HubFlagsStep ==
  Places /\ SteadyInv /\ HubFlags /\ [HubNext]_hubVars => HubFlags'
<1>0. SUFFICES ASSUME Places, SteadyInv, HubFlags, [HubNext]_hubVars PROVE HubFlags'
  OBVIOUS
<1>. USE DEF HubFlags, hubOnly, Phase
<1>1. CASE WorkerStep
  <2>1. known' \in Peers \cup {Nobody}
    BY <1>0, <1>1, WorkerMoves DEF WorkerStep
  <2>. QED  BY <1>0, <1>1, <2>1, Zenon DEF WorkerStep, OnDown, Lost
<1>2. CASE WaitStep \/ DropStep \/ PollHub
  BY <1>0, <1>2, Zenon DEF WaitStep, DropStep, PollHub, OnDown, Lost
<1>3. CASE EnterHub \/ Reconnect
  BY <1>0, <1>3, Zenon DEF EnterHub, Reconnect, StartAutoReconnect
<1>4. CASE AutoStep
  BY <1>0, <1>4, Zenon DEF AutoStep, AutoConnected, ConnectFailed, PauseOver, BeginScan,
     ScanHit, ScanMiss, AutoPhase
<1>5. CASE Buttons
  BY <1>0, <1>5, Zenon DEF Buttons, AutoScan, AutoBack, ManualDisconnect, LeaveHub,
     OpenChild, CloseChild
<1>6. CASE AfterDisconnect
  BY <1>0, <1>6 DEF AfterDisconnect
<1>7. CASE Exit \/ HubRestart
  BY <1>0, <1>7, Zenon DEF Exit, HubRestart
<1>8. CASE ScanActivity
  BY <1>0, <1>8, ZenonT(30) DEF ScanActivity, ScanEnter, Scan, ScanRetry, ScanConnect,
     ScanDone, ScanFailed, ScanBack
<1>9. CASE UNCHANGED hubVars
  BY <1>0, <1>9, Zenon DEF hubVars
<1>. QED
  BY <1>0, <1>1, <1>2, <1>3, <1>4, <1>5, <1>6, <1>7, <1>8, <1>9 DEF HubNext, Hub

LEMMA ScreensStep ==
  Places /\ SteadyInv /\ HubInv /\ [HubNext]_hubVars => Screens' /\ Known'
<1>0. SUFFICES ASSUME Places, SteadyInv, HubInv, [HubNext]_hubVars
               PROVE  Screens' /\ Known'
  OBVIOUS
<1>. USE DEF HubInv, HubFlags, Screens, Known, hubOnly, linkVars, mainVars
<1>i. mpc = "idle" => ~leaving
  BY <1>0 DEF SteadyInv, Waiting
<1>1. CASE WorkerStep
  BY <1>0, <1>i, <1>1, WorkerMoves, PeerAssumption DEF WorkerStep, BleState, Places
<1>2. CASE WaitStep
  BY <1>0, <1>2 DEF WaitStep, Waits, CancelDone, WaitedOut, ScanWaitDone, Teardown,
     DisconnectReturns, SendShutdown, WorkerJoined, Dispose, BeginDisconnect
<1>3. CASE DropStep \/ PollHub
  BY <1>0, <1>3 DEF DropStep, PollHub, Drop, LinkLossFound, FireBurst
<1>4. CASE EnterHub \/ Reconnect
  BY <1>0, <1>i, <1>4 DEF EnterHub, Reconnect, Top, StartAutoReconnect, TryConnect,
     ConnectTo, Idle, bleVars
<1>5. CASE AutoConnected \/ ConnectFailed \/ PauseOver \/ ScanMiss
  BY <1>0, <1>5 DEF AutoConnected, ConnectFailed, PauseOver, ScanMiss, AutoPhase,
     Top, Idle, bleVars
<1>6. CASE BeginScan \/ ScanHit
  BY <1>0, <1>6 DEF BeginScan, ScanHit, AutoPhase, Top, Idle, bleVars, TryScan,
     StartScan, TryConnect, ConnectTo
<1>7. CASE AutoScan \/ AutoBack \/ ManualDisconnect
  BY <1>0, <1>i, <1>7 DEF AutoScan, AutoBack, ManualDisconnect, CallDisconnect,
     BeginDisconnect, Top, Idle, bleVars
<1>8. CASE LeaveHub \/ OpenChild \/ CloseChild
  BY <1>0, <1>8 DEF LeaveHub, OpenChild, CloseChild, Top, Idle, bleVars
<1>9. CASE AfterDisconnect
  BY <1>0, <1>i, <1>9 DEF AfterDisconnect, bleVars
<1>10. CASE Exit \/ HubRestart
  BY <1>0, <1>10 DEF Exit, HubRestart, CallDeinit, Restart, Idle
<1>11. CASE ScanEnter \/ ScanRetry
  BY <1>0, <1>11 DEF ScanEnter, ScanRetry, Scan, TryScan, StartScan, Idle, bleVars
<1>12. CASE ScanConnect
  BY <1>0, <1>12 DEF ScanConnect, Scan, TryConnect, ConnectTo, Idle, bleVars
<1>13. CASE ScanDone \/ ScanFailed \/ ScanBack
  BY <1>0, <1>13 DEF ScanDone, ScanFailed, ScanBack, Scan, Idle, bleVars
<1>14. CASE UNCHANGED hubVars
  BY <1>0, <1>14 DEF hubVars, bleVars
<1>. QED
  BY <1>0, <1>1, <1>2, <1>3, <1>4, <1>5, <1>6, <1>7, <1>8, <1>9, <1>10, <1>11, <1>12,
     <1>13, <1>14
  DEF HubNext, Hub, AutoStep, Buttons, ScanActivity

(* Everything together: the client's types, its invariants, and the hub's.   *)
HubIInv == Flags /\ Places /\ HeldInv /\ SteadyInv /\ Tidy /\ HubInv

LEMMA HubInductive == HubSpec => []HubIInv
<1>1. HubInit => HubIInv
  BY TypeInit, TypeSplit, HeldInit, SteadyInit, HubInitInv DEF HubInit, HubIInv
<1>2. HubIInv /\ [HubNext]_hubVars => HubIInv'
  <2>0. SUFFICES ASSUME HubIInv, [HubNext]_hubVars PROVE HubIInv'
    OBVIOUS
  <2>1. [PromptNext]_bleVars
    BY <2>0, HubIsPrompt DEF HubIInv
  <2>2. [BleNext]_bleVars
    BY <2>1 DEF BleNext
  <2>3. Flags' /\ Places' /\ HeldInv'
    BY <2>0, <2>2, FlagsStep, PlacesStep, HeldStep DEF HubIInv
  <2>4. SteadyInv' /\ Tidy'
    BY <2>0, <2>1, SteadyStep, TidyStep DEF HubIInv
  <2>5. HubInv'
    BY <2>0, HubFlagsStep, ScreensStep DEF HubIInv, HubInv
  <2>. QED  BY <2>3, <2>4, <2>5 DEF HubIInv
<1>. QED  BY <1>1, <1>2, PTL DEF HubSpec

-----------------------------------------------------------------------------
(* The hub's flags, its screens and the disconnect it has called agree: it   *)
(* reconnects only while it is on top, and not while it disconnects.         *)
THEOREM HubTypeCorrect == HubSpec => []HubTypeOK
<1>1. HubIInv => HubTypeOK
  BY TypeSplit DEF HubIInv, HubInv, HubFlags, Screens, HubTypeOK
<1>. QED  BY <1>1, HubInductive, PTL

(* The hub and the scan activity use the client as BleConnection allows:     *)
(* connectTo only when no scan and no connection is under way.  So what is   *)
(* proved of BleConnection holds in the composition.                         *)
THEOREM HubCallsTheClient == HubSpec => BleSpec
<1>1. HubInit => BleInit
  BY DEF HubInit
<1>2. HubIInv /\ [HubNext]_hubVars => [BleNext]_bleVars
  BY HubIsPrompt DEF HubIInv, BleNext
<1>. QED  BY <1>1, <1>2, HubInductive, PTL DEF HubSpec, BleSpec

(* handleStateChange, the reconnect phases and the buttons never bring the   *)
(* hub back to a companion the user has disconnected from.                   *)
THEOREM ForgottenTheorem == HubSpec => []Forgotten
<1>1. HubIInv => Forgotten
  BY DEF HubIInv, HubInv, Screens, Known, Tidy, AtRest, Forgotten
<1>. QED  BY <1>1, HubInductive, PTL

(* The connection doConnect brings up is to the address of the last          *)
(* connectTo; a disconnect() that has returned leaves none.                  *)
THEOREM AskedForTheorem == HubSpec => []AskedFor
<1>1. HubIInv => AskedFor
  BY DEF HubIInv, SteadyInv, Asked, Waiting, AskedFor
<1>. QED  BY <1>1, HubInductive, PTL

(* failConnect leaves the client of a cancelled attempt to disconnect(), and *)
(* the two between them leave no link up.                                    *)
THEOREM NoOrphanTheorem == HubSpec => []NoOrphanLink
<1>1. HubIInv => NoOrphanLink
  BY DEF HubIInv, Tidy, NoOrphanLink
<1>. QED  BY <1>1, HubInductive, PTL

(* A worker inside doConnect when disconnect() is called has come out of it  *)
(* when that returns: only a new request leads to a connection.              *)
THEOREM NoReturnTheorem == HubSpec => NoReturn
<1>1. HubIInv /\ [HubNext]_hubVars
        => [state = "DISCONNECTED" => state' \notin {"INITIALIZING", "CONNECTED"}]_bleVars
  <2>0. SUFFICES ASSUME HubIInv, [HubNext]_hubVars, state = "DISCONNECTED"
                 PROVE  state' \notin {"INITIALIZING", "CONNECTED"}
    OBVIOUS
  <2>1. [PromptNext]_bleVars
    BY <2>0, HubIsPrompt DEF HubIInv
  <2>2. CASE Worker
    BY <2>0, <2>2 DEF HubIInv, SteadyInv, Course, Linking, Starting, InCall, Attempt,
       Worker, TakeScan, TakeShutdown, TakeConnect, ScanEnds, ConnectReturns, SettleEnds,
       PairReturns, DiscoverReturns, HandshakeEnds, InitReturns, InitAbandoned,
       SetConnected, Notified, FailConnect
  <2>3. CASE Waits
    BY <2>0, <2>3 DEF Waits, CancelDone, WaitedOut, ScanWaitDone, Teardown,
       DisconnectReturns, SendShutdown, WorkerJoined, Dispose
  <2>4. CASE Calls \/ Drop \/ UNCHANGED bleVars
    BY <2>0, <2>4 DEF Calls, StartScan, ConnectTo, LinkLossFound, FireBurst,
       CallDisconnect, CallDeinit, Restart, Drop, bleVars
  <2>. QED
    BY <2>1, <2>2, <2>3, <2>4 DEF PromptNext
<1>. QED  BY <1>1, HubInductive, PTL DEF HubSpec, NoReturn
=============================================================================
