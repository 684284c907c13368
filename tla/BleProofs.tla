------------------------------ MODULE BleProofs ------------------------------
(***************************************************************************)
(* What holds of BleConnection for every set of companions, time-outs       *)
(* included: its types, that the NimBLE client is never deleted under the   *)
(* worker, and that no state is left with nobody at work on it.             *)
(*                                                                          *)
(* BleTypeOK is taken apart into Flags, the Boolean variables, whose steps  *)
(* are propositional, and Places, the queue and where everyone is.          *)
(***************************************************************************)
EXTENDS BleConnection, SequenceTheorems, TLAPS

Flags ==
  /\ client \in BOOLEAN /\ link \in BOOLEAN /\ chars \in BOOLEAN
  /\ cancel \in BOOLEAN /\ burst \in BOOLEAN /\ skip \in BOOLEAN /\ leaving \in BOOLEAN

Places ==
  /\ state \in BleState
  /\ work \in Seq(Item) /\ Len(work) <= WORK_QUEUE_SIZE
  /\ wpc \in {"wait", "scan"} \cup Attempt \cup Gone
  /\ peer \in Peers \cup {Nobody} /\ wanted \in Peers \cup {Nobody}
  /\ mpc \in {"idle", "cancel", "scanWait", "teardown", "reset",
              "shutdown", "join", "dispose", "off"}

(* The client is safe because the worker is out of doConnect, and cannot get *)
(* back into it, whenever the main task is about to delete the client.       *)
HeldInv ==
  /\ ClientHeld
  /\ state = "CONNECTED" => wpc \notin InCall \cup {"abandon", "ready"}
  /\ mpc \in {"scanWait", "teardown"} /\ ~skip =>
       /\ wpc \notin Attempt
       /\ wpc = "wait" => work = <<>> \/ state # "CONNECTING"
  /\ mpc = "dispose" => wpc \in Gone

(* A connection is whole from the end of its attempt on: what the attempt    *)
(* has made stays until the state says that it is gone.                      *)
WholeInv ==
  /\ wpc = "ready" => client
  /\ wpc \in {"handshake", "init", "ready"} => chars
  /\ mpc = "reset" /\ ~skip =>
       /\ wpc \notin Attempt
       /\ wpc = "wait" => work = <<>> \/ state # "CONNECTING"
  /\ ConnectedIsWhole

(* Every state but the two of rest has its work ahead of it: the last item   *)
(* queued, or where the worker is.                                           *)
LastItem(t) == work # <<>> /\ work[Len(work)].type = t

AtWork ==
  IF leaving
  THEN mpc # "idle"
  ELSE /\ state = "SCANNING" => LastItem("SCAN") \/ wpc = "scan"
       /\ state = "CONNECTING" => LastItem("CONNECT") \/ wpc \in InCall \ {"init"}
       /\ state = "INITIALIZING" => wpc \in {"init", "abandon", "ready"}
       /\ mpc \notin {"shutdown", "join", "dispose", "off"}

-----------------------------------------------------------------------------
(* What the worker takes, and what the main task adds to the queue. *)
LEMMA Taken ==
  ASSUME Places, work # <<>>
  PROVE  /\ Head(work) \in Item
         /\ Head(work).type = "CONNECT" => Head(work).to \in Peers
         /\ Tail(work) \in Seq(Item)
         /\ Len(Tail(work)) <= WORK_QUEUE_SIZE
<1>1. Head(work) \in Item /\ Tail(work) \in Seq(Item) /\ Len(Tail(work)) = Len(work) - 1
  BY HeadTailProperties DEF Places
<1>2. Head(work).type = "CONNECT" => Head(work).to \in Peers
  BY <1>1 DEF Item
<1>3. Len(work) \in Nat
  BY LenProperties DEF Places
<1>. QED  BY <1>1, <1>2, <1>3 DEF Places, WORK_QUEUE_SIZE

LEMMA Added ==
  ASSUME Places, Len(work) < WORK_QUEUE_SIZE, NEW i \in Item
  PROVE  Append(work, i) \in Seq(Item) /\ Len(Append(work, i)) <= WORK_QUEUE_SIZE
<1>1. Len(work) \in Nat
  BY LenProperties DEF Places
<1>. QED  BY <1>1, AppendProperties DEF Places, WORK_QUEUE_SIZE

LEMMA Empty == <<>> \in Seq(Item) /\ Len(<<>>) <= WORK_QUEUE_SIZE
<1>1. <<>> \in Seq(Item) 
  BY EmptySeq
<1>2. Len(<<>>) = 0
  OBVIOUS
<1>. QED  BY <1>1, <1>2 DEF WORK_QUEUE_SIZE

(* The last item stays last when another one is taken, *)
LEMMA LastOfTail ==
  ASSUME Places, NEW t, LastItem(t), Head(work).type # t, work' = Tail(work)
  PROVE  LastItem(t)'
<1>1. work \in Seq(Item) /\ work # <<>> /\ Len(work) \in Nat \ {0}
  BY EmptySeq DEF Places, LastItem
<1>2. Head(work) = work[1] /\ Len(work) # 1
  BY <1>1 DEF LastItem
<1>3. /\ Tail(work) \in Seq(Item)
      /\ Len(Tail(work)) = Len(work) - 1
      /\ \A i \in 1 .. Len(Tail(work)) : Tail(work)[i] = work[i + 1]
  BY <1>1, HeadTailProperties
<1>4. Len(work) - 1 \in 1 .. Len(Tail(work)) /\ (Len(work) - 1) + 1 = Len(work)
  BY <1>1, <1>2, <1>3
<1>5. Tail(work)[Len(Tail(work))] = work[Len(work)]
  BY <1>3, <1>4
<1>6. Tail(work) # <<>>
  <2>1. Len(<<>>) = 0
    OBVIOUS
  <2>2. Len(Tail(work)) # 0
    BY <1>1, <1>2, <1>3
  <2>. QED  BY <2>1, <2>2
<1>. QED  BY <1>5, <1>6 DEF LastItem

(* and an item added is the last one. *)
LEMMA LastOfAppend ==
  ASSUME Places, NEW i \in Item, work' = Append(work, i)
  PROVE  LastItem(i.type)'
<1>1. Append(work, i)[Len(Append(work, i))] = i /\ Append(work, i) # <<>>
  BY AppendProperties, LenProperties DEF Places
<1>. QED  BY <1>1 DEF LastItem

-----------------------------------------------------------------------------
LEMMA TypeInit == BleInit => BleTypeOK
<1>. SUFFICES ASSUME BleInit PROVE BleTypeOK
  OBVIOUS
<1>1. Flags
  BY Zenon DEF BleInit, Flags
<1>2. Places
  BY Empty DEF BleInit, Places, BleState
<1>. QED  BY <1>1, <1>2 DEF BleTypeOK, Flags, Places

(* No step gives a flag a value that is not Boolean. *)
LEMMA FlagsStep == Flags /\ [BleNext]_bleVars => Flags'
<1>0. SUFFICES ASSUME Flags, [BleNext]_bleVars PROVE Flags'
  OBVIOUS
<1>1. CASE Worker
  BY <1>0, <1>1, Zenon DEF Flags, linkVars, mainVars, Worker, TakeScan, ScanEnds,
     TakeConnect, TakeShutdown, ConnectReturns, SettleEnds, PairReturns,
     DiscoverReturns, HandshakeEnds, InitReturns, InitAbandoned, SetConnected,
     Notified, FailConnect
<1>2. CASE Waits
  BY <1>0, <1>2, Zenon DEF Flags, linkVars, mainVars, Waits, CancelDone, WaitedOut,
     ScanWaitDone, Teardown, DisconnectReturns, SendShutdown, WorkerJoined, Dispose,
     BeginDisconnect
<1>3. CASE Calls
  BY <1>0, <1>3, Zenon DEF Flags, linkVars, mainVars, Calls, StartScan, ConnectTo,
     LinkLossFound, FireBurst, CallDisconnect, BeginDisconnect, CallDeinit, Restart
<1>4. CASE TimeOuts \/ Drop \/ UNCHANGED bleVars
  BY <1>0, <1>4, Zenon DEF Flags, linkVars, mainVars, bleVars, TimeOuts,
     CancelTimesOut, ScanWaitTimesOut, KillWorker, Drop
<1>. QED
  BY <1>0, <1>1, <1>2, <1>3, <1>4 DEF BleNext, PromptNext

(* The queue keeps to its two items, and everyone is somewhere. *)
LEMMA PlacesStep == Places /\ [BleNext]_bleVars => Places'
<1>0. SUFFICES ASSUME Places, [BleNext]_bleVars PROVE Places'
  OBVIOUS
<1>. USE DEF Places, linkVars, mainVars
<1>1. ASSUME TakeScan \/ TakeConnect \/ TakeShutdown PROVE Places'
  BY <1>0, <1>1, Taken DEF TakeScan, TakeConnect, TakeShutdown, BleState, Attempt,
     InCall, Gone
<1>2. ASSUME ScanEnds \/ ConnectReturns \/ SettleEnds \/ PairReturns PROVE Places'
  BY <1>0, <1>2 DEF ScanEnds, ConnectReturns, SettleEnds, PairReturns, FailConnect,
     BleState, Attempt, InCall, Gone
<1>3. ASSUME DiscoverReturns \/ HandshakeEnds \/ InitReturns \/ InitAbandoned PROVE
   Places'
  BY <1>0, <1>3 DEF DiscoverReturns, HandshakeEnds, InitReturns, InitAbandoned,
     FailConnect, BleState, Attempt, InCall, Gone
<1>4. ASSUME SetConnected \/ Notified \/ LinkLossFound \/ FireBurst \/ Drop PROVE
   Places'
  BY <1>0, <1>4 DEF SetConnected, Notified, LinkLossFound, FireBurst, Drop, BleState,
     Attempt, InCall, Gone
<1>5. ASSUME CallDisconnect \/ Dispose \/ CancelDone \/ CancelTimesOut PROVE Places'
  BY <1>0, <1>5 DEF CallDisconnect, Dispose, BeginDisconnect, CancelDone, WaitedOut,
     CancelTimesOut
<1>6. ASSUME ScanWaitDone \/ ScanWaitTimesOut \/ Teardown \/ DisconnectReturns PROVE
   Places'
  BY <1>0, <1>6 DEF ScanWaitDone, ScanWaitTimesOut, Teardown, DisconnectReturns,
     BleState
<1>7. ASSUME CallDeinit \/ WorkerJoined \/ KillWorker PROVE Places'
  BY <1>0, <1>7 DEF CallDeinit, WorkerJoined, KillWorker, Gone
<1>8. CASE StartScan
  <2>1. [type |-> "SCAN", to |-> Nobody] \in Item
    BY DEF Item
  <2>. QED  BY <1>0, <1>8, <2>1, Added DEF StartScan, BleState
<1>9. ASSUME NEW p \in Peers, ConnectTo(p) PROVE Places'
  <2>1. [type |-> "CONNECT", to |-> p] \in Item
    BY DEF Item
  <2>. QED  BY <1>0, <1>9, <2>1, Added DEF ConnectTo, BleState
<1>10. CASE SendShutdown
  <2>1. [type |-> "SHUTDOWN", to |-> Nobody] \in Item
    BY DEF Item
  <2>. QED  BY <1>0, <1>10, <2>1, Added DEF SendShutdown
<1>11. CASE Restart
  BY <1>11, Empty DEF Restart, BleState
<1>12. CASE UNCHANGED bleVars
  BY <1>0, <1>12 DEF bleVars
<1>. QED
  BY <1>0, <1>1, <1>2, <1>3, <1>4, <1>5, <1>6, <1>7, <1>8, <1>9, <1>10, <1>11, <1>12
  DEF BleNext, PromptNext, Worker, Waits, Calls, TimeOuts

LEMMA TypeSplit == BleTypeOK <=> Flags /\ Places
  BY DEF BleTypeOK, Flags, Places

(* The flags, the state, the queue of two items and the places of the two    *)
(* tasks have the values their types give them (MeshCoreClient.h's fields).  *)
THEOREM BleTypeCorrect == BleSpec => []BleTypeOK
<1>1. BleTypeOK /\ [BleNext]_bleVars => BleTypeOK'
  <2>1. Flags /\ Places => (BleTypeOK' <=> Flags' /\ Places')
    BY DEF BleTypeOK, Flags, Places
  <2>. QED  BY <2>1, TypeSplit, FlagsStep, PlacesStep
<1>. QED  BY <1>1, TypeInit, PTL DEF BleSpec

-----------------------------------------------------------------------------
LEMMA HeldInit == BleInit => HeldInv
  BY DEF BleInit, HeldInv, ClientHeld, InCall, Attempt

(* A step of either task leaves the client to the worker that is using it. *)
LEMMA HeldStep == Flags /\ HeldInv /\ [BleNext]_bleVars => HeldInv'
<1>0. SUFFICES ASSUME Flags, HeldInv, [BleNext]_bleVars PROVE HeldInv'
  OBVIOUS
<1>. USE DEF HeldInv, ClientHeld, linkVars, mainVars, InCall, Attempt, Gone
<1>1. ASSUME TakeScan \/ TakeShutdown \/ ScanEnds PROVE HeldInv'
  BY <1>0, <1>1 DEF TakeScan, TakeShutdown, ScanEnds
<1>2. CASE TakeConnect
  BY <1>0, <1>2 DEF TakeConnect
<1>3. ASSUME ConnectReturns \/ SettleEnds \/ PairReturns PROVE HeldInv'
  BY <1>0, <1>3 DEF ConnectReturns, SettleEnds, PairReturns, FailConnect
<1>4. ASSUME DiscoverReturns \/ HandshakeEnds PROVE HeldInv'
  BY <1>0, <1>4 DEF DiscoverReturns, HandshakeEnds, FailConnect
<1>5. ASSUME InitReturns \/ InitAbandoned \/ SetConnected \/ Notified PROVE HeldInv'
  BY <1>0, <1>5 DEF InitReturns, InitAbandoned, SetConnected, Notified
<1>6. ASSUME LinkLossFound \/ FireBurst \/ Drop \/ StartScan PROVE HeldInv'
  BY <1>0, <1>6 DEF LinkLossFound, FireBurst, Drop, StartScan, Idle
<1>7. ASSUME NEW p \in Peers, ConnectTo(p) PROVE HeldInv'
  BY <1>0, <1>7 DEF ConnectTo, Idle
<1>8. ASSUME CallDisconnect \/ Dispose PROVE HeldInv'
  BY <1>0, <1>8 DEF CallDisconnect, Dispose, BeginDisconnect, ConnectInFlight, Idle,
     Yielded
<1>9. ASSUME CancelDone \/ CancelTimesOut PROVE HeldInv'
  BY <1>0, <1>9 DEF CancelDone, WaitedOut, CancelTimesOut, ConnectInFlight, Yielded
<1>10. ASSUME ScanWaitDone \/ ScanWaitTimesOut \/ DisconnectReturns PROVE HeldInv'
  BY <1>0, <1>10 DEF ScanWaitDone, ScanWaitTimesOut, DisconnectReturns
<1>11. CASE Teardown
  BY <1>0, <1>11 DEF Teardown
<1>12. ASSUME CallDeinit \/ SendShutdown \/ WorkerJoined \/ KillWorker PROVE HeldInv'
  BY <1>0, <1>12 DEF CallDeinit, SendShutdown, WorkerJoined, KillWorker,
     ConnectInFlight, ScanInFlight, Idle
<1>13. CASE Restart
  BY <1>13 DEF Restart
<1>14. CASE UNCHANGED bleVars
  BY <1>0, <1>14 DEF bleVars
<1>. QED
  BY <1>0, <1>1, <1>2, <1>3, <1>4, <1>5, <1>6, <1>7, <1>8, <1>9, <1>10, <1>11, <1>12,
     <1>13, <1>14
  DEF BleNext, PromptNext, Worker, Waits, Calls, TimeOuts

(* disconnect, deinit and poll never delete the client while the worker is   *)
(* inside a NimBLE call on it, whichever of their waits run out of time.     *)
THEOREM HeldTheorem == BleSpec => []ClientHeld
<1>1. HeldInv => ClientHeld
  BY DEF HeldInv
<1>2. BleTypeOK => Flags
  BY TypeSplit
<1>. QED  BY <1>1, <1>2, HeldInit, HeldStep, BleTypeCorrect, PTL DEF BleSpec

-----------------------------------------------------------------------------
LEMMA AtWorkInit == BleInit => AtWork
  BY DEF BleInit, AtWork

(* Whoever sets a state that is not one of rest leaves work for it. *)
LEMMA AtWorkStep == Flags /\ Places /\ AtWork /\ [BleNext]_bleVars => AtWork'
<1>0. SUFFICES ASSUME Flags, Places, AtWork, [BleNext]_bleVars PROVE AtWork'
  OBVIOUS
<1>. USE DEF AtWork, linkVars, mainVars, InCall
<1>1. ASSUME TakeScan \/ TakeShutdown PROVE AtWork'
  <2>1. LastItem("CONNECT") => LastItem("CONNECT")'
    BY <1>0, <1>1, LastOfTail DEF TakeScan, TakeShutdown
  <2>2. TakeShutdown => (LastItem("SCAN") => LastItem("SCAN")')
    BY <1>0, LastOfTail DEF TakeShutdown
  <2>. QED  BY <1>0, <1>1, <2>1, <2>2 DEF TakeScan, TakeShutdown
<1>2. CASE TakeConnect
  <2>1. LastItem("SCAN") => LastItem("SCAN")'
    BY <1>0, <1>2, LastOfTail DEF TakeConnect
  <2>. QED  BY <1>0, <1>2, <2>1 DEF TakeConnect
<1>3. ASSUME ConnectReturns \/ SettleEnds \/ PairReturns \/ ScanEnds PROVE AtWork'
  BY <1>0, <1>3 DEF ConnectReturns, SettleEnds, PairReturns, ScanEnds, FailConnect,
     LastItem
<1>4. ASSUME DiscoverReturns \/ HandshakeEnds PROVE AtWork'
  BY <1>0, <1>4 DEF DiscoverReturns, HandshakeEnds, FailConnect, LastItem
<1>5. ASSUME InitReturns \/ InitAbandoned \/ SetConnected \/ Notified PROVE AtWork'
  BY <1>0, <1>5 DEF InitReturns, InitAbandoned, SetConnected, Notified, LastItem
<1>6. ASSUME LinkLossFound \/ FireBurst \/ Drop PROVE AtWork'
  BY <1>0, <1>6 DEF LinkLossFound, FireBurst, Drop, LastItem
<1>7. CASE StartScan
  <2>1. [type |-> "SCAN", to |-> Nobody] \in Item
    BY DEF Item
  <2>2. LastItem("SCAN")'
    BY <1>0, <1>7, <2>1, LastOfAppend DEF StartScan
  <2>. QED  BY <1>0, <1>7, <2>2 DEF StartScan, Idle
<1>8. ASSUME NEW p \in Peers, ConnectTo(p) PROVE AtWork'
  <2>1. [type |-> "CONNECT", to |-> p] \in Item
    BY DEF Item
  <2>2. LastItem("CONNECT")'
    BY <1>0, <1>8, <2>1, LastOfAppend DEF ConnectTo
  <2>. QED  BY <1>0, <1>8, <2>2 DEF ConnectTo, Idle
<1>9. ASSUME CallDisconnect \/ Dispose PROVE AtWork'
  BY <1>0, <1>9 DEF CallDisconnect, Dispose, BeginDisconnect, LastItem, Idle
<1>10. ASSUME CancelDone \/ CancelTimesOut \/ ScanWaitDone \/ ScanWaitTimesOut PROVE
   AtWork'
  BY <1>0, <1>10 DEF CancelDone, WaitedOut, CancelTimesOut, ScanWaitDone,
     ScanWaitTimesOut, LastItem
<1>11. ASSUME Teardown \/ DisconnectReturns PROVE AtWork'
  BY <1>0, <1>11 DEF Teardown, DisconnectReturns, LastItem
<1>12. ASSUME CallDeinit \/ SendShutdown \/ WorkerJoined \/ KillWorker PROVE AtWork'
  BY <1>0, <1>12 DEF CallDeinit, SendShutdown, WorkerJoined, KillWorker
<1>13. CASE Restart
  BY <1>13 DEF Restart
<1>14. CASE UNCHANGED bleVars
  BY <1>0, <1>14 DEF bleVars, LastItem
<1>. QED
  BY <1>0, <1>1, <1>2, <1>3, <1>4, <1>5, <1>6, <1>7, <1>8, <1>9, <1>10, <1>11, <1>12,
     <1>13, <1>14
  DEF BleNext, PromptNext, Worker, Waits, Calls, TimeOuts

(* startScan and connectTo announce what the worker then does or gives up:   *)
(* the display never stays at "Scanning" or "Connecting" with an idle worker.*)
THEOREM NoPhantomTheorem == BleSpec => []NoPhantom
<1>1. BleTypeOK /\ AtWork => NoPhantom
  BY DEF BleTypeOK, AtWork, NoPhantom, LastItem, InCall, BleState
<1>. QED
  BY <1>1, TypeSplit, AtWorkInit, AtWorkStep, BleTypeCorrect, PTL DEF BleSpec

-----------------------------------------------------------------------------
LEMMA WholeInit == BleInit => WholeInv
  BY DEF BleInit, WholeInv, ConnectedIsWhole, Attempt, InCall

(* The characteristics are given up with the client, and both with the state.*)
LEMMA WholeStep ==
  Flags /\ HeldInv /\ WholeInv /\ [BleNext]_bleVars => WholeInv'
<1>0. SUFFICES ASSUME Flags, HeldInv, WholeInv, [BleNext]_bleVars PROVE WholeInv'
  OBVIOUS
<1>. USE DEF WholeInv, HeldInv, ClientHeld, ConnectedIsWhole, linkVars, mainVars,
     InCall, Attempt, Gone, Flags
<1>1. ASSUME TakeScan \/ TakeShutdown \/ ScanEnds PROVE WholeInv'
  BY <1>0, <1>1 DEF TakeScan, TakeShutdown, ScanEnds
<1>2. CASE TakeConnect
  BY <1>0, <1>2 DEF TakeConnect
<1>3. ASSUME ConnectReturns \/ SettleEnds \/ PairReturns PROVE WholeInv'
  BY <1>0, <1>3 DEF ConnectReturns, SettleEnds, PairReturns, FailConnect
<1>4. ASSUME DiscoverReturns \/ HandshakeEnds PROVE WholeInv'
  BY <1>0, <1>4 DEF DiscoverReturns, HandshakeEnds, FailConnect
<1>5. ASSUME InitReturns \/ InitAbandoned \/ SetConnected \/ Notified PROVE WholeInv'
  BY <1>0, <1>5 DEF InitReturns, InitAbandoned, SetConnected, Notified
<1>6. ASSUME LinkLossFound \/ FireBurst \/ Drop \/ StartScan PROVE WholeInv'
  BY <1>0, <1>6 DEF LinkLossFound, FireBurst, Drop, StartScan, Idle
<1>7. ASSUME NEW p \in Peers, ConnectTo(p) PROVE WholeInv'
  BY <1>0, <1>7 DEF ConnectTo, Idle
<1>8. ASSUME CallDisconnect \/ Dispose PROVE WholeInv'
  BY <1>0, <1>8 DEF CallDisconnect, Dispose, BeginDisconnect, ConnectInFlight, Idle
<1>9. ASSUME CancelDone \/ CancelTimesOut PROVE WholeInv'
  BY <1>0, <1>9 DEF CancelDone, WaitedOut, CancelTimesOut
<1>10. ASSUME ScanWaitDone \/ ScanWaitTimesOut PROVE WholeInv'
  BY <1>0, <1>10 DEF ScanWaitDone, ScanWaitTimesOut
<1>11. ASSUME Teardown \/ DisconnectReturns PROVE WholeInv'
  BY <1>0, <1>11 DEF Teardown, DisconnectReturns
<1>12. ASSUME CallDeinit \/ SendShutdown \/ WorkerJoined PROVE WholeInv'
  BY <1>0, <1>12 DEF CallDeinit, SendShutdown, WorkerJoined
<1>13. CASE KillWorker
  BY <1>0, <1>13 DEF KillWorker, ConnectInFlight, ScanInFlight
<1>14. CASE Restart
  BY <1>14 DEF Restart
<1>15. CASE UNCHANGED bleVars
  BY <1>0, <1>15 DEF bleVars
<1>. QED
  BY <1>0, <1>1, <1>2, <1>3, <1>4, <1>5, <1>6, <1>7, <1>8, <1>9, <1>10, <1>11, <1>12,
     <1>13, <1>14, <1>15
  DEF BleNext, PromptNext, Worker, Waits, Calls, TimeOuts

(* Whoever sees CONNECTED between two calls of the client finds its client   *)
(* and its characteristics: sendNextCmd writes to rxChar on no other word    *)
(* than the state's.                                                         *)
THEOREM WholeTheorem == BleSpec => []ConnectedIsWhole
<1>1. WholeInv => ConnectedIsWhole
  BY DEF WholeInv
<1>2. BleTypeOK => Flags
  BY TypeSplit
<1>. QED
  BY <1>1, <1>2, HeldInit, HeldStep, WholeInit, WholeStep, BleTypeCorrect, PTL
  DEF BleSpec
=============================================================================
