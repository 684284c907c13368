# Verification of CrossPoint Mesh

CrossPoint Mesh is the firmware of an e-reader (ESP32-C3, one core, FreeRTOS)
with a MeshCore client: over Bluetooth LE it drives a *companion* radio that
exchanges messages with a mesh network. This directory holds TLA+ models of the
parts of it whose behaviour depends on timing, order and failure, the TLC
configurations that check them, and TLAPS proofs of what matters most.

Paths below are relative to the repository; `Client` is
`lib/MeshCore/MeshCore/MeshCoreClient.cpp`, `Hub` is
`src/activities/meshcore/MeshCoreHubActivity.cpp`.

## 1. Inventory

| Component | State | Operations | What is hard |
|---|---|---|---|
| Command queue (`Client`) | ring `cmdQueue` with `cmdHead/Tail/Count`, the command in flight, `lastCmdSuccess` | `requestX`, `enqueueCmd`, `sendNextCmd`, `processResponse`, the time-out in `poll` | late, missing and unasked packets; loss of the link; a full ring |
| Delivery of direct messages (`Client`, `ThreadMessenger.cpp`) | one tracker `_pendingDm`, the status of each message in the store | `sendDirectMessage`, `PKT_MSG_SENT`, `PKT_ACK`, errors, four attempts of `startDmEscalation` | ACKs of earlier attempts, answers of other commands, a second message, a loss |
| BLE connection (`Client`) | `state`, `bleClient`, the characteristics, `cancelConnect`, `connectInFlight`, the work queue of two | `startScan`, `connectTo`, `disconnect`, `deinit` on the main task; `doScan`, `doConnect` on the worker | two tasks without a lock; blocking calls with 15 s waits |
| Hub and scan activity (`Hub`, `MeshCoreScanActivity.cpp`) | `autoReconnecting`, `reconnectOnDisconnect`, `pendingAutoReconnect`, the reconnect phase | `loop`, `handleStateChange` (on either task), buttons, `onExit` | callbacks on another task; phases that wait for a state |
| Post-connect requests, channel sync, message drain (`Client`) | `initialRequestsPending`, `channelSyncNext/Total/Active`, `msgDrainCount` | `poll`, `drainNextMessage` | a queue of 12 filled while others use it |
| Message store (`MeshCoreMessageStore.cpp`) | a directory per thread: one file per message, one meta file; unread counts; contacts | append, update, load, clear, drop the oldest | power loss between two files; ids that must not repeat |
| Thread activity (`MeshCoreThreadActivity.cpp`, `ThreadMessenger.cpp`) | `_meta`, a copy of the thread's meta file; the disconnect popup; `_pendingOp`, its target | `loop`, send, scroll, clear, rebuild of the records on the render task; node operations that wait for `isCommandPending()` | three writers of one meta file; the result read may be another command's |
| Received packets (`Client`) | `rxQueue` of 64, `rxDedup` of 8, echo trackers of 4 | `notifyCallback` (NimBLE task), `poll` | overflow, retries of one message, echoes counted for another |
| Contact list sync (`Client`, `Hub`) | announced and received counts, `retryContactsCount` | `CONTACT_START` .. `CONTACT_END`, retry | pushes mixed into a list |
| Activity manager (`ActivityManager.cpp`) | the stack of activities, the pending action, the render task | push, pop, replace, `requestUpdateAndWait` | the render task uses what the main task destroys |
| Reader, caches, network, settings, input, fonts, formats | see `PROJECT.json` | | mostly sequential; the file swaps are crash-sensitive |

How they interact: the activities call the client on the main task and read its
state; the client calls them back, on the main task from `poll`, on the worker
from `doConnect` and `doScan`. NimBLE's own task puts notifications into the
ring of received packets. The store is called by the activities only.

What makes each component correct:

* queue: accepted commands reach the companion once and in order; a command is
  ended by its own answer, an error, its time-out or the end of its connection;
* delivery: a message is settled exactly once, as what really happened to it;
* connection: the client object outlives every use of it; a state that promises
  progress has somebody making it; a disconnect is final;
* hub: the reconnect neither stops by itself nor returns to a companion the
  user has left;
* store: ids are never used twice, what was acknowledged to the user is there
  after a power loss; thread operations: a result is that of the operation.

## 2. Plan

Done, in this order:

1. `CommandRing`, `CommandQueue`, `CommandFifo`, with proofs.
2. `DmDelivery` on the queue, `DeliveryLedger`, with proofs.
3. `BleConnection` with proofs, `HubReconnect` composing it.
4. `MessageStore`: a conversation as files written one by one, with failures and
   power losses, implementing `ThreadLog`, with proofs.
5. `ThreadView`: the parties that share a conversation on the main task and the
   render task.
6. `SessionSync`: handshake, burst, channel refill, message drain, the ring of
   received packets and the contact list, on two tasks, with proofs.
7. `ActivityManager`: stack, render task, mutex and `requestUpdateAndWait`, with
   proofs.

Left, the most important first:

1. `ThreadOps`: the node operations of the thread's menu and the hub's GPS,
   advert and import steps, which start a command, wait for
   `isCommandPending()` and read the last result.
2. `RxDedup` and `ChannelEcho`: the eight remembered messages, the four echo
   trackers.
3. The unread counts and the contacts file, shared by the worker's callback and
   the main task; the reply caches.
4. The temporary-file swaps of the section and CSS caches, the WebDAV upload,
   the OTA steps, the T4 engine.

Each module declares its parameters as constants with named assumptions, has one
action per operation, and uses no recursive operator, so that it can be proved
about.

## 3. Modules

**`CommandRing`** is the queue as a value: a record with the fields of the class
and one operator per function that changes them (`Enqueue`, `SendNext`,
`Respond`, `Expire`, `Flush`, `Reset`). `PKT_OK` is the byte 0x00 and 0 is also
"accept any packet", so both are `"OK"`. Each command carries the number of the
connection it was accepted in, and `wire` holds the frames the companion has not
handled; neither is in the code.

**`CommandQueue`** puts the ring to work. `poll()` is split at the points where
packets arrive or the link drops (`pc`); a write fails or not (`written`). The
companion (external) answers each frame with its reply, an error or nothing, and
pushes packets of its own; late answers come from a long `wire`. A connection
attempt is one step here. **`CommandFifo`** is the abstract queue it implements:
`waiting <- Backlog(q)`, `wire <- q.wire`.

**`DmDelivery`** extends it with the tracker. Tags are the attempts themselves,
for the companion computes them from message and attempt. `air` and `confirmed`
are what is on the mesh. **`DeliveryLedger`** is what the user sees: each message
is sent once, one is on its way at a time, and none changes after it is settled.

**`BleConnection`** is the worker and the main task. `wpc` is the blocking call
the worker is in; a step is the end of one call and all up to the next. `mpc` is
where the main task is inside `disconnect` and `deinit`. `connectInFlight` and
`scanInFlight` are functions of `wpc` (they are scopes of `doConnect` and
`doScan`), except that a killed worker never leaves its scope. `wanted` is the
address asked for last.

**`HubReconnect`** composes `BleConnection` with its callers. A callback on the
way down runs in the step that sets the state; the one for CONNECTED takes the
worker until its step `Notified`, for it reads the card before it sets
`reconnectOnDisconnect`. The scan activity does not call `poll`.

**`MessageStore`** is one conversation: `meta.bin` and a file per message
(`Conversation` holds the window of ids and its arithmetic). `pc` names the next
storage call of the operation in `op`; a file is truncated when it is opened and
whole only when it is closed. Between any two calls the power may fail, and a
call may fail or fall short. **`ThreadLog`** is what the readers are promised:
messages under consecutive ids that enter at one end and leave at the other. The
refinement counts a file under way as what is being written to it.

**`ThreadView`** has the three writers of one `meta.bin`: the hub's callbacks,
which store what arrives while any screen polls; the thread activity, which
keeps the window in RAM and writes it back whole; the render task, which
rewrites every record when the body font changes. `step` is the main task's
place in `loop()`. An operation of the store is one step here. `Risks` names
what goes wrong in the code as it is (section 4): the run leaves it empty, so
that everything else can be checked beside it.

**`SessionSync`** is the synchronisation with a companion on both tasks: `phase`
is the worker's place and the state, `pc` the main task's place in `poll()`,
which ends a step before each command it enqueues and each packet it takes. The
queue is the sequence that `CommandFifo` shows it to be, the ring of packets a
sequence with its limit; `list` is the contact list the companion is streaming,
`short` whether a frame of it was dropped. `Risks` again names what the promise
about contact lists does not survive.

**`ActivityManager`** has the main task (`pc`, and `where` its code was called
from), the render task (`rpc`) and callbacks of the worker that only ask for a
drawing. The main task holds the rendering mutex within a step only. What an
activity does is any sequence of calls on the manager, also in the `onEnter` that
`setup()` runs (`where` = `"boot"`), where the hub starts its scan activity; what
is pending then waits for `loop()`. `handler` is the child a result handler was
registered for, `Lost` if that child never came on: it was not allocated, or a
gesture dropped it while it was pending. `due` is a change the screen does not
show yet, made under the lock or not.

`MCCommandQueue` and `MCDmDelivery` give values to the constants that a
configuration file cannot write; `*Proofs` hold the theorems.

Operators named as mutants stand before the definition they alter. They are the
plausible mistakes the properties are tested against, and no specification uses
them.

## 4. Runs

| Run | Specification and bounds | Shows |
|---|---|---|
| `command_queue` | `Spec`: 3 slots, 2 requests, 2 connections, 1 packet and 1 frame under way; losses at any time | types; head and tail part only by a loss with commands queued; a command whose reply has its own type is ended by that reply, an error, its time-out or the end of its connection |
| `command_queue_live` | `LiveSpec`: 2 slots, the link holds | the ring is a FIFO, no command outlives its connection, a companion that answers nothing cannot wedge the queue |
| `dm_delivery` | `DmSpec`: 2 messages, 2 attempts each (one along the path, one flooded), 2 connections, pushes | SENT exactly while tracked; the ledger is implemented, so a message is settled once |
| `dm_prompt` | `PromptSpec`: 1 message beside another request | every message is settled if the companion answers in time |
| `ble_connection` | `BleSpec`: 2 companions, every call may outlast its wait | the client object is safe, a connection in use is whole, no state without work behind it |
| `hub_reconnect` | `FairSpec`: 2 companions, the calls return in time | the connection is the one asked for; a disconnect returns, is final, leaves no link; a left companion is forgotten for good; the reconnect ends in a connection |
| `session_sync` | `FairSpec`: queue of 3 with 1 in reserve, ring of 3, 2 channels, 1 contact, 1 retry of each kind, 2 extra connections, pushes, messages or commands, 2 frames unanswered | every channel, and then the messages, are asked for on a connection that lasts; a full list that lost a frame is fetched again; the fetching ends |
| `message_store` | `StoreSpec`: capacity 3, 5 ids, 2 faults | the window of ids is sound; all of it can be read while nothing was cut short; the log is implemented |
| `thread_view` | `FairSpec`: capacity 3, 6 messages, ring of 2, `Risks` empty | a delivery status lands on its own message and stays; no write of one party costs a message of another; input handlers work on the window the card has; the view keeps up, at capacity too |
| `activity_manager` | `FairSpec`: 5 activities, one of them exclusive, stack of 2 | drawing never meets an activity that is gone; a waiter is always woken, by a drawing that shows its change; a handler that is called was set for the child that leaves or for one that never came on; the device sleeps on the sleep screen; the screen catches up |

Bounds. Every hazard of the queue needs at most two commands besides the one in
flight; 3 slots let head and tail wrap and stand apart. Two connections are
needed for a command to outlive one, two messages for one to be taken for the
other; the four attempts only count up, and two of them show each kind. The
theorems of section 6 cover the code's own sizes. The BLE models have no bound
but the number of companions: two, so that one can be taken for the other, and
their state space is finite by itself. A conversation of capacity 3 with 5 or 6
messages is filled and expires its oldest at least twice; two faults let a second power
loss meet what the first has left. In `session_sync` the sizes are the smallest
that keep the code's proportions: the burst fills the queue, the reserve
leaves slots to refill, a list does not fit the ring. A queue of 2, or a
companion that holds only one frame, would make two retries block each other for
ever, which twelve slots do not allow. Two activities besides the home, the
sleep and the exclusive one are enough for a parent, a child and a replacement.

Two more runs find a violation: a place where the code does not do what a
comment beside it says. `findings` in `PROJECT.json` quotes the comment and
explains the behaviour.

| Run | Behaviour |
|---|---|
| `ack_of_another` | one message's ACK marks the next one as acknowledged |
| `poll_steals` | a `poll()` that was draining when the handshake began takes the answer the worker waits for |

More disagreements of the same kind have their property in a module and no run
of their own; to see one, check the property under the specification named,
with the bounds of the run of that module.

| Property | Specification | Behaviour |
|---|---|---|
| `PushNeverAdvances` | `CommandQueue!Spec` | a push ends a command that expects `PKT_OK`, for 0 is also "any packet" |
| `NoStaleCommand` | `CommandQueue!Spec` | commands queued at a loss are written on the next connection: `poll` resets `cmdCount` only (`Client:981`) |
| `ResultReset` | `CommandQueue!Spec` | the last result survives `disconnect()`; `MeshCoreClient.h:107` says "Reset on disconnect." |
| `LateAckCounts` | `DmSpec` | an ACK that comes between a resend and its `PKT_MSG_SENT` is dropped (`Client:1406`); `MeshCoreClient.h:294-296` says it still matches |
| `SentSettles` | `DmDelivery!FairSpec` | one missing `PKT_MSG_SENT` leaves a message at SENT while the connection lasts |
| `ClientHeld` | `RaceSpec` | `disconnect` reads `connectInFlight` between two items of the worker and deletes the client it is about to use |
| `KillIsFinal` | `BleSpec` | a killed worker is waited for a second time, since `vTaskDelete` leaves `connectInFlight` set |
| `NoReturn` | `BleSpec` | a worker that outlasts the 15 s wait connects after the disconnect (`Client:511`) |
| `BurstAccepted` | `BleSpec` | the post-connect requests are made, and refused, before the state is CONNECTED (`Client:1552`): battery, custom variables and contacts are lost for this connection, channels and messages are asked for by the refill |
| `KeepsTrying` | `HubReconnect!FairSpec` | a loss found while the CONNECTED callback runs leaves the hub idle (`Hub:971`) |
| `NoSilentLoss` | `SessionSync` with `Risks` = `{"newAdvert"}`, `{"since"}` or `{"start"}` | a discovered node is counted as one of the list, an incremental fetch clears `lastContactListFull` of the list that still streams, a lost `CONTACT_START` leaves the old total: the short list is not fetched again (`Hub:1188-1190`) |
| `FetchesBounded` | `SessionSync!FairSpec` | while frames are dropped for ever, the retry after a time-out and the retry of a short list renew each other (`Client:1052` "Bounded by retryContactsCount") |
| `EndGrows`, `KeepsLog`, `StatusTrue` | `ThreadView` with `Risks` = `{"unseen"}` or `{"overlap"}` | the window in RAM is written over a newer one when the popup leaves the thread before it has looked, and the rebuild writes records and the window over those of the main task (`MeshCoreThreadActivity.cpp:404` "Compare endId (monotonically increasing)") |
| `StatusTrue` | `ThreadView` with `Risks` = `{"clear"}` | ids start at 1 after a clear, and the acknowledgement of a cleared message lands on the new one |
| `ResultIsOwn` | `ActivityManager!Spec` | the handler of a child that never came on gets the next one's result. The hub launched by `setup()` without a known companion starts its scan activity in `onEnter` (`MeshCoreHubActivity.cpp:171`, `ActivityManager.cpp:248-252`), so it is pending before the first `loop()`; a light panel gesture in that pass (`:115-117`) drops it, and the hub's handler gets the panel's result, which is not cancelled, and takes it for a connection. `ActivityManager.cpp:362` says of a pending activity in `pushActivity` "Should never happen in practice". A child that could not be allocated (`Activity.cpp:17-20`) leaves its handler to the next one too |

What else was met while modelling, without a property:

* `meta.bin` is rewritten in place: a write cut short costs the whole thread, and
  ids start at 1 over files that are still there. A power loss in an append may
  leave a message that is counted and cannot be read; what `file.write` returns
  is not looked at.
* A contact list that streams for longer than `CMD_TIMEOUT_MS` times out.
  `lastContactListFull` is set even when the request is refused.
* `PollLost` leaves the ring of packets, `initialRequestsPending` and the channel
  sync as they were; `disconnect()` clears them.
* The unread count is not raised for what arrives behind the disconnect popup.
* `goToSleep` runs one pass of `loop()`. If it consumes a suppressed release,
  serves a gesture, or the outgoing activity asks for another screen, the device
  does not sleep on the sleep screen; `SleepShown` leaves this out (`"spoilt"`).
* `requestUpdateAndWait` may return after a drawing begun before a change that
  was made without the lock; the MeshCore activities never take it. A new
  activity may be drawn before its `onEnter` has run.
* `requestedUpdate` "must only be set by the main loop" (`ActivityManager.h:74`);
  the worker and the render task set it too.

## 5. Fairness

The main loop calls `poll` in every iteration, so its steps are weakly fair; the
time-out, and a write on a link that is up, are taken again and again and
strongly fair (`LiveSpec`). `PromptSpec` of `DmDelivery` assumes in addition a
companion that answers before `CMD_TIMEOUT_MS` and room for an escalation; without the first the property fails (`FairSpec`, section 4). In
`HubReconnect`, fairness of the worker says that NimBLE calls return, which
their own time-outs guarantee, and of the main task that its waits go on. The
reconnect phases are weakly fair (they are the hub's loop),
and `InRange` says that from some time on the companion is found, connects and
stays: what is then shown is that no phase misses it. No button is ever assumed
to be pressed.

`SessionSync!FairSpec`: `poll` goes on, a command in flight meets its time-out
again and again, the worker goes on after the handshake and the companion takes
what is written to it; it need not answer. `SyncCompletes` and `FetchesEnd` have the premise
that from some time on no frame of a contact list finds the ring full; without
it the retries may go on for ever. `ActivityManager!FairSpec`: both tasks are
scheduled (they have the same priority), `loop()` is called again and again, an
activity's code returns, also without having asked for another screen, so
activities do not start each other for ever. `ThreadView!FairSpec`: the main
task goes round its loop, the render task renders.

## 6. Proofs

All theorems hold for every value of the constants under the assumptions
declared in the modules (a ring with at least one slot, messages and attempts
among the arguments, an address that is nobody's, a conversation of at least two
messages, a sleep screen among the activities, a reserve smaller than the
queue).

* `CommandQueueProofs`.
  `TypeCorrect` and `IdleTheorem` (nothing is queued or in flight while
  disconnected) are inductive together.
  `SkewTheorem` is an action property: every operator but `Flush` and `Reset`
  keeps `tail - head - count` modulo the size. `SoundTheorem` is its consequence
  under `SteadySpec`: the skew is 0 at the start, and each exempted step keeps
  it, for the queue is empty then. `FifoTheorem` is the refinement: with skew 0,
  `Backlog` after `Enqueue` is `Append`, after `SendNext` is `Tail`, and `Drop`
  is what a loss or a disconnect does. `TypedTheorem` needs `Matched`: what
  `processResponse` compares a packet with is the reply of the command in
  flight, for `sendNextCmd` sets the two together.
* `DmDeliveryProofs`. `SentTheorem` is inductive with the types: each action
  changes the tracker and the status together. `LedgerTheorem` maps each action
  to a ledger step or a stutter by it; `SettledTheorem` follows from the ledger.
* `BleProofs`. `BleTypeCorrect`; `HeldTheorem` by the invariant `HeldInv`:
  whenever the main task is between its waits and the teardown without
  `skipClientTeardown`, the worker is outside `doConnect`, and an item left in
  the queue cannot bring it back because the state is no longer CONNECTING. That
  clause holds because the wait ends only when the worker has taken what was
  queued (`Yielded`); under `RaceSpec` it does not, and the property fails. The clause on
  CONNECTED is what makes the loss handling of `poll` safe.
  `NoPhantomTheorem` by `AtWork`: each passing state has its cause at the end of
  the work queue or in the worker. `WholeTheorem` by `WholeInv`: what an attempt
  has made stays until `disconnect` or `deinit` takes it down, and no worker is
  inside an attempt then, or none that can still set the state.
* `HubProofs`. `HubSpec` lets the calls return in time, and `Prompt` is the
  client alone under callers that call `connectTo` when nothing is under way.
  `SteadyInv` says of it that each state stands for one piece of work, queued or
  in hand, for the address asked for last (`Asked`), and that `disconnect` past
  its wait has the worker at rest or gone (`Waiting`); `Tidy` that a link is up
  on a client only. `Screens` and `Known` add what the hub's flags say of the
  client: it reconnects only while it is on top and knows a companion. With
  `BleProofs`' invariants these are inductive together (`HubIInv`), and every
  step of the screens is a step of `Prompt`: so `HubSpec` implements `BleSpec`
  (`HubCallsTheClient`), and the theorems of `BleProofs` hold for it as well.
  `ForgottenTheorem`, `AskedForTheorem`, `NoOrphanTheorem` and `NoReturnTheorem`
  follow from `HubIInv`; the last fails of `BleSpec` (section 4), where a wait may
  time out.
* `MessageStoreProofs`. `SInv` joins the types and the soundness of the window
  on the card with `InCall`: at each storage call, which id is open for writing,
  that its file is truncated, and how the window in memory follows from the one
  on the card. `StoreTypes` and `WindowIsSound` need no more;
  `StoreImplementsLog` maps each storage call to a step of the log or a stutter
  by it. `NothingUnreadable` strengthens it by `WholeInv`, what has a file during
  an operation while nothing was cut short.
* `ActivityProofs`. `IInv` joins the types with `Control` (what the main task can
  be asked to do where it is), `Drawing` (`DrawsCurrent`, `WaiterServed`, and a
  change made under the lock is due only while no drawing has begun),
  `Sleeping` (from `goToSleep` on the sleep screen is what is pending, then what
  is shown), `OwnedOnce` (every activity is in one place) and `Handlers` (a
  handler is for the activity above, for the pending one, or for one that never
  came on). All theorems of the module follow from it.
* `ThreadViewProofs`, with `Risks` = `{}`. `ThreadInv`: the record of every body
  on the card is settled exactly when its delivery is over, and the one on its
  way is the tracked one (`Bodies`, `Tracked`); what waits in the ring is in no
  record (`Arrived`); the thread's window differs from the card's only between an
  append and the next look at `meta.bin` (`Adopted`); the record in the render
  task's memory is the one on the card (`Rebuilding`). `StatusTheorem` and
  `ViewTheorem` are parts of it; `LogTheorem` and `EndTheorem` are proved per
  action from it. A capacity of at least two is assumed (the code keeps 200):
  with room for one, an append would first empty the window, ids would start
  again, and giving up the message before would settle the new one.
* `SessionSyncProofs`. `SyncTypes`: the ring and the queue keep to their sizes,
  the refill and both kinds of retry to their limits, whatever `Risks` allow.
  `SyncInv`: once `poll` has left the burst (`Served`),
  every channel the refill has passed has been asked for, and all of them when
  there is no refill any more (`Covered`). It is stated from the handshake's end
  on, not from CONNECTED, because the burst may be made before.
  `NoSilentLossTheorem`, with `Risks` = `{}`, by `LossInv`: a short list ends in
  a short packet only (`ShortEnds`); as long as a full list is asked for, streams,
  or has a short end in the ring, `lastContactListFull` is set (`Fetched`); and
  there is a forecast, a number for each place in the ring, that bounds from
  below how many contacts the hub will find missing there (`Missing`). A packet
  of a list lowers the forecast by one, its start sets it to the number of
  contacts; a dropped contact leaves one more missing than there are to come, so
  that it is positive where a short list ends. The forecast is a witness picked
  in the proof, not a variable of the model.

Only model-checked: the liveness properties (`NothingWedged`, `SentSettles`,
`Returns`, `Reconnects`, `SyncCompletes`, `FetchesEnd`, `ViewFollows`,
`ScreenCatchesUp`), which are out of the prover's reach, like everything that
needs ENABLED or induction over data; no module uses a recursive operator.
Every invariant and every action property that a passing run checks is a theorem.
`NoSilentLoss` and the properties of `ThreadView` are proved where they are
checked, with `Risks` empty; section 4 says what becomes of them otherwise.

## 7. What is not modelled

Frame layouts and the contents of messages; wall-clock times (a time-out may
come at any moment its condition allows); heap exhaustion apart from the scan
activity's check, `createClient` and the allocation of a child activity; the
interior of the hub's screens; heights, scroll positions and fonts of a thread.
The flags shared by two tasks are single words, so their accesses are atomic.

By lines, almost all of the repository is outside these models, and most of it
stays there: fonts and hyphenation tables are data, expat, the decompressors and
the other libraries are third-party code, and the EPUB, CSS, image and text
layout code are sequential transformations whose correctness is in the documents
they are given, so that a small instance would show nothing about them. The
models are of the code whose behaviour depends on the order of events: the
MeshCore client, its activities and store, and the activity manager. Of that
code the node operations of the menus, the duplicate suppression, the echo
trackers, the unread counts and the contacts file are still open (section 2).
Components marked `partly` or `not_modelled` in `PROJECT.json` name what is left
of each.
