---------------------------- MODULE CommandQueue ----------------------------
(***************************************************************************)
(* The command queue of MeshCoreClient at work: the requests of the main    *)
(* thread, poll(), which processes the companion's packets and times        *)
(* commands out, the companion, which may answer late or never and pushes   *)
(* packets of its own, and the link, which may drop and be set up again.    *)
(*                                                                          *)
(* poll() is not atomic: packets arrive and the link drops while it runs.   *)
(* pc says where the main thread is: "idle" (any request may be made),      *)
(* "drain" (poll's rx loop), "send" and "last" (what follows it).  What     *)
(* poll does for the tracked direct message is in DmDelivery, which extends *)
(* this module.                                                             *)
(*                                                                          *)
(* The phases of a connection attempt are in BleConnection; here the worker *)
(* goes from DISCONNECTED to CONNECTED in one step.                         *)
(***************************************************************************)
EXTENDS CommandRing

CONSTANTS
  Issue,         \* the bytes of the requests made by the user interface
  Pushes,        \* the types of the packets the companion sends unasked
  MaxRequests,   \* bound: requests the user interface makes
  MaxEpoch,      \* bound: connections set up
  MaxRx,         \* bound: packets waiting for poll (63 in the code)
  MaxWire        \* bound: commands the companion holds unanswered

ASSUME CommandQueueAssumption ==
  /\ Issue \subseteq CmdByte
  /\ MaxRequests \in Nat /\ MaxEpoch \in Nat /\ MaxRx \in Nat /\ MaxWire \in Nat
  /\ \A i \in 1 .. MaxRequests : <<i>> \in Arg
  /\ 0 .. MaxEpoch \subseteq Epoch

MAX_CONTACT_RETRIES == 3

VARIABLES
  state,     \* "CONNECTED" or "DISCONNECTED": BleConnectionState
  up,        \* bleClient->isConnected(): the link as NimBLE sees it
  q,         \* the command ring
  rx,        \* the packets notifyCallback has queued for poll
  pc,        \* where the main thread is
  retries,   \* retryContactsCount
  epoch,     \* how many connections have been set up
  issued     \* how many requests the user interface has made

vars == <<state, up, q, rx, pc, retries, epoch, issued>>

PacketType == Reply \cup Pushes \cup {"ERROR", "CONTACT_MSG", "NO_MORE_MSGS", "ACK"}
Packet     == [type : PacketType, missing : BOOLEAN, to : Cmd]

TypeOK ==
  /\ state \in {"CONNECTED", "DISCONNECTED"}
  /\ up \in BOOLEAN
  /\ q \in Ring
  /\ rx \in Seq(Packet)
  /\ pc \in {"idle", "drain", "send", "last"}
  /\ retries \in 0 .. MAX_CONTACT_RETRIES
  /\ epoch \in 0 .. MaxEpoch
  /\ issued \in 0 .. MaxRequests

Init ==
  /\ state = "DISCONNECTED"
  /\ up = FALSE
  /\ q = NewRing
  /\ rx = <<>>
  /\ pc = "idle"
  /\ retries = 0
  /\ epoch = 0
  /\ issued = 0

-----------------------------------------------------------------------------
(* Mutants: enqueueCmd without one of its guards. *)
AcceptsWhenFull(r) == state = "CONNECTED"
AcceptsOffline(r) == ~Full(r)

(* What enqueueCmd tests before it takes a command. *)
Accepts(r) == state = "CONNECTED" /\ ~Full(r)

(* A write fails when the link is down, and may fail when it is up; it does  *)
(* fail when the companion has no room for the frame.                        *)
CanWrite(written) == written => up /\ Len(q.wire) < MaxWire

(* A request the client or an activity makes on the way (without argument): it is  *)
(* ignored when the queue is full or the link is gone.                       *)
System(b) == [byte |-> b, arg |-> <<>>, epoch |-> epoch]

Requested(r, b, written) ==
  IF Accepts(r) THEN Enqueue(r, System(b), written) ELSE r

(* A request of the user interface.  A refused one changes nothing. *)
Request(b) == \E written \in BOOLEAN :
  /\ pc = "idle"
  /\ Accepts(q)
  /\ CanWrite(written)
  /\ issued < MaxRequests
  /\ issued' = issued + 1
  /\ q' = Enqueue(q, [byte |-> b, arg |-> <<issued + 1>>, epoch |-> epoch], written)
  /\ UNCHANGED <<state, up, rx, pc, retries, epoch>>

-----------------------------------------------------------------------------
(* poll() finds that the link is gone, and returns. *)
PollLost ==
  /\ pc = "idle"
  /\ state = "CONNECTED" /\ ~up
  /\ state' = "DISCONNECTED"
  /\ q' = Flush(q)
  /\ UNCHANGED <<up, rx, pc, retries, epoch, issued>>

PollEnter ==
  /\ pc = "idle"
  /\ ~(state = "CONNECTED" /\ ~up)
  /\ pc' = "drain"
  /\ UNCHANGED <<state, up, q, rx, retries, epoch, issued>>

(* The request the handling of a packet may end with.  MSGS_WAITING always   *)
(* fetches a message; a message fetches the next one, but not after 32 in a  *)
(* row (drainNextMessage); an advert and a new path ask for the changed      *)
(* contacts when the address book and the debounce want it; a contact list   *)
(* that came short is fetched again (handleContact).                         *)
Follow == [MSGS_WAITING  |-> "GET_MESSAGE",
           CONTACT_MSG   |-> "GET_MESSAGE",
           ADVERTISEMENT |-> "GET_CONTACTS",
           PATH_UPDATED  |-> "GET_CONTACTS",
           CONTACT_END   |-> "GET_CONTACTS"]

(* processResponse on the oldest packet. *)
PollDrain == \E written \in BOOLEAN :
  /\ pc = "drain"
  /\ rx # <<>>
  /\ CanWrite(written)
  /\ LET p == Head(rx)
         r == Respond(q, p.type, p.missing)
     IN  /\ \/ /\ p.type \in DOMAIN Follow
               /\ q' = Requested(r, Follow[p.type], written)
            \/ /\ p.type # "MSGS_WAITING"
               /\ q' = r
         /\ retries' = IF p.type = "CONTACT_END" THEN 0 ELSE retries
  /\ rx' = Tail(rx)
  /\ UNCHANGED <<state, up, pc, epoch, issued>>

(* The command in flight has been pending for more than CMD_TIMEOUT_MS.      *)
(* A fetch of the contacts is made again, three times at most.               *)
PollTimeout == \E written \in BOOLEAN :
  /\ pc = "drain"
  /\ rx = <<>>
  /\ q.pending
  /\ CanWrite(written)
  /\ LET r     == SendNext(Expire(q), written)
         retry == /\ q.inFlight.byte = "GET_CONTACTS"
                  /\ retries < MAX_CONTACT_RETRIES
     IN  /\ q' = IF retry THEN Requested(r, "GET_CONTACTS", written) ELSE r
         /\ retries' = IF retry THEN retries + 1 ELSE retries
  /\ pc' = "send"
  /\ UNCHANGED <<state, up, rx, epoch, issued>>

PollNoTimeout ==
  /\ pc = "drain"
  /\ rx = <<>>
  /\ pc' = "send"
  /\ UNCHANGED <<state, up, q, rx, retries, epoch, issued>>

(* poll() sends the next command when none is pending. *)
PollSend == \E written \in BOOLEAN :
  /\ pc = "send"
  /\ ~q.pending /\ q.count > 0
  /\ CanWrite(written)
  /\ q' = SendNext(q, written)
  /\ pc' = "last"
  /\ UNCHANGED <<state, up, rx, retries, epoch, issued>>

PollNoSend ==
  /\ pc = "send"
  /\ q.pending \/ q.count = 0
  /\ pc' = "last"
  /\ UNCHANGED <<state, up, q, rx, retries, epoch, issued>>

(* The periodic request for messages, if the queue is idle and 30 s passed. *)
PollPeriodic == \E written \in BOOLEAN :
  /\ pc = "last"
  /\ state = "CONNECTED" /\ ~q.pending /\ q.count = 0
  /\ CanWrite(written)
  /\ q' = Requested(q, "GET_MESSAGE", written)
  /\ pc' = "idle"
  /\ UNCHANGED <<state, up, rx, retries, epoch, issued>>

PollQuiet ==
  /\ pc = "last"
  /\ pc' = "idle"
  /\ UNCHANGED <<state, up, q, rx, retries, epoch, issued>>

-----------------------------------------------------------------------------
(* disconnect(), called by the activities on the main thread. *)
Disconnect ==
  /\ pc = "idle"
  /\ state' = "DISCONNECTED"
  /\ up' = FALSE
  /\ q' = Reset(q)
  /\ rx' = <<>>
  /\ UNCHANGED <<pc, retries, epoch, issued>>

(* The worker sets up a connection.  An activity asks for one after it has   *)
(* polled, so nothing of the connection before is left in rx; SELF_INFO and  *)
(* DEVICE_INFO, the answers to the handshake, go through processResponse.    *)
Connect ==
  /\ state = "DISCONNECTED"
  /\ rx = <<>>
  /\ epoch < MaxEpoch
  /\ state' = "CONNECTED"
  /\ up' = TRUE
  /\ epoch' = epoch + 1
  /\ q' = Respond(Respond(q, "SELF_INFO", FALSE), "DEVICE_INFO", FALSE)
  /\ UNCHANGED <<rx, pc, retries, issued>>

(* The link drops; poll() has yet to find out. *)
LinkDrop ==
  /\ up
  /\ up' = FALSE
  /\ UNCHANGED <<state, q, rx, pc, retries, epoch, issued>>

-----------------------------------------------------------------------------
(* The companion (external).  It handles the frames written to it in order,  *)
(* answers each with its reply, an error or, if the answer is lost, nothing, *)
(* and sends packets of its own.                                             *)
Deliver(type, missing, to) ==
  /\ Len(rx) < MaxRx
  /\ rx' = Append(rx, [type |-> type, missing |-> missing, to |-> to])

Replies(b) == IF b = "GET_MESSAGE" THEN {"CONTACT_MSG", "NO_MORE_MSGS"}
                                   ELSE {ExpectedResponse[b]}

AnswerWith(type, missing) ==
  /\ up
  /\ q.wire # <<>>
  /\ type = "ERROR" \/ type \in Replies(Head(q.wire).byte)
  /\ missing => type = "ERROR" /\ Head(q.wire).byte = "REMOVE_CONTACT"
  /\ Deliver(type, missing, Head(q.wire))
  /\ q' = [q EXCEPT !.wire = Tail(q.wire)]
  /\ UNCHANGED <<state, up, pc, retries, epoch, issued>>

Answer == \E type \in PacketType, missing \in BOOLEAN : AnswerWith(type, missing)

LoseAnswer ==
  /\ up
  /\ q.wire # <<>>
  /\ q' = [q EXCEPT !.wire = Tail(q.wire)]
  /\ UNCHANGED <<state, up, rx, pc, retries, epoch, issued>>

CompanionPush ==
  /\ up
  /\ \E type \in Pushes : Deliver(type, FALSE, NoCmd)
  /\ UNCHANGED <<state, up, q, pc, retries, epoch, issued>>

-----------------------------------------------------------------------------
Poll == \/ PollEnter \/ PollDrain \/ PollTimeout \/ PollNoTimeout
        \/ PollSend \/ PollNoSend \/ PollPeriodic \/ PollQuiet

Companion == Answer \/ LoseAnswer \/ CompanionPush

(* All that happens while no connection is lost. *)
Work == \/ \E b \in Issue : Request(b)
        \/ Poll
        \/ Disconnect \/ Connect
        \/ Companion

Next == Work \/ LinkDrop \/ PollLost

Spec == Init /\ [][Next]_vars

(* The behaviours in which a connection is never lost with commands queued:  *)
(* the assumption under which the ring is a queue.                           *)
SteadyNext == Work \/ LinkDrop \/ (PollLost /\ q.count = 0)

SteadySpec == Init /\ [][SteadyNext]_vars

(* The behaviours in which the link never drops, and time passes: the main   *)
(* loop keeps polling, a command in flight does not outlive its timeout for  *)
(* ever, and a link that is up does not refuse every write.                  *)
LiveSpec ==
  /\ Init /\ [][Work]_vars
  /\ WF_vars(PollEnter) /\ WF_vars(PollDrain) /\ SF_vars(PollNoTimeout)
  /\ WF_vars(PollNoSend) /\ WF_vars(PollQuiet)
  /\ SF_vars(PollTimeout) /\ SF_vars(PollSend /\ q'.pending)
  /\ WF_vars(Answer \/ LoseAnswer)

-----------------------------------------------------------------------------
(* The ring is what the indices say: the tail is count slots after the head. *)
(* Every enqueue, send and reset of the code relies on it.                   *)
RingSound == Skew(q) = 0

(* A command is queued or in flight only on a connection that poll believes  *)
(* in; so enqueueCmd's state test is enough to keep the ring empty.          *)
IdleWhenDisconnected == state = "DISCONNECTED" => q.count = 0 /\ ~q.pending

(* Only commands of this connection reach the companion: a command dropped   *)
(* with a connection is not sent on the next one.                            *)
NoStaleCommand == \A i \in DOMAIN q.wire : q.wire[i].epoch = epoch

(* The head and the tail part ways only when a loss is found with commands   *)
(* queued, and come together again only in disconnect.                       *)
SkewOnlyByLoss ==
  [][Skew(q') # Skew(q) =>
       /\ state' = "DISCONNECTED"
       /\ \/ state = "CONNECTED" /\ q.count > 0     \* PollLost
          \/ Skew(q') = 0]_vars                      \* Disconnect

(* A packet the companion sends unasked never ends the command in flight.    *)
PushNeverAdvances ==
  [][/\ Len(rx') < Len(rx) /\ pc = "drain" /\ q.pending
     /\ Head(rx).type \in Pushes
     => q'.pending /\ q'.inFlight = q.inFlight]_vars

(* The same for the commands whose reply has a type of its own.              *)
TypedCommandKept ==
  [][/\ Len(rx') < Len(rx) /\ pc = "drain" /\ q.pending
     /\ ExpectedResponse[q.inFlight.byte] # "OK"
     /\ Head(rx).type \notin {ExpectedResponse[q.inFlight.byte], "ERROR"}
     => q'.pending /\ q'.inFlight = q.inFlight]_vars

(* The result an activity reads is not one of a connection that is gone:     *)
(* "Result of the last completed command.  Reset on disconnect."             *)
ResultReset == state = "DISCONNECTED" => ~q.ok

(* The queue is a first-in first-out queue of the commands accepted.         *)
Fifo == INSTANCE CommandFifo WITH waiting <- Backlog(q), wire <- q.wire
FifoSpec == Fifo!Spec

(* A command accepted is written, or its connection closed, in the end: a    *)
(* companion that answers nothing cannot keep the queue for ever.            *)
Queued(i) == \E k \in DOMAIN Backlog(q) : Backlog(q)[k].arg = <<i>>
NothingWedged == \A i \in 1 .. MaxRequests : Queued(i) ~> ~Queued(i)
=============================================================================
