----------------------------- MODULE DmDelivery -----------------------------
(***************************************************************************)
(* The delivery of direct messages: the single tracker _pendingDm of        *)
(* MeshCoreClient, its four attempts (two along the contact's path, two     *)
(* flooded), the companion's PKT_MSG_SENT with the tag of the expected ACK, *)
(* the PKT_ACK from the mesh, and the status each message has in the store. *)
(* It runs on the command queue of CommandQueue: attempts wait there among  *)
(* other commands, and their answers come late, wrong or never.             *)
(*                                                                          *)
(* The tag of an attempt is the command that carried it: the companion      *)
(* computes it from the message and the attempt number, so no two attempts  *)
(* have the same one.                                                       *)
(***************************************************************************)
EXTENDS CommandQueue

CONSTANTS
  Msgs,             \* the messages the user may send, by their store ids
  DM_STAGE_COUNT,   \* attempts made for a message (4 in MeshCoreClient.h)
  FirstFlood        \* the first attempt that is flooded (2 in the code)

Stages == 0 .. DM_STAGE_COUNT - 1

ASSUME DmAssumption ==
  /\ Msgs # {}
  /\ DM_STAGE_COUNT \in Nat /\ FirstFlood \in Stages
  /\ (Msgs \X Stages) \subseteq Arg
  /\ "SEND_DM" \notin Issue

Status  == {"NONE", "SENT", "ACKED", "FAILED"}
Settled == {"ACKED", "FAILED"}

VARIABLES
  dm,        \* _pendingDm
  status,    \* the delivery status of each message in the store
  air,       \* the attempts on the mesh whose ACK may still come
  confirmed  \* the attempts an ACK has come for

dmOnly == <<dm, status, air, confirmed>>
dmVars == <<vars, dmOnly>>

Tracker == [active : BOOLEAN, msg : Msgs, stage : Stages, awaitingSent : BOOLEAN,
            ackTags : SUBSET Cmd]

(* An inactive tracker: what is left in it is never read. *)
NoTracker == [active |-> FALSE, msg |-> CHOOSE m \in Msgs : TRUE, stage |-> 0,
              awaitingSent |-> FALSE, ackTags |-> {}]

Attempt(m, s) == [byte |-> "SEND_DM", arg |-> <<m, s>>, epoch |-> epoch]

DmTypeOK ==
  /\ TypeOK
  /\ dm \in Tracker
  /\ status \in [Msgs -> Status]
  /\ air \subseteq Cmd
  /\ confirmed \subseteq Cmd

DmInit ==
  /\ Init
  /\ dm = NoTracker
  /\ status = [m \in Msgs |-> "NONE"]
  /\ air = {}
  /\ confirmed = {}

(* fireDelivery, as the hub writes it to the store. *)
Fired(s) == [status EXCEPT ![dm.msg] = s]

-----------------------------------------------------------------------------
(* ThreadMessenger on a connected client: the message is stored as SENT and  *)
(* handed to sendDirectMessage.  A message in flight is given up as FAILED;  *)
(* one that finds the queue full is not tracked, and FAILED too.  Without a  *)
(* path to the contact the first attempt is a flood.                         *)
SendDirectMessage(m) == \E written, hasPath \in BOOLEAN :
  /\ pc = "idle"
  /\ state = "CONNECTED"
  /\ status[m] = "NONE"
  /\ CanWrite(written)
  /\ LET first   == IF hasPath THEN 0 ELSE FirstFlood
         others  == IF dm.active THEN Fired("FAILED") ELSE status
         tracked == [active |-> TRUE, msg |-> m, stage |-> first,
                     awaitingSent |-> TRUE, ackTags |-> {}]
     IN  IF Full(q)
         THEN /\ dm' = NoTracker
              /\ status' = [others EXCEPT ![m] = "FAILED"]
              /\ q' = q
         ELSE /\ dm' = tracked
              /\ status' = [others EXCEPT ![m] = "SENT"]
              /\ q' = Enqueue(q, Attempt(m, first), written)
  /\ UNCHANGED <<state, up, rx, pc, retries, epoch, issued, air, confirmed>>

(* ThreadMessenger on a client that is not connected. *)
StoreUnsent(m) ==
  /\ pc = "idle"
  /\ state # "CONNECTED"
  /\ status[m] = "NONE"
  /\ status' = [status EXCEPT ![m] = "FAILED"]
  /\ UNCHANGED <<vars, dm, air, confirmed>>

(* Mutant: the tracker is dropped without a word to the store. *)
GiveUpSilently ==
  /\ dm' = NoTracker
  /\ UNCHANGED <<status, air, confirmed>>

(* The link is gone, or is given up: the message in flight has FAILED. *)
GiveUp ==
  /\ dm' = NoTracker
  /\ status' = IF dm.active THEN Fired("FAILED") ELSE status
  /\ UNCHANGED <<air, confirmed>>

DmLost       == PollLost /\ GiveUp
DmDisconnect == Disconnect /\ GiveUp

-----------------------------------------------------------------------------
(* processResponse on the packets that concern the tracker.                  *)

(* Mutant: the message fails and is still tracked. *)
DmErrorStaysTracked ==
  /\ Head(rx).type = "ERROR"
  /\ dm' = dm
  /\ status' = IF q.inFlight.byte = "SEND_DM" /\ dm.active THEN Fired("FAILED") ELSE status

(* An error while a SEND_DM is in flight fails the tracked message.          *)
DmError ==
  /\ Head(rx).type = "ERROR"
  /\ IF q.inFlight.byte = "SEND_DM" /\ dm.active
     THEN dm' = NoTracker /\ status' = Fired("FAILED")
     ELSE UNCHANGED <<dm, status>>

(* Mutant: the answer is recorded and still awaited. *)
DmSentStillAwaited ==
  /\ Head(rx).type = "MSG_SENT"
  /\ dm' = IF dm.active /\ dm.awaitingSent
           THEN [dm EXCEPT !.ackTags = dm.ackTags \cup {Head(rx).to}]
           ELSE dm
  /\ UNCHANGED status

(* PKT_MSG_SENT: the tag it carries is the tag of the attempt awaited. *)
DmSent ==
  /\ Head(rx).type = "MSG_SENT"
  /\ dm' = IF dm.active /\ dm.awaitingSent
           THEN [dm EXCEPT !.awaitingSent = FALSE,
                           !.ackTags = dm.ackTags \cup {Head(rx).to}]
           ELSE dm
  /\ UNCHANGED status

(* Mutant: the message is acknowledged and still tracked. *)
DmAckStaysTracked ==
  /\ Head(rx).type = "ACK"
  /\ dm' = dm
  /\ status' = IF dm.active /\ ~dm.awaitingSent /\ Head(rx).to \in dm.ackTags
               THEN Fired("ACKED") ELSE status

(* PKT_ACK: any attempt's tag counts, unless the answer to one is awaited. *)
DmAck ==
  /\ Head(rx).type = "ACK"
  /\ IF dm.active /\ ~dm.awaitingSent /\ Head(rx).to \in dm.ackTags
     THEN dm' = NoTracker /\ status' = Fired("ACKED")
     ELSE UNCHANGED <<dm, status>>

DmOther ==
  /\ Head(rx).type \notin {"ERROR", "MSG_SENT", "ACK"}
  /\ UNCHANGED <<dm, status>>

DmDrain ==
  /\ PollDrain
  /\ DmError \/ DmSent \/ DmAck \/ DmOther
  /\ UNCHANGED <<air, confirmed>>

(* Mutant: one attempt more than there are tags for. *)
ExhaustedLate(next) == next > DM_STAGE_COUNT

(* The attempts are used up. *)
Exhausted(next) == next >= DM_STAGE_COUNT

(* startDmEscalation, once the attempt's timeout has passed.  The last one   *)
(* fails the message; a flood is preceded by a reset of the path; what is    *)
(* sent again awaits its PKT_MSG_SENT, whether or not it could be queued.    *)
Escalate == \E w1, w2 \in BOOLEAN :
  /\ pc = "last"
  /\ state = "CONNECTED"
  /\ dm.active /\ ~dm.awaitingSent
  /\ CanWrite(w1)
  /\ LET next  == dm.stage + 1
         reset == IF next >= FirstFlood THEN Requested(q, "RESET_PATH", w1) ELSE q
         room  == w2 => up /\ Len(reset.wire) < MaxWire
     IN  IF Exhausted(next)
         THEN /\ dm' = NoTracker
              /\ status' = Fired("FAILED")
              /\ q' = q
         ELSE /\ room
              /\ dm' = [dm EXCEPT !.stage = next, !.awaitingSent = TRUE]
              /\ q' = IF Accepts(reset) THEN Enqueue(reset, Attempt(dm.msg, next), w2)
                                        ELSE reset
              /\ UNCHANGED status
  /\ UNCHANGED <<state, up, rx, pc, retries, epoch, issued, air, confirmed>>

-----------------------------------------------------------------------------
(* The companion transmits an attempt when it handles its frame, whether or  *)
(* not its answer arrives.  The recipient acknowledges an attempt it hears,  *)
(* once; of one it does not hear, or whose ACK is lost, nothing comes.       *)
Transmitted(c) == IF c.byte = "SEND_DM" THEN air \cup {c} ELSE air

DmAnswer == \E type \in PacketType, missing \in BOOLEAN :
  /\ AnswerWith(type, missing)
  /\ air' = IF type = "ERROR" THEN air ELSE Transmitted(Head(q.wire))
  /\ UNCHANGED <<dm, status, confirmed>>

DmLoseAnswer ==
  /\ LoseAnswer
  /\ air' = Transmitted(Head(q.wire))
  /\ UNCHANGED <<dm, status, confirmed>>

Acknowledge(c) ==
  /\ up
  /\ Deliver("ACK", FALSE, c)
  /\ air' = air \ {c}
  /\ confirmed' = confirmed \cup {c}
  /\ UNCHANGED <<state, up, q, pc, retries, epoch, issued, dm, status>>

-----------------------------------------------------------------------------
(* The steps of CommandQueue that leave the tracker alone. *)
PollStep == \/ PollEnter \/ PollNoTimeout \/ PollSend \/ PollNoSend \/ PollPeriodic \/ PollQuiet

QueueStep == \/ \E b \in Issue : Request(b)
             \/ PollStep
             \/ Connect \/ LinkDrop \/ CompanionPush

User == \E m \in Msgs : SendDirectMessage(m) \/ StoreUnsent(m)

Mesh == DmAnswer \/ \E c \in air : Acknowledge(c)

Common == User \/ DmLost \/ DmDisconnect \/ DmDrain \/ Mesh \/ (QueueStep /\ UNCHANGED dmOnly)

DmNext == Common \/ Escalate \/ DmLoseAnswer \/ (PollTimeout /\ UNCHANGED dmOnly)

DmSpec == DmInit /\ [][DmNext]_dmVars

(* Time passes: the main loop polls, timers run out, a link that is up lets  *)
(* some write through, and the companion handles the frames it has.          *)
Fairness ==
  /\ WF_dmVars(DmLost) /\ WF_dmVars(DmDrain)
  /\ WF_dmVars((PollEnter \/ PollSend \/ PollNoSend \/ PollQuiet) /\ UNCHANGED dmOnly)
  /\ SF_dmVars(PollNoTimeout /\ UNCHANGED dmOnly)
  /\ SF_dmVars(PollSend /\ q'.pending /\ UNCHANGED dmOnly)
  /\ WF_dmVars(DmAnswer \/ DmLoseAnswer)
  /\ SF_dmVars(Escalate)

FairSpec == DmSpec /\ SF_dmVars(PollTimeout /\ UNCHANGED dmOnly) /\ Fairness

(* A companion that answers every frame, before CMD_TIMEOUT_MS, and a queue  *)
(* with room for what an escalation enqueues.                                *)
PromptNext == Common \/ (Escalate /\ q.count + 2 <= CMD_QUEUE_SIZE)

PromptSpec == DmInit /\ [][PromptNext]_dmVars /\ Fairness

-----------------------------------------------------------------------------
(* A message is SENT exactly as long as the one tracker follows it: replaced,*)
(* refused, timed out for good, cut off or disconnected, it is settled, so   *)
(* none stays at SENT with nobody left to change it.                         *)
SentIsTracked ==
  \A m \in Msgs : status[m] = "SENT" <=> dm.active /\ dm.msg = m

(* A settled message stays as it is: a late answer, an ACK after the failure *)
(* or an error for another command does not change it again.                 *)
SettledOnce ==
  [][\A m \in Msgs : status[m] \in Settled => status'[m] = status[m]]_dmVars

(* What the user sees of the messages is a ledger: one on its way at a time, *)
(* and only that one is settled.                                             *)
Ledger == INSTANCE DeliveryLedger
LedgerSpec == Ledger!Spec

(* A message is shown as acknowledged only when an ACK for it has come.      *)
AckIsTrue == \A m \in Msgs : status[m] = "ACKED" => \E c \in confirmed : c.arg[1] = m

(* An ACK that carries the tag of an attempt already confirmed settles the   *)
(* message, even when escalation has moved on since.                         *)
LateAckCounts ==
  [][/\ Len(rx') < Len(rx) /\ pc = "drain"
     /\ Head(rx).type = "ACK" /\ dm.active /\ Head(rx).to \in dm.ackTags
     => ~dm'.active]_dmVars

(* Every message sent is settled in the end: acknowledged, or FAILED when    *)
(* its attempts are used up or its connection ends.                          *)
SentSettles == \A m \in Msgs : status[m] = "SENT" ~> status[m] # "SENT"
=============================================================================
