-------------------------- MODULE DmDeliveryProofs --------------------------
(***************************************************************************)
(* Theorems about DmDelivery, for every set of messages, every number of    *)
(* attempts, every size of the queue and every bound.                       *)
(***************************************************************************)
EXTENDS DmDelivery, CommandQueueProofs

LEMMA AttemptType ==
  ASSUME TypeOK, NEW m \in Msgs, NEW s \in Stages
  PROVE  Attempt(m, s) \in Cmd
<1>1. <<m, s>> \in Arg
  BY DmAssumption
<1>2. "SEND_DM" \in CmdByte
  BY DEF CmdByte, ExpectedResponse
<1>3. epoch \in Epoch
  BY CommandQueueAssumption DEF TypeOK
<1>4. QED
  BY <1>1, <1>2, <1>3 DEF Attempt, Cmd

LEMMA StageZero == 0 \in Stages /\ FirstFlood \in Stages
BY DmAssumption DEF Stages

LEMMA NoTrackerType == NoTracker \in Tracker /\ ~NoTracker.active
<1>1. (CHOOSE m \in Msgs : TRUE) \in Msgs
  BY DmAssumption
<1>2. QED
  BY <1>1, StageZero DEF NoTracker, Tracker

-----------------------------------------------------------------------------
(* The queue under the tracker keeps its types. *)
LEMMA SendTypes ==
  ASSUME TypeOK, NEW m \in Msgs, SendDirectMessage(m)
  PROVE  TypeOK'
<1>1. PICK written \in BOOLEAN, hasPath \in BOOLEAN :
        q' = IF Full(q) THEN q
             ELSE Enqueue(q, Attempt(m, IF hasPath THEN 0 ELSE FirstFlood), written)
  BY DEF SendDirectMessage
<1>2. Attempt(m, IF hasPath THEN 0 ELSE FirstFlood) \in Cmd
  BY AttemptType, StageZero
<1>3. q' \in Ring
  BY <1>1, <1>2, EnqueueType DEF TypeOK
<1>4. QED
  BY <1>3 DEF SendDirectMessage, TypeOK

LEMMA EscalateTypes ==
  ASSUME TypeOK, dm \in Tracker, Escalate
  PROVE  TypeOK' /\ dm' \in Tracker
<1> DEFINE next == dm.stage + 1
<1>1. PICK w1 \in BOOLEAN, w2 \in BOOLEAN :
        LET reset == IF next >= FirstFlood THEN Requested(q, "RESET_PATH", w1) ELSE q
        IN  IF next >= DM_STAGE_COUNT
            THEN dm' = NoTracker /\ q' = q
            ELSE /\ dm' = [dm EXCEPT !.stage = next, !.awaitingSent = TRUE]
                 /\ q' = IF Accepts(reset) THEN Enqueue(reset, Attempt(dm.msg, next), w2)
                                           ELSE reset
  BY DEF Escalate, Exhausted
<1> DEFINE reset == IF next >= FirstFlood THEN Requested(q, "RESET_PATH", w1) ELSE q
<1>2. reset \in Ring
  <2>1. "RESET_PATH" \in CmdByte
    BY DEF CmdByte, ExpectedResponse
  <2>2. QED
    BY <2>1, RequestedType DEF TypeOK
<1>3. CASE next >= DM_STAGE_COUNT
  BY <1>1, <1>3, NoTrackerType DEF Escalate, TypeOK
<1>4. CASE ~(next >= DM_STAGE_COUNT)
  <2>1. next \in Stages /\ dm.msg \in Msgs
    BY <1>4, DmAssumption DEF Stages, Tracker
  <2>2. Attempt(dm.msg, next) \in Cmd
    BY <2>1, AttemptType
  <2> HIDE DEF next, reset
  <2>3. q' = IF Accepts(reset) THEN Enqueue(reset, Attempt(dm.msg, next), w2) ELSE reset
    BY <1>1, <1>4 DEF reset, next
  <2>4. q' \in Ring
    BY <1>2, <2>2, <2>3, EnqueueType DEF Accepts
  <2>5. dm' \in Tracker
    BY <1>1, <1>4, <2>1 DEF Tracker, next
  <2>6. QED
    BY <2>4, <2>5 DEF Escalate, TypeOK
<1>5. QED
  BY <1>3, <1>4

LEMMA AcknowledgeTypes ==
  ASSUME TypeOK, NEW c \in Cmd, Acknowledge(c)
  PROVE  TypeOK'
<1>1. rx' \in Seq(Packet)
  BY DEF Acknowledge, Deliver, Packet, PacketType, TypeOK
<1>2. QED
  BY <1>1 DEF Acknowledge, TypeOK

-----------------------------------------------------------------------------
(* What a step does to the statuses and the tracker: nothing, or it settles  *)
(* the message tracked, or it stores a new one.                              *)
Untouched == status' = status /\ dm'.active = dm.active /\ dm'.msg = dm.msg

Idles == status' = status /\ ~dm.active /\ ~dm'.active

Settles(s) == dm.active /\ ~dm'.active /\ status' = Fired(s)

Others == IF dm.active THEN Fired("FAILED") ELSE status

Tracks(m) ==
  /\ status[m] = "NONE"
  /\ dm'.active /\ dm'.msg = m
  /\ status' = [Others EXCEPT ![m] = "SENT"]

Refuses(m) ==
  /\ status[m] = "NONE"
  /\ ~dm'.active
  /\ status' = [Others EXCEPT ![m] = "FAILED"]

Stores(m) ==
  /\ status[m] = "NONE"
  /\ status' = [status EXCEPT ![m] = "FAILED"]
  /\ dm' = dm

StatusStep == \/ Untouched \/ Idles
              \/ \E s \in Settled : Settles(s)
              \/ \E m \in Msgs : Tracks(m) \/ Refuses(m) \/ Stores(m)

LEMMA GiveUpStep ==
  ASSUME GiveUp
  PROVE  StatusStep
BY NoTrackerType DEF GiveUp, StatusStep, Idles, Settles, Settled

LEMMA SendStep ==
  ASSUME NEW m \in Msgs, SendDirectMessage(m)
  PROVE  Tracks(m) \/ Refuses(m)
<1>1. CASE Full(q)
  BY <1>1, NoTrackerType DEF SendDirectMessage, Refuses, Others
<1>2. CASE ~Full(q)
  BY <1>2 DEF SendDirectMessage, Tracks, Others
<1>3. QED
  BY <1>1, <1>2

LEMMA DrainStep ==
  ASSUME dm \in Tracker, DmDrain
  PROVE  StatusStep
<1>1. CASE DmError
  BY <1>1, NoTrackerType DEF DmError, StatusStep, Untouched, Settles, Settled
<1>2. CASE DmSent
  BY <1>2 DEF DmSent, StatusStep, Untouched, Tracker
<1>3. CASE DmAck
  BY <1>3, NoTrackerType DEF DmAck, StatusStep, Untouched, Settles, Settled
<1>4. CASE DmOther
  BY <1>4 DEF DmOther, StatusStep, Untouched
<1>5. QED
  BY <1>1, <1>2, <1>3, <1>4 DEF DmDrain

LEMMA EscalateStep ==
  ASSUME dm \in Tracker, Escalate
  PROVE  StatusStep
<1>1. CASE Exhausted(dm.stage + 1)
  BY <1>1, NoTrackerType DEF Escalate, StatusStep, Settles, Settled
<1>2. CASE ~Exhausted(dm.stage + 1)
  BY <1>2 DEF Escalate, StatusStep, Untouched, Tracker
<1>3. QED
  BY <1>1, <1>2

LEMMA EveryStatusStep ==
  ASSUME dm \in Tracker, [DmNext]_dmVars
  PROVE  StatusStep
<1>1. ASSUME UNCHANGED dmOnly
      PROVE  StatusStep
  BY <1>1 DEF dmOnly, StatusStep, Untouched
<1>2. CASE User
  BY <1>2, SendStep DEF User, StatusStep, StoreUnsent, Stores
<1>3. CASE DmLost \/ DmDisconnect
  BY <1>3, GiveUpStep DEF DmLost, DmDisconnect
<1>4. CASE DmDrain
  BY <1>4, DrainStep
<1>5. CASE Mesh \/ DmLoseAnswer
  BY <1>5 DEF Mesh, DmAnswer, Acknowledge, DmLoseAnswer, StatusStep, Untouched
<1>6. CASE Escalate
  BY <1>6, EscalateStep
<1>7. CASE UNCHANGED dmVars
  BY <1>1, <1>7 DEF dmVars
<1>8. QED
  BY <1>1, <1>2, <1>3, <1>4, <1>5, <1>6, <1>7 DEF DmNext, Common

-----------------------------------------------------------------------------
LEMMA QueueTypes ==
  ASSUME TypeOK, dm \in Tracker, air \subseteq Cmd, [DmNext]_dmVars
  PROVE  TypeOK'
<1>1. ASSUME [Next]_vars
      PROVE  TypeOK'
  BY <1>1, TypeStep
<1>2. CASE User
  BY <1>1, <1>2, SendTypes DEF User, StoreUnsent
<1>3. CASE DmLost \/ DmDisconnect
  BY <1>1, <1>3 DEF DmLost, DmDisconnect, Next, Work
<1>4. CASE DmDrain
  BY <1>1, <1>4 DEF DmDrain, Next, Work, Poll
<1>5. CASE DmAnswer
  BY <1>1, <1>5 DEF DmAnswer, Answer, Next, Work, Companion
<1>6. ASSUME NEW c \in air, Acknowledge(c)
      PROVE  TypeOK'
  BY <1>6, AcknowledgeTypes
<1>7. CASE Escalate
  BY <1>7, EscalateTypes
<1>8. CASE DmLoseAnswer
  BY <1>1, <1>8 DEF DmLoseAnswer, Next, Work, Companion
<1>9. CASE QueueStep \/ PollTimeout
  BY <1>1, <1>9 DEF QueueStep, PollStep, Next, Work, Poll, Companion
<1>10. CASE UNCHANGED dmVars
  BY <1>1, <1>10 DEF dmVars
<1>11. QED
  BY <1>2, <1>3, <1>4, <1>5, <1>6, <1>7, <1>8, <1>9, <1>10 DEF DmNext, Common, Mesh

LEMMA StatusTypes ==
  ASSUME dm \in Tracker, status \in [Msgs -> Status], StatusStep
  PROVE  status' \in [Msgs -> Status]
<1>1. Settled \subseteq Status /\ "SENT" \in Status /\ dm.msg \in Msgs
  BY DEF Settled, Status, Tracker
<1>2. Others \in [Msgs -> Status]
  BY <1>1 DEF Others, Fired, Settled
<1>3. CASE Untouched \/ Idles
  BY <1>3 DEF Untouched, Idles
<1>4. ASSUME NEW s \in Settled, Settles(s)
      PROVE  status' \in [Msgs -> Status]
  BY <1>1, <1>4 DEF Settles, Fired
<1>5. ASSUME NEW m \in Msgs, Tracks(m) \/ Refuses(m) \/ Stores(m)
      PROVE  status' \in [Msgs -> Status]
  BY <1>1, <1>2, <1>5 DEF Tracks, Refuses, Stores, Settled
<1>6. QED
  BY <1>3, <1>4, <1>5 DEF StatusStep

LEMMA TrackerTypes ==
  ASSUME DmTypeOK, [DmNext]_dmVars
  PROVE  dm' \in Tracker /\ air' \subseteq Cmd /\ confirmed' \subseteq Cmd
<1> USE DEF DmTypeOK
<1>1. ASSUME UNCHANGED dmOnly
      PROVE  dm' \in Tracker /\ air' \subseteq Cmd /\ confirmed' \subseteq Cmd
  BY <1>1 DEF dmOnly
<1>2. ASSUME NEW m \in Msgs, SendDirectMessage(m)
      PROVE  dm' \in Tracker
  <2>1. \/ dm' = NoTracker
        \/ \E first \in {0, FirstFlood} :
             dm' = [active |-> TRUE, msg |-> m, stage |-> first,
                    awaitingSent |-> TRUE, ackTags |-> {}]
    <3>1. PICK hasPath \in BOOLEAN :
            dm' = IF Full(q) THEN NoTracker
                  ELSE [active |-> TRUE, msg |-> m,
                        stage |-> IF hasPath THEN 0 ELSE FirstFlood,
                        awaitingSent |-> TRUE, ackTags |-> {}]
      BY <1>2 DEF SendDirectMessage
    <3>2. QED
      BY <3>1
  <2>2. CASE dm' = NoTracker
    BY <2>2, NoTrackerType
  <2>3. ASSUME NEW first \in {0, FirstFlood}
        PROVE  [active |-> TRUE, msg |-> m, stage |-> first,
                awaitingSent |-> TRUE, ackTags |-> {}] \in Tracker
    <3>1. first \in Stages /\ {} \in SUBSET Cmd
      BY StageZero
    <3>2. QED
      BY <3>1 DEF Tracker
  <2>4. QED
    BY <2>1, <2>2, <2>3
<1>3. CASE User
  BY <1>2, <1>3 DEF User, SendDirectMessage, StoreUnsent
<1>4. CASE DmLost \/ DmDisconnect
  BY <1>4, NoTrackerType DEF DmLost, DmDisconnect, GiveUp
<1>5. CASE DmDrain
  <2>1. Head(rx) \in Packet
    BY <1>5, HeadTailProperties DEF DmDrain, PollDrain, TypeOK
  <2>2. CASE DmSent
    BY <1>5, <2>1, <2>2 DEF DmDrain, DmSent, Tracker, Packet
  <2>3. CASE DmError \/ DmAck \/ DmOther
    BY <1>5, <2>3, NoTrackerType DEF DmDrain, DmError, DmAck, DmOther
  <2>4. QED
    BY <1>5, <2>2, <2>3 DEF DmDrain
<1>6. CASE DmAnswer \/ DmLoseAnswer
  <2>1. q.wire # <<>> /\ q.wire \in Seq(Cmd)
    BY <1>6 DEF DmAnswer, DmLoseAnswer, AnswerWith, LoseAnswer, TypeOK, Ring
  <2>2. Head(q.wire) \in Cmd
    BY <2>1, HeadTailProperties
  <2>3. QED
    BY <1>6, <2>2 DEF DmAnswer, DmLoseAnswer, Transmitted
<1>7. ASSUME NEW c \in air, Acknowledge(c)
      PROVE  dm' \in Tracker /\ air' \subseteq Cmd /\ confirmed' \subseteq Cmd
  BY <1>7 DEF Acknowledge
<1>8. CASE Escalate
  BY <1>8, EscalateTypes DEF Escalate
<1>9. QED
  BY <1>1, <1>3, <1>4, <1>5, <1>6, <1>7, <1>8 DEF DmNext, Common, Mesh, dmVars

(* The types of the tracker and of the statuses hold with those of the       *)
(* command queue: no step of the delivery breaks the ring it shares.         *)
LEMMA DmTypeStep ==
  ASSUME DmTypeOK, [DmNext]_dmVars
  PROVE  DmTypeOK'
<1>1. dm \in Tracker /\ status \in [Msgs -> Status] /\ TypeOK /\ air \subseteq Cmd
  BY DEF DmTypeOK
<1>2. TypeOK'
  BY <1>1, QueueTypes
<1>3. status' \in [Msgs -> Status]
  BY <1>1, EveryStatusStep, StatusTypes
<1>4. QED
  BY <1>2, <1>3, TrackerTypes DEF DmTypeOK

LEMMA DmTypeInit == DmInit => DmTypeOK
BY TypeInit, NoTrackerType DEF DmInit, DmTypeOK, Status

THEOREM DmTypeCorrect == DmSpec => []DmTypeOK
<1>1. DmInit => DmTypeOK
  BY DmTypeInit
<1>2. DmTypeOK /\ [DmNext]_dmVars => DmTypeOK'
  BY DmTypeStep
<1>3. QED
  BY <1>1, <1>2, PTL DEF DmSpec

-----------------------------------------------------------------------------
(* The message tracked is the one message at SENT, if the tracker is active. *)
LEMMA OthersSettled ==
  ASSUME DmTypeOK, SentIsTracked
  PROVE  /\ Others \in [Msgs -> Status]
         /\ \A m \in Msgs : Others[m] = IF status[m] = "SENT" THEN "FAILED" ELSE status[m]
<1>1. dm.msg \in Msgs /\ status \in [Msgs -> Status] /\ "FAILED" \in Status
  BY DEF DmTypeOK, Tracker, Status
<1>2. CASE dm.active
  BY <1>1, <1>2 DEF Others, Fired, SentIsTracked
<1>3. CASE ~dm.active
  BY <1>1, <1>3 DEF Others, SentIsTracked
<1>4. QED
  BY <1>2, <1>3

LEMMA SentStep ==
  ASSUME DmTypeOK, SentIsTracked, StatusStep
  PROVE  SentIsTracked'
<1>1. dm.msg \in Msgs /\ status \in [Msgs -> Status] /\ dm.active \in BOOLEAN
  BY DEF DmTypeOK, Tracker
<1>2. CASE Untouched \/ Idles
  BY <1>2 DEF Untouched, Idles, SentIsTracked
<1>3. ASSUME NEW s \in Settled, Settles(s)
      PROVE  SentIsTracked'
  BY <1>1, <1>3 DEF Settles, Fired, SentIsTracked, Settled
<1>4. ASSUME NEW m \in Msgs, Tracks(m)
      PROVE  SentIsTracked'
  BY <1>4, OthersSettled DEF Tracks, SentIsTracked
<1>5. ASSUME NEW m \in Msgs, Refuses(m)
      PROVE  SentIsTracked'
  BY <1>5, OthersSettled DEF Refuses, SentIsTracked
<1>6. ASSUME NEW m \in Msgs, Stores(m)
      PROVE  SentIsTracked'
  BY <1>1, <1>6 DEF Stores, SentIsTracked
<1>7. QED
  BY <1>2, <1>3, <1>4, <1>5, <1>6 DEF StatusStep

LEMMA SentInit == DmInit => SentIsTracked
BY NoTrackerType DEF DmInit, SentIsTracked

LEMMA DmInvStep ==
  ASSUME DmTypeOK, SentIsTracked, [DmNext]_dmVars
  PROVE  DmTypeOK' /\ SentIsTracked' /\ StatusStep
<1>1. dm \in Tracker
  BY DEF DmTypeOK
<1>2. StatusStep
  BY <1>1, EveryStatusStep
<1>3. QED
  BY <1>2, DmTypeStep, SentStep

(* The message at SENT is the one tracked: none is left at SENT with nobody  *)
(* to settle it.                                                             *)
THEOREM SentTheorem == DmSpec => []SentIsTracked
<1>1. DmInit => DmTypeOK /\ SentIsTracked
  BY DmTypeInit, SentInit
<1>2. DmTypeOK /\ SentIsTracked /\ [DmNext]_dmVars => (DmTypeOK /\ SentIsTracked)'
  BY DmInvStep
<1>3. QED
  BY <1>1, <1>2, PTL DEF DmSpec

-----------------------------------------------------------------------------
(* Every step of the statuses is a step of the ledger. *)
LEMMA LedgerStep ==
  ASSUME DmTypeOK, SentIsTracked, StatusStep
  PROVE  [Ledger!Next]_status
<1>1. dm.msg \in Msgs /\ status \in [Msgs -> Status]
  BY DEF DmTypeOK, Tracker
<1>2. CASE Untouched \/ Idles
  BY <1>2 DEF Untouched, Idles
<1>3. ASSUME NEW s \in Settled, Settles(s)
      PROVE  Ledger!Next
  <2>1. Ledger!Settle(dm.msg, s)
    BY <1>1, <1>3 DEF Settles, Fired, SentIsTracked, Ledger!Settle, Ledger!Settled, Settled
  <2>2. QED
    BY <1>1, <1>3, <2>1 DEF Ledger!Next, Ledger!Settled, Settled
<1>4. ASSUME NEW m \in Msgs, NEW s \in {"SENT", "FAILED"},
             status[m] = "NONE", status' = [Others EXCEPT ![m] = s]
      PROVE  Ledger!Next
  <2>1. status' = [n \in Msgs |-> IF n = m THEN s
                                  ELSE IF status[n] = "SENT" THEN "FAILED" ELSE status[n]]
    BY <1>4, OthersSettled
  <2>2. Ledger!Send(m, s)
    BY <1>4, <2>1 DEF Ledger!Send
  <2>3. QED
    BY <1>4, <2>2 DEF Ledger!Next, Ledger!Settled
<1>5. ASSUME NEW m \in Msgs, Stores(m)
      PROVE  Ledger!Next
  BY <1>5 DEF Stores, Ledger!Next, Ledger!Unsent
<1>6. QED
  BY <1>2, <1>3, <1>4, <1>5 DEF StatusStep, Tracks, Refuses

(* The statuses the user sees are a ledger: a message is sent once, one is   *)
(* on its way at a time, and a settled one never changes.                    *)
THEOREM LedgerTheorem == DmSpec => LedgerSpec
<1>1. DmInit => DmTypeOK /\ SentIsTracked /\ Ledger!Init
  BY DmTypeInit, SentInit DEF DmInit, Ledger!Init
<1>2. DmTypeOK /\ SentIsTracked /\ [DmNext]_dmVars
        => (DmTypeOK /\ SentIsTracked)' /\ [Ledger!Next]_status
  BY DmInvStep, LedgerStep
<1>3. QED
  BY <1>1, <1>2, PTL DEF DmSpec, LedgerSpec, Ledger!Spec

(* A late answer, ACK or error never changes the status of a settled message. *)
THEOREM SettledTheorem == DmSpec => SettledOnce
<1>1. ASSUME DmTypeOK, [Ledger!Next]_status
      PROVE  \A m \in Msgs : status[m] \in Settled => status'[m] = status[m]
  <2>1. status \in [Msgs -> Status]
    BY <1>1 DEF DmTypeOK
  <2>2. QED
    BY <1>1, <2>1 DEF Ledger!Next, Ledger!Send, Ledger!Unsent, Ledger!Settle,
       Ledger!Settled, Settled
<1>2. DmInit => DmTypeOK /\ SentIsTracked
  BY DmTypeInit, SentInit
<1>3. DmTypeOK /\ SentIsTracked /\ [DmNext]_dmVars
        => /\ (DmTypeOK /\ SentIsTracked)'
           /\ [\A m \in Msgs : status[m] \in Settled => status'[m] = status[m]]_dmVars
  BY <1>1, DmInvStep, LedgerStep
<1>4. QED
  BY <1>2, <1>3, PTL DEF DmSpec, SettledOnce
=============================================================================
