------------------------- MODULE CommandQueueProofs -------------------------
(***************************************************************************)
(* Theorems about CommandQueue, for every size of the ring and every bound. *)
(***************************************************************************)
EXTENDS CommandQueue, SequenceTheorems, TLAPS

-----------------------------------------------------------------------------
(* The operators of CommandRing, for every size of the ring. *)

(* A slot's successor is a slot. *)
LEMMA SuccessorSlot ==
  ASSUME NEW i \in Slots
  PROVE  Successor(i) \in Slots
BY SizeAssumption DEF Successor, Slots

LEMMA ReplyType ==
  /\ "OK" \in Reply
  /\ \A b \in CmdByte : ExpectedResponse[b] \in Reply
  /\ NoCmd \in Cmd
BY SizeAssumption, ArgAssumption DEF Reply, CmdByte, ExpectedResponse, NoCmd, Cmd

LEMMA NewRingType == NewRing \in Ring
BY ReplyType, SizeAssumption DEF NewRing, Ring, Slots

(* Writing the head of the ring, or failing to, leaves a ring. *)
LEMMA SendNextType ==
  ASSUME NEW r \in Ring, NEW written \in BOOLEAN
  PROVE  SendNext(r, written) \in Ring
<1>1. CASE r.count = 0 \/ ~written
  BY <1>1 DEF SendNext
<1>2. CASE ~(r.count = 0 \/ ~written)
  <2> DEFINE c == r.slot[r.head]
  <2>1. c \in Cmd /\ ExpectedResponse[c.byte] \in Reply
    BY ReplyType DEF Ring, Cmd
  <2>2. Successor(r.head) \in Slots
    BY SuccessorSlot DEF Ring
  <2>3. r.count - 1 \in 0 .. CMD_QUEUE_SIZE
    BY <1>2, SizeAssumption DEF Ring
  <2>4. Append(r.wire, c) \in Seq(Cmd)
    BY <2>1 DEF Ring
  <2> HIDE DEF c
  <2>5. [r EXCEPT !.pending = TRUE, !.expected = ExpectedResponse[c.byte], !.inFlight = c,
                  !.head = Successor(r.head), !.count = r.count - 1,
                  !.wire = Append(r.wire, c)] \in Ring
    BY <2>1, <2>2, <2>3, <2>4 DEF Ring
  <2>6. QED
    BY <1>2, <2>5 DEF SendNext, c
<1>3. QED
  BY <1>1, <1>2

(* So does writing an entry at the tail of a ring that is not full. *)
LEMMA PlaceType ==
  ASSUME NEW r \in Ring, ~Full(r), NEW c \in Cmd
  PROVE  Place(r, c) \in Ring
<1>1. [r.slot EXCEPT ![r.tail] = c] \in [Slots -> Cmd]
  BY DEF Ring
<1>2. Successor(r.tail) \in Slots
  BY SuccessorSlot DEF Ring
<1>3. r.count + 1 \in 0 .. CMD_QUEUE_SIZE
  BY SizeAssumption DEF Ring, Full
<1>4. QED
  BY <1>1, <1>2, <1>3 DEF Place, Ring

LEMMA EnqueueType ==
  ASSUME NEW r \in Ring, ~Full(r), NEW c \in Cmd, NEW written \in BOOLEAN
  PROVE  Enqueue(r, c, written) \in Ring
BY PlaceType, SendNextType DEF Enqueue

LEMMA RespondType ==
  ASSUME NEW r \in Ring, NEW type, NEW missing \in BOOLEAN
  PROVE  Respond(r, type, missing) \in Ring
BY DEF Respond, Ring

LEMMA ResetTypes ==
  ASSUME NEW r \in Ring
  PROVE  Expire(r) \in Ring /\ Flush(r) \in Ring /\ Reset(r) \in Ring
<1>1. 0 \in Slots /\ 0 \in 0 .. CMD_QUEUE_SIZE /\ <<>> \in Seq(Cmd)
  BY SizeAssumption, EmptySeq DEF Slots
<1>2. Expire(r) \in Ring
  BY DEF Expire, Ring
<1>3. Flush(r) \in Ring
  BY <1>1 DEF Flush, Ring
<1>4. Reset(r) \in Ring
  BY <1>1, ReplyType DEF Reset, Ring
<1>5. QED
  BY <1>2, <1>3, <1>4

-----------------------------------------------------------------------------
(* The remainders of the differences that occur between indices. *)
LEMMA ModCases ==
  ASSUME NEW d \in -2 * CMD_QUEUE_SIZE .. 2 * CMD_QUEUE_SIZE - 1
  PROVE  d % CMD_QUEUE_SIZE = IF d >= CMD_QUEUE_SIZE  THEN d - CMD_QUEUE_SIZE
                         ELSE IF d >= 0               THEN d
                         ELSE IF d >= -CMD_QUEUE_SIZE THEN d + CMD_QUEUE_SIZE
                         ELSE d + 2 * CMD_QUEUE_SIZE
<1>1. CASE d >= CMD_QUEUE_SIZE
  BY <1>1, SizeAssumption
<1>2. CASE d >= 0 /\ d < CMD_QUEUE_SIZE
  BY <1>2, SizeAssumption
<1>3. CASE d < 0 /\ d >= -CMD_QUEUE_SIZE
  BY <1>3, SizeAssumption
<1>4. CASE d < -CMD_QUEUE_SIZE
  BY <1>4, SizeAssumption
<1>5. QED
  BY <1>1, <1>2, <1>3, <1>4, SizeAssumption

LEMMA ModShift ==
  ASSUME NEW d \in -CMD_QUEUE_SIZE .. 2 * CMD_QUEUE_SIZE - 1
  PROVE  (d - CMD_QUEUE_SIZE) % CMD_QUEUE_SIZE = d % CMD_QUEUE_SIZE
<1>1. /\ d \in -2 * CMD_QUEUE_SIZE .. 2 * CMD_QUEUE_SIZE - 1
      /\ d - CMD_QUEUE_SIZE \in -2 * CMD_QUEUE_SIZE .. 2 * CMD_QUEUE_SIZE - 1
  BY SizeAssumption
<1>2. QED
  BY <1>1, ModCases, SizeAssumption

LEMMA ModDistinct ==
  ASSUME NEW a \in 0 .. 2 * CMD_QUEUE_SIZE - 1, NEW b \in 0 .. 2 * CMD_QUEUE_SIZE - 1,
         a < b, b - a < CMD_QUEUE_SIZE
  PROVE  a % CMD_QUEUE_SIZE # b % CMD_QUEUE_SIZE
<1>1. /\ a % CMD_QUEUE_SIZE = IF a >= CMD_QUEUE_SIZE THEN a - CMD_QUEUE_SIZE ELSE a
      /\ b % CMD_QUEUE_SIZE = IF b >= CMD_QUEUE_SIZE THEN b - CMD_QUEUE_SIZE ELSE b
  BY ModCases, SizeAssumption
<1>2. QED
  BY <1>1, SizeAssumption

LEMMA SuccessorCases ==
  ASSUME NEW i \in Slots
  PROVE  Successor(i) = IF i = CMD_QUEUE_SIZE - 1 THEN 0 ELSE i + 1
BY SizeAssumption, ModCases DEF Successor, Slots

(* Placing an entry, and writing one, move the tail with the count and the   *)
(* head against it.                                                          *)
LEMMA PlaceSkew ==
  ASSUME NEW r \in Ring, ~Full(r), NEW c \in Cmd
  PROVE  Skew(Place(r, c)) = Skew(r)
<1> DEFINE t == Place(r, c)
<1>1. /\ t.head = r.head /\ t.tail = Successor(r.tail) /\ t.count = r.count + 1
  BY DEF Place, Ring
<1>2. r.head \in Slots /\ r.tail \in Slots /\ r.count \in 0 .. CMD_QUEUE_SIZE - 1
  BY SizeAssumption DEF Ring, Full
<1>3. Successor(r.tail) = IF r.tail = CMD_QUEUE_SIZE - 1 THEN 0 ELSE r.tail + 1
  BY <1>2, SuccessorCases
<1> HIDE DEF t
<1> DEFINE d == r.tail - r.head - r.count
<1>4. /\ t.tail - t.head - t.count \in {d, d - CMD_QUEUE_SIZE}
      /\ r.tail = CMD_QUEUE_SIZE - 1 => d \in -CMD_QUEUE_SIZE .. 2 * CMD_QUEUE_SIZE - 1
      /\ r.tail # CMD_QUEUE_SIZE - 1 => t.tail - t.head - t.count = d
  BY <1>1, <1>2, <1>3, SizeAssumption DEF Slots
<1>5. Skew(t) = Skew(r)
  BY <1>4, ModShift DEF Skew
<1>6. QED
  BY <1>5 DEF t

LEMMA SendNextSkew ==
  ASSUME NEW r \in Ring, NEW written \in BOOLEAN
  PROVE  Skew(SendNext(r, written)) = Skew(r)
<1>1. CASE r.count = 0 \/ ~written
  BY <1>1 DEF SendNext
<1>2. CASE ~(r.count = 0 \/ ~written)
  <2> DEFINE t == SendNext(r, written)
  <2>1. t.head = Successor(r.head) /\ t.tail = r.tail /\ t.count = r.count - 1
    BY <1>2 DEF SendNext, Ring
  <2>2. r.head \in Slots /\ r.tail \in Slots /\ r.count \in 1 .. CMD_QUEUE_SIZE
    BY <1>2, SizeAssumption DEF Ring
  <2>3. Successor(r.head) = IF r.head = CMD_QUEUE_SIZE - 1 THEN 0 ELSE r.head + 1
    BY <2>2, SuccessorCases
  <2> HIDE DEF t
  <2> DEFINE d == r.tail - r.head - r.count
             e == t.tail - t.head - t.count
  <2>4. \/ e = d
        \/ d = e - CMD_QUEUE_SIZE /\ e \in -CMD_QUEUE_SIZE .. 2 * CMD_QUEUE_SIZE - 1
    BY <2>1, <2>2, <2>3, SizeAssumption DEF Slots
  <2>5. Skew(t) = Skew(r)
    BY <2>4, ModShift DEF Skew
  <2>6. QED
    BY <2>5 DEF t
<1>3. QED
  BY <1>1, <1>2

LEMMA EnqueueSkew ==
  ASSUME NEW r \in Ring, ~Full(r), NEW c \in Cmd, NEW written \in BOOLEAN
  PROVE  Skew(Enqueue(r, c, written)) = Skew(r)
BY PlaceSkew, SendNextSkew, PlaceType DEF Enqueue

LEMMA RespondSkew ==
  ASSUME NEW r \in Ring, NEW type, NEW missing \in BOOLEAN
  PROVE  Skew(Respond(r, type, missing)) = Skew(r)
BY DEF Respond, Skew, Ring

(* The end of a command does not touch the indices; disconnect aligns them,  *)
(* and a loss leaves them apart by what was queued.                          *)
LEMMA ResetSkews ==
  ASSUME NEW r \in Ring
  PROVE  /\ Skew(Expire(r)) = Skew(r)
         /\ Skew(Reset(r)) = 0
         /\ r.count = 0 => Skew(Flush(r)) = Skew(r)
<1>1. Skew(Expire(r)) = Skew(r)
  BY DEF Expire, Skew, Ring
<1>2. Skew(Reset(r)) = 0
  BY ModCases, SizeAssumption DEF Reset, Skew, Ring
<1>3. r.count = 0 => Skew(Flush(r)) = Skew(r)
  BY DEF Flush, Skew, Ring
<1>4. QED
  BY <1>1, <1>2, <1>3

-----------------------------------------------------------------------------
(* The backlog of a ring is a sequence of commands, one for each counted.    *)
LEMMA BacklogType ==
  ASSUME NEW r \in Ring
  PROVE  /\ Backlog(r) \in Seq(Cmd)
         /\ Len(Backlog(r)) = r.count
         /\ \A i \in 1 .. r.count :
              Backlog(r)[i] = r.slot[(r.head + i - 1) % CMD_QUEUE_SIZE]
<1>1. r.count \in Nat /\ r.head \in Slots /\ r.slot \in [Slots -> Cmd]
  BY SizeAssumption DEF Ring
<1>2. \A i \in 1 .. r.count : (r.head + i - 1) % CMD_QUEUE_SIZE \in Slots
  BY <1>1, SizeAssumption DEF Slots
<1>3. \A i \in 1 .. r.count : r.slot[(r.head + i - 1) % CMD_QUEUE_SIZE] \in Cmd
  BY <1>1, <1>2
<1>4. Backlog(r) \in [1 .. r.count -> Cmd]
  BY <1>3 DEF Backlog
<1>5. Backlog(r) \in Seq(Cmd)
  BY <1>1, <1>4, SeqDef
<1>6. Len(Backlog(r)) = r.count
  BY <1>1, <1>4, <1>5, LenProperties
<1>7. QED
  BY <1>5, <1>6 DEF Backlog

(* In a sound ring the tail is the slot after the backlog. *)
LEMMA TailSlot ==
  ASSUME NEW r \in Ring, Skew(r) = 0
  PROVE  r.tail = (r.head + r.count) % CMD_QUEUE_SIZE
<1> DEFINE d == r.tail - r.head - r.count
           e == r.head + r.count
<1>1. r.tail \in Slots /\ r.head \in Slots /\ r.count \in 0 .. CMD_QUEUE_SIZE
  BY DEF Ring
<1>2. d \in -2 * CMD_QUEUE_SIZE .. 2 * CMD_QUEUE_SIZE - 1
  BY <1>1, SizeAssumption DEF Slots
<1>3. e \in 0 .. 2 * CMD_QUEUE_SIZE - 1
  BY <1>1, SizeAssumption DEF Slots
<1>4. d \in {0, -CMD_QUEUE_SIZE}
  BY <1>1, <1>2, ModCases, SizeAssumption DEF Skew, Slots
<1>5. e % CMD_QUEUE_SIZE = IF e >= CMD_QUEUE_SIZE THEN e - CMD_QUEUE_SIZE ELSE e
  BY <1>3, ModCases, SizeAssumption
<1>6. QED
  BY <1>1, <1>4, <1>5, SizeAssumption DEF Slots

(* In a ring that is sound and not full, a command placed joins the backlog  *)
(* at its end, and overwrites nothing of it.                                 *)
LEMMA PlaceBacklog ==
  ASSUME NEW r \in Ring, ~Full(r), Skew(r) = 0, NEW c \in Cmd
  PROVE  Backlog(Place(r, c)) = Append(Backlog(r), c)
<1> DEFINE t == Place(r, c)
           N == CMD_QUEUE_SIZE
<1>1. t \in Ring
  BY PlaceType
<1>2. t.head = r.head /\ t.count = r.count + 1 /\ t.slot = [r.slot EXCEPT ![r.tail] = c]
  BY DEF Place, Ring
<1>3. r.head \in Slots /\ r.tail \in Slots /\ r.count \in 0 .. N - 1 /\ r.slot \in [Slots -> Cmd]
  BY SizeAssumption DEF Ring, Full
<1> HIDE DEF t
<1>4. \A i \in 1 .. r.count : Backlog(t)[i] = Backlog(r)[i]
  <2> SUFFICES ASSUME NEW i \in 1 .. r.count
               PROVE  Backlog(t)[i] = Backlog(r)[i]
    OBVIOUS
  <2>1. (r.head + i - 1) % N # (r.head + r.count) % N
    <3> DEFINE a == r.head + i - 1
               b == r.head + r.count
    <3>1. a \in 0 .. 2 * N - 1 /\ b \in 0 .. 2 * N - 1 /\ a < b /\ b - a < N
      BY SMTT(20), <1>3, SizeAssumption DEF Slots
    <3>2. QED
      BY <3>1, ModDistinct
  <2>2. (r.head + i - 1) % N \in Slots
    BY <1>3, SizeAssumption DEF Slots
  <2>3. Backlog(t)[i] = t.slot[(r.head + i - 1) % N]
    <3>1. i \in 1 .. t.count
      BY <1>2, <1>3
    <3>2. Backlog(t)[i] = t.slot[(t.head + i - 1) % N]
      BY <1>1, <3>1, BacklogType
    <3>3. QED
      BY <1>2, <3>2
  <2>4. t.slot[(r.head + i - 1) % N] = r.slot[(r.head + i - 1) % N]
    BY <1>2, <1>3, <2>1, <2>2, TailSlot
  <2>5. QED
    BY <2>3, <2>4, BacklogType
<1>5. Backlog(t)[r.count + 1] = c
  <2>1. Backlog(t)[r.count + 1] = t.slot[(r.head + r.count + 1 - 1) % N]
    <3>1. r.count + 1 \in 1 .. t.count
      BY <1>2, <1>3
    <3>2. Backlog(t)[r.count + 1] = t.slot[(t.head + (r.count + 1) - 1) % N]
      BY <1>1, <3>1, BacklogType
    <3>3. t.head + (r.count + 1) - 1 = r.head + r.count + 1 - 1
      BY <1>2, <1>3 DEF Slots
    <3>4. QED
      BY <3>2, <3>3
  <2>2. r.head + r.count + 1 - 1 = r.head + r.count
    BY <1>3 DEF Slots
  <2>3. QED
    BY <1>2, <1>3, <2>1, <2>2, TailSlot
<1>6. /\ Backlog(t) \in Seq(Cmd) /\ Len(Backlog(t)) = r.count + 1
      /\ Backlog(r) \in Seq(Cmd) /\ Len(Backlog(r)) = r.count
  BY <1>1, <1>2, BacklogType
<1>7. /\ Append(Backlog(r), c) \in Seq(Cmd)
      /\ Len(Append(Backlog(r), c)) = r.count + 1
      /\ \A i \in 1 .. r.count : Append(Backlog(r), c)[i] = Backlog(r)[i]
      /\ Append(Backlog(r), c)[r.count + 1] = c
  BY <1>6, AppendProperties
<1>8. \A i \in 1 .. r.count + 1 : Backlog(t)[i] = Append(Backlog(r), c)[i]
  <2> SUFFICES ASSUME NEW i \in 1 .. r.count + 1
               PROVE  Backlog(t)[i] = Append(Backlog(r), c)[i]
    OBVIOUS
  <2>1. i \in 1 .. r.count \/ i = r.count + 1
    BY <1>3
  <2>2. QED
    BY <2>1, <1>4, <1>5, <1>7
<1>9. Backlog(t) = Append(Backlog(r), c)
  BY <1>6, <1>7, <1>8, SeqEqual
<1>10. QED
  BY <1>9 DEF t

(* A write takes the oldest command of the backlog. *)
LEMMA SendNextBacklog ==
  ASSUME NEW r \in Ring, r.count # 0
  PROVE  /\ Backlog(r) # <<>>
         /\ Backlog(SendNext(r, TRUE)) = Tail(Backlog(r))
         /\ SendNext(r, TRUE).wire = Append(r.wire, Head(Backlog(r)))
<1> DEFINE t == SendNext(r, TRUE)
           N == CMD_QUEUE_SIZE
<1>1. t \in Ring
  BY SendNextType
<1>2. /\ t.head = Successor(r.head) /\ t.count = r.count - 1 /\ t.slot = r.slot
      /\ t.wire = Append(r.wire, r.slot[r.head])
  BY DEF SendNext, Ring
<1>3. r.head \in Slots /\ r.count \in 1 .. N
  BY SizeAssumption DEF Ring
<1> HIDE DEF t
<1>4. Backlog(r) \in Seq(Cmd) /\ Len(Backlog(r)) = r.count /\ Backlog(r) # <<>>
  BY <1>3, BacklogType, EmptySeq
<1>5. Head(Backlog(r)) = r.slot[r.head]
  <2>1. Head(Backlog(r)) = Backlog(r)[1]
    BY <1>4
  <2>2. (r.head + 1 - 1) % N = r.head
    BY <1>3, SizeAssumption DEF Slots
  <2>3. QED
    BY <1>3, <2>1, <2>2, BacklogType
<1>6. /\ Tail(Backlog(r)) \in Seq(Cmd) /\ Len(Tail(Backlog(r))) = r.count - 1
      /\ \A i \in 1 .. r.count - 1 : Tail(Backlog(r))[i] = Backlog(r)[i + 1]
  BY <1>4, HeadTailProperties
<1>7. \A i \in 1 .. r.count - 1 : Backlog(t)[i] = Tail(Backlog(r))[i]
  <2> SUFFICES ASSUME NEW i \in 1 .. r.count - 1
               PROVE  Backlog(t)[i] = Backlog(r)[i + 1]
    BY <1>6
  <2>1. Successor(r.head) = IF r.head = N - 1 THEN 0 ELSE r.head + 1
    BY <1>3, SuccessorCases
  <2>2. (Successor(r.head) + i - 1) % N = (r.head + (i + 1) - 1) % N
    <3>1. r.head \in 0 .. N - 1 /\ i \in 1 .. N - 1
      BY <1>3, SizeAssumption DEF Slots
    <3>2. CASE r.head = N - 1
      <4> DEFINE d == r.head + (i + 1) - 1
      <4>1. d \in -N .. 2 * N - 1
        BY <3>1, <3>2, SizeAssumption
      <4>2. Successor(r.head) + i - 1 = d - N
        BY <2>1, <3>1, <3>2, SizeAssumption
      <4> HIDE DEF d
      <4>3. (d - N) % N = d % N
        BY <4>1, ModShift
      <4>4. QED
        BY <4>2, <4>3 DEF d
    <3>3. CASE r.head # N - 1
      BY <2>1, <3>1, <3>3, SizeAssumption
    <3>4. QED
      BY <3>2, <3>3
  <2>3. i \in 1 .. t.count /\ i + 1 \in 1 .. r.count
    BY <1>2, <1>3
  <2>4. QED
    BY SMTT(20), <1>1, <1>2, <2>2, <2>3, BacklogType
<1>8. Backlog(t) = Tail(Backlog(r))
  BY <1>1, <1>2, <1>6, <1>7, BacklogType, SeqEqual
<1>9. QED
  BY <1>2, <1>4, <1>5, <1>8 DEF t

(* enqueueCmd adds the command to the backlog, and may write the oldest. *)
LEMMA EnqueueBacklog ==
  ASSUME NEW r \in Ring, ~Full(r), Skew(r) = 0, NEW c \in Cmd, NEW written \in BOOLEAN
  PROVE  \/ /\ Backlog(Enqueue(r, c, written)) = Append(Backlog(r), c)
            /\ Enqueue(r, c, written).wire = r.wire
         \/ /\ Backlog(Enqueue(r, c, written)) = Tail(Append(Backlog(r), c))
            /\ Enqueue(r, c, written).wire = Append(r.wire, Head(Append(Backlog(r), c)))
<1> DEFINE t == Place(r, c)
<1>1. t \in Ring /\ Backlog(t) = Append(Backlog(r), c)
  BY PlaceType, PlaceBacklog
<1>2. t.wire = r.wire /\ t.count # 0
  BY SizeAssumption DEF Place, Ring
<1> HIDE DEF t
<1>3. CASE r.pending \/ ~written
  <2>1. Enqueue(r, c, written) = t
    BY <1>3 DEF Enqueue, SendNext, t
  <2>2. QED
    BY <1>1, <1>2, <2>1
<1>4. CASE ~r.pending /\ written
  <2>1. Enqueue(r, c, written) = SendNext(t, TRUE)
    BY <1>4 DEF Enqueue, t
  <2>2. QED
    BY <1>1, <1>2, <2>1, SendNextBacklog
<1>5. QED
  BY <1>3, <1>4

(* The end of a command leaves the backlog alone; the resets leave none. *)
LEMMA EndBacklog ==
  ASSUME NEW r \in Ring, NEW type, NEW missing \in BOOLEAN
  PROVE  /\ Backlog(Respond(r, type, missing)) = Backlog(r)
         /\ Respond(r, type, missing).wire = r.wire
         /\ Backlog(Expire(r)) = Backlog(r) /\ Expire(r).wire = r.wire
<1>1. /\ Respond(r, type, missing).slot = r.slot /\ Respond(r, type, missing).head = r.head
      /\ Respond(r, type, missing).count = r.count /\ Respond(r, type, missing).wire = r.wire
  BY DEF Respond, Ring
<1>2. /\ Expire(r).slot = r.slot /\ Expire(r).head = r.head
      /\ Expire(r).count = r.count /\ Expire(r).wire = r.wire
  BY DEF Expire, Ring
<1>3. QED
  BY <1>1, <1>2 DEF Backlog

LEMMA EmptyBacklog ==
  ASSUME NEW r \in Ring, r.count = 0
  PROVE  Backlog(r) = <<>>
BY BacklogType, EmptySeq

LEMMA ResetBacklog ==
  ASSUME NEW r \in Ring
  PROVE  /\ Backlog(Flush(r)) = <<>> /\ Flush(r).wire = <<>>
         /\ Backlog(Reset(r)) = <<>> /\ Reset(r).wire = <<>>
<1>1. /\ Flush(r).count = 0 /\ Flush(r).wire = <<>>
      /\ Reset(r).count = 0 /\ Reset(r).wire = <<>>
  BY DEF Flush, Reset, Ring
<1>2. QED
  BY <1>1, ResetTypes, EmptyBacklog

-----------------------------------------------------------------------------
(* The queue, the companion and the link. *)

(* A request the client makes on the way leaves a ring. *)
LEMMA RequestedType ==
  ASSUME TypeOK, NEW r \in Ring, NEW b \in CmdByte, NEW written \in BOOLEAN
  PROVE  Requested(r, b, written) \in Ring
<1>1. System(b) \in Cmd
  BY SizeAssumption, ArgAssumption, CommandQueueAssumption DEF System, Cmd, TypeOK
<1>2. QED
  BY <1>1, EnqueueType DEF Requested, Accepts

LEMMA PacketTypes ==
  /\ {"GET_MESSAGE", "GET_CONTACTS"} \subseteq CmdByte
  /\ \A type \in DOMAIN Follow : Follow[type] \in CmdByte
  /\ Pushes \subseteq PacketType
<1>1. {"GET_MESSAGE", "GET_CONTACTS"} \subseteq CmdByte
  BY DEF CmdByte, ExpectedResponse
<1>2. \A type \in DOMAIN Follow : Follow[type] \in CmdByte
  BY <1>1 DEF Follow
<1>3. QED
  BY <1>1, <1>2 DEF PacketType

(* Every step of the queue, the companion and the link keeps the types. *)
LEMMA TypeStep ==
  ASSUME TypeOK, [Next]_vars
  PROVE  TypeOK'
<1> USE DEF TypeOK
<1>1. ASSUME NEW b \in Issue, Request(b)
      PROVE  TypeOK'
  <2>1. PICK written \in BOOLEAN :
          q' = Enqueue(q, [byte |-> b, arg |-> <<issued + 1>>, epoch |-> epoch], written)
    BY <1>1 DEF Request
  <2>2. issued + 1 \in 0 .. MaxRequests /\ <<issued + 1>> \in Arg
    BY <1>1, CommandQueueAssumption DEF Request
  <2>3. [byte |-> b, arg |-> <<issued + 1>>, epoch |-> epoch] \in Cmd
    BY <2>2, CommandQueueAssumption DEF Cmd
  <2>4. q' \in Ring
    BY <1>1, <2>1, <2>3, EnqueueType DEF Request, Accepts
  <2>5. QED
    BY <1>1, <2>2, <2>4 DEF Request
<1>2. CASE PollEnter
  BY <1>2 DEF PollEnter
<1>3. CASE PollDrain
  <2>1. PICK written \in BOOLEAN : 
          /\ rx # <<>>
          /\ LET p == Head(rx)
                 r == Respond(q, p.type, p.missing)
             IN  /\ \/ /\ p.type \in DOMAIN Follow
                       /\ q' = Requested(r, Follow[p.type], written)
                    \/ q' = r
                 /\ retries' = IF p.type = "CONTACT_END" THEN 0 ELSE retries
    BY <1>3 DEF PollDrain
  <2>2. Head(rx) \in Packet /\ Tail(rx) \in Seq(Packet)
    BY <2>1, HeadTailProperties
  <2>3. Respond(q, Head(rx).type, Head(rx).missing) \in Ring
    BY <2>2, RespondType DEF Packet
  <2>4. q' \in Ring
    BY <2>1, <2>3, RequestedType, PacketTypes
  <2>5. QED
    BY <1>3, <2>1, <2>2, <2>4 DEF PollDrain, MAX_CONTACT_RETRIES
<1>4. CASE PollTimeout
  <2>1. PICK written \in BOOLEAN :
          LET r     == SendNext(Expire(q), written)
              retry == q.inFlight.byte = "GET_CONTACTS" /\ retries < MAX_CONTACT_RETRIES
          IN  /\ q' = IF retry THEN Requested(r, "GET_CONTACTS", written) ELSE r
              /\ retries' = IF retry THEN retries + 1 ELSE retries
    BY <1>4 DEF PollTimeout
  <2>2. SendNext(Expire(q), written) \in Ring
    BY ResetTypes, SendNextType
  <2>3. q' \in Ring
    BY <2>1, <2>2, RequestedType, PacketTypes
  <2>4. retries' \in 0 .. MAX_CONTACT_RETRIES
    BY <2>1 DEF MAX_CONTACT_RETRIES
  <2>5. QED
    BY <1>4, <2>3, <2>4 DEF PollTimeout
<1>5. CASE PollNoTimeout
  BY <1>5 DEF PollNoTimeout
<1>6. CASE PollSend
  BY <1>6, SendNextType DEF PollSend
<1>7. CASE PollPeriodic
  BY <1>7, RequestedType, PacketTypes DEF PollPeriodic
<1>8. CASE PollNoSend \/ PollQuiet
  BY <1>8 DEF PollNoSend, PollQuiet
<1>9. CASE Disconnect
  BY <1>9, ResetTypes, EmptySeq DEF Disconnect
<1>10. CASE Connect
  <2>1. q' \in Ring
    BY <1>10, RespondType DEF Connect
  <2>2. epoch' \in 0 .. MaxEpoch
    BY <1>10, CommandQueueAssumption DEF Connect
  <2>3. QED
    BY <1>10, <2>1, <2>2 DEF Connect
<1>11. CASE Answer
  <2>1. PICK type \in PacketType, missing \in BOOLEAN : AnswerWith(type, missing)
    BY <1>11 DEF Answer
  <2>2. Head(q.wire) \in Cmd /\ Tail(q.wire) \in Seq(Cmd)
    BY <2>1, HeadTailProperties DEF AnswerWith, Ring
  <2>3. q' \in Ring
    BY <2>1, <2>2 DEF AnswerWith, Ring
  <2>4. rx' \in Seq(Packet)
    BY <2>1, <2>2 DEF AnswerWith, Deliver, Packet
  <2>5. QED
    BY <2>1, <2>3, <2>4 DEF AnswerWith
<1>12. CASE LoseAnswer
  <2>1. Tail(q.wire) \in Seq(Cmd)
    BY <1>12, HeadTailProperties DEF LoseAnswer, Ring
  <2>2. q' \in Ring
    BY <1>12, <2>1 DEF LoseAnswer, Ring
  <2>3. QED
    BY <1>12, <2>2 DEF LoseAnswer
<1>13. CASE CompanionPush
  <2>1. PICK type \in Pushes : Deliver(type, FALSE, NoCmd)
    BY <1>13 DEF CompanionPush
  <2>2. rx' \in Seq(Packet)
    BY <2>1, PacketTypes, ReplyType DEF Deliver, Packet
  <2>3. QED
    BY <1>13, <2>2 DEF CompanionPush
<1>14. CASE LinkDrop
  BY <1>14 DEF LinkDrop
<1>15. CASE PollLost
  BY <1>15, ResetTypes DEF PollLost
<1>16. CASE UNCHANGED vars
  BY <1>16 DEF vars
<1>17. QED
  BY <1>1, <1>2, <1>3, <1>4, <1>5, <1>6, <1>7, <1>8, <1>9, <1>10, <1>11, <1>12,
     <1>13, <1>14, <1>15, <1>16
     DEF Next, Work, Poll, Companion

LEMMA TypeInit == Init => TypeOK
<1>1. <<>> \in Seq(Packet)
  BY EmptySeq
<1>2. 0 \in 0 .. MAX_CONTACT_RETRIES /\ 0 \in 0 .. MaxEpoch /\ 0 \in 0 .. MaxRequests
  BY CommandQueueAssumption DEF MAX_CONTACT_RETRIES
<1>3. QED
  BY <1>1, <1>2, NewRingType DEF Init, TypeOK

(* The command queue keeps its types: in particular the ring never holds     *)
(* more than its size, whatever the companion sends and the link does.       *)
THEOREM TypeCorrect == Spec => []TypeOK
<1>1. Init => TypeOK
  BY TypeInit
<1>2. TypeOK /\ [Next]_vars => TypeOK'
  BY TypeStep
<1>3. QED
  BY <1>1, <1>2, PTL DEF Spec

-----------------------------------------------------------------------------
(* Only a command placed makes the count grow, and only a write makes a      *)
(* command pending: neither happens to an idle ring without enqueueCmd.      *)
Idle(r) == r.count = 0 /\ ~r.pending

LEMMA IdleKept ==
  ASSUME NEW r \in Ring, Idle(r), NEW written, NEW type, NEW missing
  PROVE  /\ Idle(SendNext(r, written))
         /\ Idle(Respond(r, type, missing))
         /\ Idle(Expire(r))
BY DEF Idle, SendNext, Respond, Expire, Ring

LEMMA IdleMade ==
  ASSUME NEW r \in Ring
  PROVE  Idle(Flush(r)) /\ Idle(Reset(r))
BY DEF Idle, Flush, Reset, Ring

LEMMA IdleStep ==
  ASSUME TypeOK, IdleWhenDisconnected, [Next]_vars
  PROVE  IdleWhenDisconnected'
<1> USE DEF TypeOK, IdleWhenDisconnected
<1>1. CASE Disconnect \/ PollLost
  BY <1>1, IdleMade DEF Disconnect, PollLost, Idle
<1>2. CASE Connect
  BY <1>2 DEF Connect
<1>3. ASSUME state' = state, state = "DISCONNECTED" => Idle(q')
      PROVE  IdleWhenDisconnected'
  BY <1>3 DEF Idle
<1>4. ASSUME NEW b \in Issue, Request(b)
      PROVE  IdleWhenDisconnected'
  BY <1>3, <1>4 DEF Request, Accepts
<1>5. CASE PollDrain
  <2>1. ASSUME state = "DISCONNECTED"
        PROVE  q' = Respond(q, Head(rx).type, Head(rx).missing)
    BY <1>5, <2>1 DEF PollDrain, Requested, Accepts
  <2>2. QED
    BY <1>3, <1>5, <2>1, IdleKept DEF PollDrain, Idle
<1>6. CASE PollTimeout
  BY <1>3, <1>6 DEF PollTimeout
<1>7. CASE PollSend \/ PollPeriodic
  BY <1>3, <1>7 DEF PollSend, PollPeriodic
<1>8. CASE PollEnter \/ PollNoTimeout \/ PollNoSend \/ PollQuiet \/ LinkDrop \/ CompanionPush
  BY <1>8 DEF PollEnter, PollNoTimeout, PollNoSend, PollQuiet, LinkDrop, CompanionPush
<1>9. CASE Answer \/ LoseAnswer
  BY <1>9 DEF Answer, AnswerWith, LoseAnswer, Ring
<1>10. CASE UNCHANGED vars
  BY <1>10 DEF vars
<1>11. QED
  BY <1>1, <1>2, <1>4, <1>5, <1>6, <1>7, <1>8, <1>9, <1>10 DEF Next, Work, Poll, Companion

(* No command is queued or in flight while the client is disconnected.       *)
THEOREM IdleTheorem == Spec => []IdleWhenDisconnected
<1>1. Init => TypeOK /\ IdleWhenDisconnected
  BY TypeInit DEF Init, IdleWhenDisconnected, NewRing
<1>2. TypeOK /\ IdleWhenDisconnected /\ [Next]_vars => (TypeOK /\ IdleWhenDisconnected)'
  BY TypeStep, IdleStep
<1>3. QED
  BY <1>1, <1>2, PTL DEF Spec

-----------------------------------------------------------------------------
LEMMA RequestedSkew ==
  ASSUME TypeOK, NEW r \in Ring, NEW b \in CmdByte, NEW written \in BOOLEAN
  PROVE  Skew(Requested(r, b, written)) = Skew(r)
<1>1. System(b) \in Cmd
  BY SizeAssumption, ArgAssumption, CommandQueueAssumption DEF System, Cmd, TypeOK
<1>2. QED
  BY <1>1, EnqueueSkew DEF Requested, Accepts

(* Apart from disconnect, every step but the loss of a connection keeps the  *)
(* distance between the indices.                                             *)
LEMMA SkewStep ==
  ASSUME TypeOK, Work \/ LinkDrop \/ UNCHANGED vars
  PROVE  Skew(q') = Skew(q) \/ (Disconnect /\ Skew(q') = 0)
<1> USE DEF TypeOK
<1>1. ASSUME NEW b \in Issue, Request(b)
      PROVE  Skew(q') = Skew(q)
  <2>1. PICK written \in BOOLEAN :
          q' = Enqueue(q, [byte |-> b, arg |-> <<issued + 1>>, epoch |-> epoch], written)
    BY <1>1 DEF Request
  <2>2. issued + 1 \in 0 .. MaxRequests /\ <<issued + 1>> \in Arg
    BY <1>1, CommandQueueAssumption DEF Request
  <2>3. [byte |-> b, arg |-> <<issued + 1>>, epoch |-> epoch] \in Cmd
    BY <2>2, CommandQueueAssumption DEF Cmd
  <2>4. QED
    BY <1>1, <2>1, <2>3, EnqueueSkew DEF Request, Accepts
<1>2. CASE PollDrain
  <2>1. Head(rx) \in Packet
    BY <1>2, HeadTailProperties DEF PollDrain
  <2>2. Respond(q, Head(rx).type, Head(rx).missing) \in Ring
    BY <2>1, RespondType DEF Packet
  <2>3. QED
    BY <1>2, <2>1, <2>2, RespondSkew, RequestedSkew, PacketTypes DEF PollDrain, Packet
<1>3. CASE PollTimeout
  <2>1. PICK written \in BOOLEAN :
          \/ q' = SendNext(Expire(q), written)
          \/ q' = Requested(SendNext(Expire(q), written), "GET_CONTACTS", written)
    BY <1>3 DEF PollTimeout
  <2>2. Expire(q) \in Ring /\ SendNext(Expire(q), written) \in Ring
    BY ResetTypes, SendNextType
  <2>3. Skew(SendNext(Expire(q), written)) = Skew(q)
    BY <2>2, ResetSkews, SendNextSkew
  <2>4. QED
    BY <2>1, <2>2, <2>3, RequestedSkew, PacketTypes
<1>4. CASE PollSend
  BY <1>4, SendNextSkew DEF PollSend
<1>5. CASE PollPeriodic
  BY <1>5, RequestedSkew, PacketTypes DEF PollPeriodic
<1>6. CASE Connect
  <2> DEFINE r == Respond(q, "SELF_INFO", FALSE)
  <2>1. r \in Ring /\ Skew(r) = Skew(q)
    BY RespondType, RespondSkew
  <2>2. Skew(Respond(r, "DEVICE_INFO", FALSE)) = Skew(r)
    BY <2>1, RespondSkew
  <2>3. QED
    BY <1>6, <2>1, <2>2 DEF Connect
<1>7. CASE Disconnect
  BY <1>7, ResetSkews DEF Disconnect
<1>9. CASE Answer \/ LoseAnswer
  BY <1>9 DEF Answer, AnswerWith, LoseAnswer, Skew, Ring
<1>10. CASE PollEnter \/ PollNoTimeout \/ PollNoSend \/ PollQuiet \/ LinkDrop \/ CompanionPush
  BY <1>10 DEF PollEnter, PollNoTimeout, PollNoSend, PollQuiet, LinkDrop, CompanionPush
<1>11. CASE UNCHANGED vars
  BY <1>11 DEF vars
<1>12. QED
  BY <1>1, <1>2, <1>3, <1>4, <1>5, <1>6, <1>7, <1>9, <1>10, <1>11
     DEF Work, Poll, Companion

LEMMA LossSkew ==
  ASSUME TypeOK, PollLost
  PROVE  Skew(q') = Skew(q) \/ q.count > 0
<1>1. q.count = 0 \/ q.count > 0
  BY SizeAssumption DEF TypeOK, Ring
<1>2. QED
  BY <1>1, ResetSkews DEF PollLost, TypeOK

(* The head and the tail of the ring part ways only when poll finds the link *)
(* gone with commands queued: that path, alone, resets the count and not the *)
(* indices.                                                                  *)
THEOREM SkewTheorem == Spec => SkewOnlyByLoss
<1> DEFINE SkewLaw == Skew(q') # Skew(q) =>
                        /\ state' = "DISCONNECTED"
                        /\ (state = "CONNECTED" /\ q.count > 0) \/ Skew(q') = 0
<1>1. TypeOK /\ [Next]_vars => [SkewLaw]_vars
  BY SkewStep, LossSkew DEF Disconnect, PollLost, Next
<1>2. QED
  BY <1>1, TypeCorrect, PTL DEF Spec, SkewOnlyByLoss

(* As long as no connection is lost with commands queued, the indices and    *)
(* the count agree, whatever else happens: answers late, lost or wrong,      *)
(* timeouts, failed writes, disconnects and connects.                        *)
THEOREM SoundTheorem == SteadySpec => []RingSound
<1>1. Init => TypeOK /\ RingSound
  BY TypeInit, ModCases, SizeAssumption DEF Init, RingSound, Skew, NewRing
<1>2. SteadyNext => Next
  BY DEF SteadyNext, Next
<1>3. TypeOK /\ RingSound /\ [SteadyNext]_vars => (TypeOK /\ RingSound)'
  <2> SUFFICES ASSUME TypeOK, RingSound, [SteadyNext]_vars
               PROVE  TypeOK' /\ RingSound'
    OBVIOUS
  <2>1. TypeOK'
    BY <1>2, TypeStep
  <2>2. CASE PollLost /\ q.count = 0
    BY <2>1, <2>2, LossSkew DEF RingSound
  <2>3. CASE Work \/ LinkDrop \/ UNCHANGED vars
    BY <2>1, <2>3, SkewStep DEF RingSound
  <2>4. QED
    BY <2>2, <2>3 DEF SteadyNext
<1>4. QED
  BY <1>1, <1>3, PTL DEF SteadySpec

-----------------------------------------------------------------------------
(* How the steps of the client look to its callers: CommandFifo's actions    *)
(* with waiting the backlog of the ring.                                     *)
LEMMA EnqueueFifo ==
  ASSUME TypeOK, RingSound, NEW c \in Cmd, NEW written \in BOOLEAN,
         ~Full(q), q' = Enqueue(q, c, written)
  PROVE  Fifo!Accept(c)
<1>1. q' \in Ring
  BY EnqueueType DEF TypeOK
<1>2. Len(Backlog(q')) <= CMD_QUEUE_SIZE
  BY <1>1, BacklogType, SizeAssumption DEF Ring
<1>3. Fifo!Transmit(Append(Backlog(q), c))
  BY EnqueueBacklog DEF TypeOK, RingSound, Fifo!Transmit
<1>4. QED
  BY <1>2, <1>3 DEF Fifo!Accept

(* The same for a request made after a step that ended the command in flight.*)
LEMMA RequestedFifo ==
  ASSUME TypeOK, NEW r \in Ring, Skew(r) = 0, NEW b \in CmdByte, NEW written \in BOOLEAN,
         Backlog(r) = Backlog(q), r.wire = q.wire, q' = Requested(r, b, written)
  PROVE  (\E c \in Cmd : Fifo!Accept(c)) \/ UNCHANGED <<Backlog(q), q.wire>>
<1>1. CASE ~Accepts(r)
  BY <1>1 DEF Requested
<1>2. CASE Accepts(r)
  <2>1. System(b) \in Cmd
    BY SizeAssumption, ArgAssumption, CommandQueueAssumption DEF System, Cmd, TypeOK
  <2>2. q' = Enqueue(r, System(b), written) /\ ~Full(r)
    BY <1>2 DEF Requested, Accepts
  <2>3. q' \in Ring
    BY <2>1, <2>2, EnqueueType
  <2>4. Len(Backlog(q')) <= CMD_QUEUE_SIZE
    BY <2>3, BacklogType, SizeAssumption DEF Ring
  <2>5. Fifo!Transmit(Append(Backlog(q), System(b)))
    BY <2>1, <2>2, EnqueueBacklog DEF Fifo!Transmit
  <2>6. QED
    BY <2>1, <2>4, <2>5 DEF Fifo!Accept
<1>3. QED
  BY <1>1, <1>2

LEMMA SendNextFifo ==
  ASSUME NEW r \in Ring, NEW written \in BOOLEAN, TypeOK,
         Backlog(r) = Backlog(q), r.wire = q.wire, q' = SendNext(r, written)
  PROVE  Fifo!Write \/ UNCHANGED <<Backlog(q), q.wire>>
<1>1. CASE r.count = 0 \/ ~written
  BY <1>1 DEF SendNext
<1>2. CASE r.count # 0 /\ written
  <2>1. q' = SendNext(r, TRUE)
    BY <1>2
  <2>2. /\ Backlog(q) # <<>> /\ Backlog(q') = Tail(Backlog(q))
        /\ q'.wire = Append(q.wire, Head(Backlog(q)))
    BY <1>2, <2>1, SendNextBacklog
  <2>3. QED
    BY <2>2 DEF Fifo!Write, Fifo!Transmit
<1>3. QED
  BY <1>1, <1>2

(* A timeout may write the oldest command and then accept a new fetch of the *)
(* contacts: to the callers, the fetch is accepted and the oldest written.   *)
LEMMA RetryFifo ==
  ASSUME TypeOK, RingSound, NEW written \in BOOLEAN,
         q' = Requested(SendNext(Expire(q), written), "GET_CONTACTS", written)
  PROVE  Fifo!Next \/ UNCHANGED <<Backlog(q), q.wire>>
<1> DEFINE e == Expire(q)
           r == SendNext(e, written)
           c == System("GET_CONTACTS")
<1>1. /\ e \in Ring /\ Skew(e) = 0 /\ Backlog(e) = Backlog(q) /\ e.wire = q.wire
  BY ResetTypes, ResetSkews, EndBacklog DEF TypeOK, RingSound
<1>2. "GET_CONTACTS" \in CmdByte /\ c \in Cmd
  BY PacketTypes, SizeAssumption, ArgAssumption, CommandQueueAssumption DEF System, Cmd, TypeOK
<1>3. CASE e.count = 0 \/ ~written
  <2>1. r = e
    BY <1>3 DEF SendNext
  <2>2. QED
    BY <1>1, <1>2, <2>1, RequestedFifo DEF Fifo!Next
<1>4. CASE e.count # 0 /\ written /\ ~Accepts(r)
  <2>1. q' = r
    BY <1>4 DEF Requested
  <2>2. QED
    BY <1>1, <2>1, SendNextFifo DEF Fifo!Next
<1>5. CASE e.count # 0 /\ written /\ Accepts(r)
  <2>1. r = SendNext(e, TRUE) /\ r \in Ring
    BY <1>1, <1>5, SendNextType
  <2>2. r.pending
    BY <1>1, <1>5 DEF SendNext, Ring
  <2>3. q' = Place(r, c)
    BY <1>5, <2>2 DEF Requested, Enqueue
  <2>4. /\ Backlog(q) # <<>> /\ Backlog(r) = Tail(Backlog(q))
        /\ r.wire = Append(q.wire, Head(Backlog(q)))
    BY <1>1, <1>5, <2>1, SendNextBacklog
  <2>5. Skew(r) = 0 /\ ~Full(r)
    BY <1>1, <1>5, SendNextSkew DEF Accepts
  <2>6. Backlog(q') = Append(Tail(Backlog(q)), c) /\ q' \in Ring
    BY <1>2, <2>1, <2>3, <2>4, <2>5, PlaceBacklog, PlaceType
  <2>7. q'.wire = r.wire
    BY <2>1, <2>3 DEF Place, Ring
  <2>8. Backlog(q) \in Seq(Cmd)
    BY BacklogType DEF TypeOK
  <2>9. /\ Tail(Append(Backlog(q), c)) = Append(Tail(Backlog(q)), c)
        /\ Head(Append(Backlog(q), c)) = Head(Backlog(q))
    BY <2>4, <2>8, HeadTailAppend
  <2>10. Fifo!Transmit(Append(Backlog(q), c))
    BY <2>4, <2>6, <2>7, <2>9 DEF Fifo!Transmit
  <2>11. Len(Backlog(q')) <= CMD_QUEUE_SIZE
    BY <2>6, BacklogType, SizeAssumption DEF Ring
  <2>12. QED
    BY <1>2, <2>10, <2>11 DEF Fifo!Accept, Fifo!Next
<1>6. QED
  BY <1>3, <1>4, <1>5

(* Every step of the client is a step of the queue, or none. *)
LEMMA FifoStep ==
  ASSUME TypeOK, RingSound, [SteadyNext]_vars
  PROVE  [Fifo!Next]_<<Backlog(q), q.wire>>
<1> USE DEF TypeOK
<1>1. ASSUME NEW b \in Issue, Request(b)
      PROVE  Fifo!Next
  <2>1. PICK written \in BOOLEAN :
          q' = Enqueue(q, [byte |-> b, arg |-> <<issued + 1>>, epoch |-> epoch], written)
    BY <1>1 DEF Request
  <2>2. issued + 1 \in 0 .. MaxRequests /\ <<issued + 1>> \in Arg
    BY <1>1, CommandQueueAssumption DEF Request
  <2>3. [byte |-> b, arg |-> <<issued + 1>>, epoch |-> epoch] \in Cmd
    BY <2>2, CommandQueueAssumption DEF Cmd
  <2>4. QED
    BY <1>1, <2>1, <2>3, EnqueueFifo DEF Request, Accepts, Fifo!Next
<1>2. CASE PollDrain
  <2> DEFINE r == Respond(q, Head(rx).type, Head(rx).missing)
  <2>1. Head(rx) \in Packet
    BY <1>2, HeadTailProperties DEF PollDrain
  <2>2. r \in Ring /\ Skew(r) = 0 /\ Backlog(r) = Backlog(q) /\ r.wire = q.wire
    BY <2>1, RespondType, RespondSkew, EndBacklog DEF Packet, RingSound
  <2>3. \/ q' = r
        \/ \E b \in CmdByte, written \in BOOLEAN : q' = Requested(r, b, written)
    BY <1>2, PacketTypes DEF PollDrain
  <2> HIDE DEF r
  <2>4. QED
    BY <2>2, <2>3, RequestedFifo DEF Fifo!Next
<1>3. CASE PollTimeout
  <2>1. PICK written \in BOOLEAN :
          \/ q' = SendNext(Expire(q), written)
          \/ q' = Requested(SendNext(Expire(q), written), "GET_CONTACTS", written)
    BY <1>3 DEF PollTimeout
  <2>2. Expire(q) \in Ring /\ Backlog(Expire(q)) = Backlog(q) /\ Expire(q).wire = q.wire
    BY ResetTypes, EndBacklog
  <2>3. CASE q' = SendNext(Expire(q), written)
    BY <2>2, <2>3, SendNextFifo DEF Fifo!Next
  <2>4. CASE q' = Requested(SendNext(Expire(q), written), "GET_CONTACTS", written)
    BY <2>4, RetryFifo
  <2>5. QED
    BY <2>1, <2>3, <2>4
<1>4. CASE PollSend
  BY <1>4, SendNextFifo DEF PollSend, Fifo!Next
<1>5. CASE PollPeriodic
  BY <1>5, RequestedFifo, PacketTypes DEF PollPeriodic, RingSound, Fifo!Next
<1>6. CASE Connect
  <2> DEFINE r == Respond(q, "SELF_INFO", FALSE)
  <2>1. r \in Ring /\ Backlog(r) = Backlog(q) /\ r.wire = q.wire
    BY RespondType, EndBacklog
  <2>2. Backlog(q') = Backlog(r) /\ q'.wire = r.wire
    BY <1>6, <2>1, EndBacklog DEF Connect
  <2>3. QED
    BY <2>1, <2>2
<1>7. CASE Disconnect \/ (PollLost /\ q.count = 0)
  BY <1>7, ResetBacklog DEF Disconnect, PollLost, Fifo!Drop, Fifo!Next
<1>8. CASE Answer \/ LoseAnswer
  <2>1. q.wire # <<>> /\ q' = [q EXCEPT !.wire = Tail(q.wire)]
    BY <1>8 DEF Answer, AnswerWith, LoseAnswer
  <2>2. q'.wire = Tail(q.wire) /\ Backlog(q') = Backlog(q)
    BY <2>1 DEF Ring, Backlog
  <2>3. QED
    BY <2>1, <2>2 DEF Fifo!Handle, Fifo!Next
<1>9. CASE PollEnter \/ PollNoTimeout \/ PollNoSend \/ PollQuiet \/ LinkDrop \/ CompanionPush
  BY <1>9 DEF PollEnter, PollNoTimeout, PollNoSend, PollQuiet, LinkDrop, CompanionPush
<1>10. CASE UNCHANGED vars
  BY <1>10 DEF vars
<1>11. QED
  BY <1>1, <1>2, <1>3, <1>4, <1>5, <1>6, <1>7, <1>8, <1>9, <1>10
     DEF SteadyNext, Work, Poll, Companion

(* As long as no connection is lost with commands queued, the ring with its  *)
(* indices, the in-flight slot and the timeouts is a first-in first-out      *)
(* queue: every command accepted is written at most once, in order, and      *)
(* never after its connection.                                               *)
THEOREM FifoTheorem == SteadySpec => FifoSpec
<1>1. Init => Fifo!Init
  <2>1. ASSUME Init
        PROVE  Backlog(q) = <<>> /\ q.wire = <<>>
    BY <2>1, NewRingType, EmptyBacklog DEF Init, NewRing
  <2>2. QED
    BY <2>1 DEF Fifo!Init
<1>2. Init => TypeOK
  BY TypeInit
<1>3. TypeOK /\ [SteadyNext]_vars => TypeOK'
  BY TypeStep DEF SteadyNext, Next
<1>4. TypeOK /\ RingSound /\ [SteadyNext]_vars => [Fifo!Next]_<<Backlog(q), q.wire>>
  BY FifoStep
<1>5. QED
  BY <1>1, <1>2, <1>3, <1>4, SoundTheorem, PTL
     DEF SteadySpec, FifoSpec, Fifo!Spec, Fifo!fifoVars
-----------------------------------------------------------------------------
(* The reply that is expected is that of the command in flight. *)
Matched(r) == r.pending => r.expected = ExpectedResponse[r.inFlight.byte]

LEMMA MatchedSent ==
  ASSUME NEW r \in Ring, Matched(r), NEW written \in BOOLEAN
  PROVE  Matched(SendNext(r, written))
<1>1. CASE r.count = 0 \/ ~written
  BY <1>1 DEF SendNext
<1>2. CASE ~(r.count = 0 \/ ~written)
  BY <1>2 DEF SendNext, Matched, Ring
<1> QED
  BY <1>1, <1>2

LEMMA MatchedPlaced ==
  ASSUME NEW r \in Ring, Matched(r), NEW c \in Cmd
  PROVE  /\ Matched(Place(r, c))
         /\ Place(r, c).pending = r.pending /\ Place(r, c).inFlight = r.inFlight
BY DEF Place, Matched, Ring

LEMMA MatchedEnqueued ==
  ASSUME NEW r \in Ring, ~Full(r), Matched(r), NEW c \in Cmd, NEW written \in BOOLEAN
  PROVE  /\ Matched(Enqueue(r, c, written))
         /\ r.pending => /\ Enqueue(r, c, written).pending
                         /\ Enqueue(r, c, written).inFlight = r.inFlight
BY PlaceType, MatchedPlaced, MatchedSent DEF Enqueue, Ring

LEMMA MatchedEnds ==
  ASSUME NEW r \in Ring, Matched(r), NEW type, NEW missing
  PROVE  /\ Matched(Respond(r, type, missing)) /\ Matched(Expire(r))
         /\ Matched(Flush(r)) /\ Matched(Reset(r))
BY DEF Respond, Expire, Flush, Reset, Matched, Ring
LEMMA MatchedRequested ==
  ASSUME TypeOK, NEW r \in Ring, Matched(r), NEW b \in CmdByte, NEW written \in BOOLEAN
  PROVE  /\ Matched(Requested(r, b, written))
         /\ r.pending => /\ Requested(r, b, written).pending
                         /\ Requested(r, b, written).inFlight = r.inFlight
<1>1. System(b) \in Cmd
  BY SizeAssumption, ArgAssumption, CommandQueueAssumption DEF System, Cmd, TypeOK
<1>2. QED
  BY <1>1, MatchedEnqueued DEF Requested, Accepts

LEMMA MatchedStep ==
  ASSUME TypeOK, Matched(q), [Next]_vars
  PROVE  Matched(q')
<1> USE DEF TypeOK
<1>1. ASSUME NEW b \in Issue, Request(b)
      PROVE  Matched(q')
  <2>1. PICK written \in BOOLEAN :
          q' = Enqueue(q, [byte |-> b, arg |-> <<issued + 1>>, epoch |-> epoch], written)
    BY <1>1 DEF Request
  <2>2. <<issued + 1>> \in Arg
    BY <1>1, CommandQueueAssumption DEF Request
  <2>3. [byte |-> b, arg |-> <<issued + 1>>, epoch |-> epoch] \in Cmd
    BY <2>2, CommandQueueAssumption DEF Cmd
  <2>4. QED
    BY <1>1, <2>1, <2>3, MatchedEnqueued DEF Request, Accepts
<1>2. CASE PollDrain
  <2>1. Head(rx) \in Packet
    BY <1>2, HeadTailProperties DEF PollDrain
  <2>2. /\ Respond(q, Head(rx).type, Head(rx).missing) \in Ring
        /\ Matched(Respond(q, Head(rx).type, Head(rx).missing))
    BY <2>1, RespondType, MatchedEnds DEF Packet
  <2>3. QED
    BY <1>2, <2>2, MatchedRequested, PacketTypes DEF PollDrain
<1>3. CASE PollTimeout
  <2>1. PICK written \in BOOLEAN :
          \/ q' = SendNext(Expire(q), written)
          \/ q' = Requested(SendNext(Expire(q), written), "GET_CONTACTS", written)
    BY <1>3 DEF PollTimeout
  <2>2. Expire(q) \in Ring /\ SendNext(Expire(q), written) \in Ring
    BY ResetTypes, SendNextType
  <2>3. Matched(SendNext(Expire(q), written))
    BY <2>2, MatchedEnds, MatchedSent
  <2>4. QED
    BY <2>1, <2>2, <2>3, MatchedRequested, PacketTypes
<1>4. CASE PollSend
  BY <1>4, MatchedSent DEF PollSend
<1>5. CASE PollPeriodic
  BY <1>5, MatchedRequested, PacketTypes DEF PollPeriodic
<1>6. CASE Connect
  <2> DEFINE r == Respond(q, "SELF_INFO", FALSE)
  <2>1. r \in Ring /\ Matched(r)
    BY RespondType, MatchedEnds
  <2>2. Matched(Respond(r, "DEVICE_INFO", FALSE))
    BY <2>1, MatchedEnds
  <2>3. QED
    BY <1>6, <2>1, <2>2 DEF Connect
<1>7. CASE Disconnect \/ PollLost
  BY <1>7, MatchedEnds DEF Disconnect, PollLost
<1>8. CASE Answer \/ LoseAnswer
  BY <1>8 DEF Answer, AnswerWith, LoseAnswer, Matched, Ring
<1>9. CASE PollEnter \/ PollNoTimeout \/ PollNoSend \/ PollQuiet \/ LinkDrop \/ CompanionPush
  BY <1>9 DEF PollEnter, PollNoTimeout, PollNoSend, PollQuiet, LinkDrop, CompanionPush
<1>10. CASE UNCHANGED vars
  BY <1>10 DEF vars
<1>11. QED
  BY <1>1, <1>2, <1>3, <1>4, <1>5, <1>6, <1>7, <1>8, <1>9, <1>10
     DEF Next, Work, Poll, Companion

(* Only poll() takes a packet from the ring while it drains it. *)
LEMMA OnlyDrainTakes ==
  ASSUME TypeOK, Next, pc = "drain", Len(rx') < Len(rx)
  PROVE  PollDrain
<1>1. Len(rx) \in Nat
  BY DEF TypeOK
<1>2. ASSUME rx' = rx
      PROVE  FALSE
  BY <1>1, <1>2
<1>3. ASSUME NEW p, rx' = Append(rx, p)
      PROVE  FALSE
  <2>1. Len(rx') = Len(rx) + 1
    BY <1>3 DEF TypeOK
  <2>2. QED
    BY <1>1, <2>1
<1>4. ~(Answer \/ CompanionPush)
  BY <1>3 DEF Answer, AnswerWith, CompanionPush, Deliver
<1>5. \/ PollDrain \/ Answer \/ CompanionPush
      \/ pc = "idle" \/ rx' = rx
  BY DEF Next, Work, Poll, Companion, Request, PollEnter, PollTimeout, PollNoTimeout,
         PollSend, PollNoSend, PollPeriodic, PollQuiet, Disconnect, Connect, LoseAnswer,
         LinkDrop, PollLost
<1>6. QED
  BY <1>2, <1>4, <1>5

(* processResponse: a command whose reply has a type of its own stays in      *)
(* flight until that reply or an error is taken.                             *)
THEOREM TypedTheorem == Spec => TypedCommandKept
<1> DEFINE Kept == /\ Len(rx') < Len(rx) /\ pc = "drain" /\ q.pending
                   /\ ExpectedResponse[q.inFlight.byte] # "OK"
                   /\ Head(rx).type \notin {ExpectedResponse[q.inFlight.byte], "ERROR"}
                   => q'.pending /\ q'.inFlight = q.inFlight
<1>1. Init => TypeOK /\ Matched(q)
  BY TypeInit DEF Init, NewRing, Matched
<1>2. TypeOK /\ Matched(q) /\ [Next]_vars => (TypeOK /\ Matched(q))'
  BY TypeStep, MatchedStep
<1>3. TypeOK /\ Matched(q) /\ [Next]_vars => [Kept]_vars
  <2> SUFFICES ASSUME TypeOK, Matched(q), Next,
                      Len(rx') < Len(rx), pc = "drain", q.pending,
                      ExpectedResponse[q.inFlight.byte] # "OK",
                      Head(rx).type \notin {ExpectedResponse[q.inFlight.byte], "ERROR"}
               PROVE  q'.pending /\ q'.inFlight = q.inFlight
    OBVIOUS
  <2>1. PollDrain
    BY OnlyDrainTakes
  <2>2. Respond(q, Head(rx).type, Head(rx).missing) = q
    BY DEF Respond, Matched
  <2>3. q \in Ring
    BY DEF TypeOK
  <2>4. QED
    BY <2>1, <2>2, <2>3, MatchedRequested, PacketTypes DEF PollDrain
<1>4. QED
  BY <1>1, <1>2, <1>3, PTL DEF Spec, TypedCommandKept
=============================================================================
