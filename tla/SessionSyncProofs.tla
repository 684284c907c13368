-------------------------- MODULE SessionSyncProofs --------------------------
(***************************************************************************)
(* Proofs that a connected client has asked for every channel, whatever      *)
(* Risks allow, and, without them, that no contact of a full list is lost    *)
(* silently: for any number of channels and contacts and any sizes of the    *)
(* queue and of the ring.                                                    *)
(***************************************************************************)
EXTENDS SessionSync, TLAPS

Queues == [queue : Seq(Cmd), flight : Cmd, wire : Seq(Cmd), full : BOOLEAN,
           asked : SUBSET Cmd]

(* What a step may do to the queue without taking back a request. *)
Extends(c, d) == d \in Queues /\ c.asked \subseteq d.asked

(* Of the channels, those the refill has passed have been asked for; all of  *)
(* them once there is no refill any more.  It holds from the moment poll()   *)
(* has left the burst, hence also before the client is connected.            *)
Covered == \A i \in 0 .. Channels - 1 :
             (sync => i < next) => [op |-> "GET_CHANNEL", arg |-> i] \in cl.asked

Served == phase \in {"asked", "up"} /\ ~initial /\ ~Bursting

SyncInv == /\ cl \in Queues /\ latest \in {0, 1}
           /\ initial \in BOOLEAN /\ sync \in BOOLEAN /\ next \in Nat
           /\ Served => Covered

-----------------------------------------------------------------------------
(* The commands the code issues are commands. *)
LEMMA Commands ==
  /\ \A op \in Plain \cup {"NONE", "GET_CONTACTS"} : Do(op) \in Cmd
  /\ Idle \in Cmd /\ FullList \in Cmd
  /\ \A i \in 0 .. Channels - 1 : [op |-> "GET_CHANNEL", arg |-> i] \in Cmd
  /\ \A t \in {0, 1} : [op |-> "GET_CONTACTS", arg |-> t] \in Cmd
  BY DEF Cmd, Plain, Do, Idle, FullList

(* Extends composes. *)
LEMMA ExtendsTwice ==
  ASSUME NEW c, NEW d, NEW e, Extends(c, d), Extends(d, e)
  PROVE  Extends(c, e)
  BY DEF Extends

(* Sending the next command requests nothing. *)
LEMMA SendNextExtends ==
  ASSUME NEW c \in Queues
  PROVE  Extends(c, SendNext(c))
<1>1. CASE c.queue = <<>> \/ ~link \/ Len(c.wire) = MaxWire
  BY <1>1 DEF SendNext, Extends
<1>2. CASE ~(c.queue = <<>> \/ ~link \/ Len(c.wire) = MaxWire)
  <2> DEFINE q == c.queue
             w == c.wire
  <2>1. q \in Seq(Cmd) /\ q # <<>> /\ w \in Seq(Cmd)
    BY <1>2 DEF Queues
  <2>2. Tail(q) \in Seq(Cmd) /\ Head(q) \in Cmd
    BY <2>1
  <2>3. Append(w, Head(q)) \in Seq(Cmd)
    BY <2>1, <2>2
  <2>4. SendNext(c) = [c EXCEPT !.queue = Tail(q), !.flight = Head(q),
                                !.wire = Append(w, Head(q))]
    BY <1>2 DEF SendNext
  <2> HIDE DEF q, w
  <2> QED
    BY <2>2, <2>3, <2>4 DEF Queues, Extends
<1> QED
  BY <1>1, <1>2

(* A packet ends a command or none; it takes no request back. *)
LEMMA RespondExtends ==
  ASSUME NEW c \in Queues, NEW type
  PROVE  Extends(c, Respond(c, type))
  BY Commands DEF Respond, Extends, Queues

(* A request that is accepted is noted, one that is refused costs nothing. *)
LEMMA RequestExtends ==
  ASSUME NEW c \in Queues, NEW cmd \in Cmd
  PROVE  /\ Extends(c, Request(c, cmd))
         /\ Accepts(c) => cmd \in Request(c, cmd).asked
<1> DEFINE d == IF cmd.op = "GET_CONTACTS" THEN [c EXCEPT !.full = cmd.arg = 0] ELSE c
           e == [d EXCEPT !.queue = Append(d.queue, cmd), !.asked = d.asked \cup {cmd}]
<1>1. d \in Queues /\ d.asked = c.asked /\ d.queue = c.queue
  BY DEF Queues
<1>2. Append(d.queue, cmd) \in Seq(Cmd)
  BY <1>1 DEF Queues
<1> HIDE DEF d
<1>3. e \in Queues /\ e.asked = d.asked \cup {cmd}
  BY <1>1, <1>2 DEF Queues
<1> HIDE DEF e
<1>4. Extends(e, SendNext(e))
  BY <1>3, SendNextExtends
<1>5. Request(c, cmd) = IF ~Accepts(d) THEN d
                        ELSE IF e.flight = Idle THEN SendNext(e) ELSE e
  BY DEF Request, d, e
<1>6. Accepts(d) <=> Accepts(c)
  BY <1>1 DEF Accepts
<1> QED
  BY <1>1, <1>3, <1>4, <1>5, <1>6 DEF Extends

(* The queue of a client that has been disconnected. *)
LEMMA EmptyQueue ==
  ASSUME NEW c \in Queues
  PROVE  /\ NoCmds \in Queues
         /\ [NoCmds EXCEPT !.full = c.full, !.asked = c.asked] \in Queues
<1>1. <<>> \in Seq(Cmd) /\ Idle \in Cmd
  BY Commands
<1>2. NoCmds \in Queues
  BY <1>1 DEF NoCmds, Queues
<1> QED
  BY <1>2 DEF Queues

(* Handling a packet takes no request back. *)
LEMMA HandleExtends ==
  ASSUME SyncInv, Handle
  PROVE  Extends(cl, cl') /\ latest' \in {0, 1}
<1>1. PICK p : ListStarts(p) \/ ListGrows(p) \/ ListEnds(p) \/ OtherPacket(p)
  BY DEF Handle
<1>2. cl \in Queues /\ latest \in {0, 1}
  BY DEF SyncInv
<1> DEFINE c == Respond(cl, p.type)
<1>3. Extends(cl, c) /\ c \in Queues
  BY <1>2, RespondExtends DEF Extends
<1> HIDE DEF c
<1>4. \A cmd \in Cmd : Extends(cl, Request(c, cmd))
  BY <1>3, RequestExtends, ExtendsTwice
<1>5. CASE ListStarts(p) \/ ListGrows(p)
  BY <1>2, <1>3, <1>5 DEF ListStarts, ListGrows, c
<1>6. CASE ListEnds(p)
  BY <1>3, <1>4, <1>6, Commands DEF ListEnds, c
<1>7. CASE OtherPacket(p)
  <2>1. \/ cl' = Request(c, Do("GET_MESSAGE"))
        \/ cl' = Request(c, [op |-> "GET_CONTACTS", arg |-> latest])
        \/ cl' = c
    BY <1>7 DEF OtherPacket, c
  <2>2. Do("GET_MESSAGE") \in Cmd /\ [op |-> "GET_CONTACTS", arg |-> latest] \in Cmd
    BY <1>2, Commands DEF Plain
  <2>3. latest' = latest
    BY <1>7 DEF OtherPacket, book
  <2> QED
    BY <1>2, <1>3, <1>4, <2>1, <2>2, <2>3
<1> QED
  BY <1>1, <1>5, <1>6, <1>7

(* The end of poll() takes no request back. *)
LEMMA PollEndsExtends ==
  ASSUME NEW c \in Queues, SyncInv, Extends(cl, c), PollEnds(c)
  PROVE  Extends(cl, cl')
<1>1. Extends(cl, Sent(c))
  BY SendNextExtends, ExtendsTwice DEF Sent, Extends
<1>2. Sent(c) \in Queues /\ Do("GET_MESSAGE") \in Cmd
  BY <1>1, Commands DEF Extends, Plain
<1>3. Extends(cl, Request(Sent(c), Do("GET_MESSAGE")))
  BY <1>1, <1>2, RequestExtends, ExtendsTwice
<1> QED
  BY <1>1, <1>3 DEF PollEnds

(* A step that requests more and touches neither the session nor the refill  *)
(* keeps the invariant.                                                      *)
LEMMA RequestsKeep ==
  ASSUME SyncInv, Extends(cl, cl'), latest' \in {0, 1},
         UNCHANGED <<syncs, phase>>, Bursting' <=> Bursting
  PROVE  SyncInv'
  BY DEF SyncInv, Served, Covered, Extends, syncs

(* A step that leaves poll() outside a served session keeps the invariant. *)
LEMMA UnservedKeep ==
  ASSUME SyncInv, cl' \in Queues, latest' \in {0, 1},
         initial' \in BOOLEAN, sync' \in BOOLEAN, next' \in Nat, ~Served'
  PROVE  SyncInv'
  BY DEF SyncInv
-----------------------------------------------------------------------------
(* The worker: the invariant is void until the handshake has succeeded, and   *)
(* then until poll() has made the burst.                                     *)
LEMMA WorkerKeeps ==
  ASSUME SyncInv, Worker
  PROVE  SyncInv'
<1> USE DEF SyncInv
<1>1. CASE LinkUp
  <2>1. cl' \in Queues
    BY <1>1 DEF LinkUp, Queues
  <2> QED
    BY <1>1, <2>1, UnservedKeep DEF LinkUp, Served, book, syncs
<1>2. CASE LinkLost
  BY <1>2, UnservedKeep DEF LinkLost, Served, book, syncs
<1>3. CASE InitBegins
  BY <1>3, UnservedKeep DEF InitBegins, Served, book, syncs
<1>4. CASE InitTakes
  BY <1>4, HandleExtends, UnservedKeep DEF InitTakes, Served, Extends, syncs
<1>5. CASE InitDone
  BY <1>5, UnservedKeep DEF InitDone, Served, book
<1>6. CASE Connected
  BY <1>6 DEF Connected, Served, Covered, Bursting, book, syncs
<1>7. CASE InitFails
  <2>1. cl' \in Queues
    BY <1>7, EmptyQueue DEF InitFails, TornDown
  <2> QED
    BY <1>7, <2>1, UnservedKeep DEF InitFails, TornDown, Served, book
<1> QED
  BY <1>1, <1>2, <1>3, <1>4, <1>5, <1>6, <1>7 DEF Worker

(* poll(): the burst starts the refill at channel 0, the refill passes a      *)
(* channel only when the queue took its request, and it ends past the last.  *)
LEMMA PollKeeps ==
  ASSUME SyncInv, Poll, SyncAssumption
  PROVE  SyncInv'
<1>1. cl \in Queues /\ latest \in {0, 1} /\ initial \in BOOLEAN /\ sync \in BOOLEAN
      /\ next \in Nat
  BY DEF SyncInv
<1>2. CASE PollLost
  <2>1. cl' \in Queues
    BY <1>1, <1>2, EmptyQueue DEF PollLost
  <2> QED
    BY <1>1, <1>2, <2>1, UnservedKeep DEF PollLost, Served, book, syncs
<1>3. CASE PollEnter
  BY <1>1, <1>3 DEF PollEnter, SyncInv, Served, Covered, Bursting, worker, book
<1>4. CASE BurstBattery \/ BurstVars
  <2>1. Extends(cl, cl')
    BY <1>1, <1>4, Commands, RequestExtends DEF BurstBattery, BurstVars, Burst, Plain
  <2> QED
    BY <1>1, <1>4, <2>1, RequestsKeep
    DEF BurstBattery, BurstVars, Burst, Bursting, worker, book, syncs
<1>5. CASE BurstContacts
  <2>1. cl' \in Queues
    BY <1>1, <1>5, Commands, RequestExtends DEF BurstContacts, Burst, Extends
  <2> QED
    BY <1>1, <1>5, <2>1 DEF BurstContacts, Burst, SyncInv, Covered, book
<1>6. CASE Refill
  <2> DEFINE cmd == [op |-> "GET_CHANNEL", arg |-> next]
  <2>1. cmd \in Cmd /\ Accepts(cl) /\ cl' = Request(cl, cmd)
    BY <1>1, <1>6, Commands, SyncAssumption DEF Refill
  <2>2. Extends(cl, cl') /\ cmd \in cl'.asked
    BY <1>1, <2>1, RequestExtends
  <2>3. Covered => Covered'
    BY <1>1, <1>6, <2>2, SyncAssumption DEF Refill, Covered, Extends
  <2> QED
    BY <1>1, <1>6, <2>2, <2>3
    DEF Refill, SyncInv, Served, Bursting, Extends, worker, book
<1>7. CASE RefillPauses
  BY <1>1, <1>7 DEF RefillPauses, SyncInv, Served, Covered, Bursting, worker, book, syncs
<1>8. CASE RefillEnds
  <2>1. Extends(cl, cl')
    BY <1>1, <1>8, Commands, RequestExtends DEF RefillEnds, Plain
  <2>2. Covered => Covered'
    BY <1>1, <1>8, <2>1, SyncAssumption DEF RefillEnds, Covered, Extends
  <2> QED
    BY <1>1, <1>8, <2>1, <2>2
    DEF RefillEnds, SyncInv, Served, Bursting, Extends, worker, book
<1>9. CASE PollDrain
  BY <1>1, <1>9, HandleExtends, RequestsKeep DEF PollDrain, Bursting, worker, syncs
<1>10. CASE PollNoTimeout \/ PollTimeout
  <2>1. Extends(cl, cl)
    BY <1>1 DEF Extends
  <2> DEFINE c == SendNext([cl EXCEPT !.flight = Idle])
  <2>2. Extends(cl, c)
    <3>1. [cl EXCEPT !.flight = Idle] \in Queues
          /\ Extends(cl, [cl EXCEPT !.flight = Idle])
      BY <1>1, Commands DEF Queues, Extends
    <3> QED
      BY <3>1, SendNextExtends, ExtendsTwice
  <2> HIDE DEF c
  <2>3. Extends(cl, Request(c, FullList))
    BY <2>2, Commands, RequestExtends, ExtendsTwice DEF Extends
  <2>4. PollEnds(cl) \/ PollEnds(c) \/ PollEnds(Request(c, FullList))
    BY <1>10 DEF PollNoTimeout, PollTimeout, c
  <2>5. Extends(cl, cl')
    BY <2>1, <2>2, <2>3, <2>4, PollEndsExtends DEF Extends
  <2>6. UNCHANGED <<syncs, phase>> /\ latest' \in {0, 1} /\ (Bursting' <=> Bursting)
    BY <1>1, <1>10 DEF PollNoTimeout, PollTimeout, PollEnds, Bursting, worker
  <2> QED
    BY <2>5, <2>6, RequestsKeep
<1> QED
  BY <1>2, <1>3, <1>4, <1>5, <1>6, <1>7, <1>8, <1>9, <1>10 DEF Poll, PollGoesOn

(* What the user, the link and the companion do. *)
LEMMA OthersKeep ==
  ASSUME SyncInv, UserCommand \/ Disconnect \/ LinkDrop \/ Companion
  PROVE  SyncInv'
<1>1. cl \in Queues /\ latest \in {0, 1}
  BY DEF SyncInv
<1>2. CASE UserCommand
  BY <1>1, <1>2, Commands, RequestExtends, RequestsKeep
  DEF UserCommand, Bursting, worker, book, Plain
<1>3. CASE Disconnect
  <2>1. cl' \in Queues
    BY <1>1, <1>3, EmptyQueue DEF Disconnect, TornDown
  <2> QED
    BY <1>1, <1>3, <2>1, UnservedKeep DEF Disconnect, TornDown, Served, book
<1>4. CASE LinkDrop
  BY <1>1, <1>4, RequestsKeep DEF LinkDrop, Extends, Bursting, book
<1>5. CASE Companion
  <2>1. UNCHANGED <<syncs, phase, pc, latest>>
    BY <1>5 DEF Companion, Answer, AnswerMessage, StartList, Greet, SendContact, EndList,
                Push, worker, book
  <2>2. cl' = cl \/ \E c \in Cmd : Takes(c)
    BY <1>5 DEF Companion, Answer, AnswerMessage, StartList, Greet, SendContact, EndList,
                Push
  <2>3. Extends(cl, cl')
    <3>1. cl.wire \in Seq(Cmd)
      BY <1>1 DEF Queues
    <3>2. cl.wire # <<>> => Tail(cl.wire) \in Seq(Cmd)
      BY <3>1
    <3> QED
      BY <1>1, <2>2, <3>2 DEF Queues, Extends, Takes
  <2> QED
    BY <1>1, <2>1, <2>3, RequestsKeep DEF Bursting
<1> QED
  BY <1>2, <1>3, <1>4, <1>5

(* SyncInv holds in every reachable state. *)
THEOREM SyncInvariant == Spec => []SyncInv
<1>1. Init => SyncInv
  <2>1. NoCmds \in Queues
    <3>1. <<>> \in Seq(Cmd) /\ Idle \in Cmd
      BY Commands
    <3> QED
      BY <3>1 DEF NoCmds, Queues
  <2>2. Init => cl \in Queues
    BY <2>1, Zenon DEF Init
  <2>3. Init => latest \in {0, 1} /\ next \in Nat
    BY DEF Init
  <2>4. Init => initial \in BOOLEAN /\ sync \in BOOLEAN
    BY Zenon DEF Init
  <2>5. Init => ~Served
    BY DEF Init, Served
  <2> QED
    BY <2>2, <2>3, <2>4, <2>5 DEF SyncInv
<1>2. SyncInv /\ [Next]_vars => SyncInv'
  <2> SUFFICES ASSUME SyncInv, [Next]_vars PROVE SyncInv'
    OBVIOUS
  <2>1. CASE Next
    BY <2>1, WorkerKeeps, PollKeeps, OthersKeep, SyncAssumption DEF Next
  <2>2. CASE UNCHANGED vars
    BY <2>2 DEF vars, worker, syncs, book, SyncInv, Served, Covered, Bursting
  <2> QED
    BY <2>1, <2>2
<1> QED
  BY <1>1, <1>2, PTL DEF Spec

(* Every channel of the companion is asked for on every connection: the burst *)
(* of poll() may come while the client still refuses requests, the queue may  *)
(* be full and a sync may be cut short, but none of it skips a channel.      *)
THEOREM ChannelsAsked == Spec => []AllAsked
<1>1. SyncInv => AllAsked
  BY DEF SyncInv, Served, Covered, AllAsked, EveryChannel
<1> QED
  BY <1>1, SyncInvariant, PTL
-----------------------------------------------------------------------------
(* A full list that came short is fetched again: sequences and the queue.    *)

Elements(s) == {s[i] : i \in DOMAIN s}

LEMMA TailElements ==
  ASSUME NEW S, NEW s \in Seq(S), s # <<>>
  PROVE  /\ Tail(s) \in Seq(S) /\ Head(s) \in S /\ Head(s) = s[1]
         /\ Len(Tail(s)) = Len(s) - 1 /\ Len(s) \in Nat \ {0}
         /\ \A i \in 1 .. Len(s) - 1 : Tail(s)[i] = s[i + 1]
         /\ Elements(s) = {Head(s)} \cup Elements(Tail(s))
<1>1. /\ Tail(s) \in Seq(S) /\ Head(s) \in S /\ Head(s) = s[1]
      /\ Len(Tail(s)) = Len(s) - 1 /\ Len(s) \in Nat \ {0}
      /\ \A i \in 1 .. Len(s) - 1 : Tail(s)[i] = s[i + 1]
      /\ DOMAIN s = 1 .. Len(s) /\ DOMAIN Tail(s) = 1 .. Len(s) - 1
  OBVIOUS
<1>2. ASSUME NEW x \in Elements(s)
      PROVE  x \in {Head(s)} \cup Elements(Tail(s))
  <2>1. PICK i \in 1 .. Len(s) : x = s[i]
    BY <1>1 DEF Elements
  <2>2. CASE i = 1
    BY <1>1, <2>1, <2>2
  <2>3. CASE i # 1
    <3>1. i - 1 \in 1 .. Len(s) - 1 /\ Tail(s)[i - 1] = s[i]
      BY <1>1, <2>3
    <3> QED
      BY <1>1, <2>1, <3>1 DEF Elements
  <2> QED
    BY <2>2, <2>3
<1>3. ASSUME NEW x \in {Head(s)} \cup Elements(Tail(s))
      PROVE  x \in Elements(s)
  <2>1. CASE x = Head(s)
    BY <1>1, <2>1 DEF Elements
  <2>2. CASE x \in Elements(Tail(s))
    <3>1. PICK i \in 1 .. Len(s) - 1 : x = s[i + 1]
      BY <1>1, <2>2 DEF Elements
    <3>2. i + 1 \in DOMAIN s
      BY <1>1
    <3> QED
      BY <3>1, <3>2 DEF Elements
  <2> QED
    BY <1>3, <2>1, <2>2
<1> QED
  BY <1>1, <1>2, <1>3

LEMMA AppendElements ==
  ASSUME NEW S, NEW s \in Seq(S), NEW x \in S
  PROVE  Elements(Append(s, x)) = Elements(s) \cup {x}
<1> DEFINE a == Append(s, x)
           n == Len(s)
<1>1. /\ n \in Nat /\ DOMAIN s = 1 .. n /\ DOMAIN a = 1 .. n + 1
      /\ a[n + 1] = x /\ \A i \in 1 .. n : a[i] = s[i]
  OBVIOUS
<1> HIDE DEF a, n
<1>2. \A i \in 1 .. n + 1 : i \in 1 .. n \/ i = n + 1
  BY <1>1
<1>3. n + 1 \in 1 .. n + 1 /\ \A i \in 1 .. n : i \in 1 .. n + 1
  BY <1>1
<1>4. Elements(a) \subseteq Elements(s) \cup {x}
  BY <1>1, <1>2 DEF Elements
<1>5. Elements(s) \cup {x} \subseteq Elements(a)
  BY <1>1, <1>3 DEF Elements
<1> QED
  BY <1>4, <1>5 DEF a

(* The commands that are still to be answered with a list, as far as the      *)
(* companion goes.                                                           *)
Held(c) == Elements(c.queue) \cup Elements(c.wire)

(* What a step may do to the queue: lastContactListFull stays true as long as *)
(* a full list may still come.                                               *)
Remembers(c, d) ==
  d.full \/ (d.full = c.full /\ (FullList \in Held(d) => FullList \in Held(c)))

LEMMA RemembersTwice ==
  ASSUME NEW c \in Queues, NEW d \in Queues, NEW e \in Queues,
         Remembers(c, d), Remembers(d, e)
  PROVE  Remembers(c, e)
<1>1. c.full \in BOOLEAN /\ d.full \in BOOLEAN /\ e.full \in BOOLEAN
  BY DEF Queues
<1> QED
  BY Zenon, <1>1 DEF Remembers

(* Sending moves a command from the queue to the wire and the flight. *)
LEMMA SendNextHolds ==
  ASSUME NEW c \in Queues
  PROVE  /\ SendNext(c) \in Queues /\ SendNext(c).full = c.full
         /\ Held(SendNext(c)) \subseteq Held(c)
         /\ Elements(c.queue) \subseteq Outstanding(SendNext(c))
<1>1. CASE c.queue = <<>> \/ ~link \/ Len(c.wire) = MaxWire
  BY <1>1 DEF SendNext, Outstanding, Elements
<1>2. CASE ~(c.queue = <<>> \/ ~link \/ Len(c.wire) = MaxWire)
  <2> DEFINE q == c.queue
             w == c.wire
             d == SendNext(c)
  <2>1. q \in Seq(Cmd) /\ q # <<>> /\ w \in Seq(Cmd)
    BY <1>2 DEF Queues
  <2>2. d = [c EXCEPT !.queue = Tail(q), !.flight = Head(q), !.wire = Append(w, Head(q))]
    BY <1>2 DEF SendNext
  <2>3. d.queue = Tail(q) /\ d.flight = Head(q) /\ d.wire = Append(w, Head(q))
        /\ d.full = c.full
    BY <2>2 DEF Queues
  <2>4. Elements(q) = {Head(q)} \cup Elements(Tail(q)) /\ Head(q) \in Cmd
    BY <2>1, TailElements
  <2>5. Elements(Append(w, Head(q))) = Elements(w) \cup {Head(q)}
    BY <2>1, <2>4, AppendElements
  <2>6. d \in Queues
    BY SendNextExtends DEF Extends
  <2> QED
    BY <2>3, <2>4, <2>5, <2>6 DEF Held, Outstanding, Elements
<1> QED
  BY <1>1, <1>2

(* A request: what it adds, and what it notes of contact lists. *)
LEMMA RequestHolds ==
  ASSUME NEW c \in Queues, NEW cmd \in Cmd
  PROVE  /\ Request(c, cmd) \in Queues
         /\ Request(c, cmd).full = IF cmd.op = "GET_CONTACTS" THEN cmd.arg = 0 ELSE c.full
         /\ Held(Request(c, cmd)) \subseteq Held(c) \cup {cmd}
         /\ Accepts(c) => cmd \in Outstanding(Request(c, cmd))
<1> DEFINE d == IF cmd.op = "GET_CONTACTS" THEN [c EXCEPT !.full = cmd.arg = 0] ELSE c
           e == [d EXCEPT !.queue = Append(d.queue, cmd), !.asked = d.asked \cup {cmd}]
<1>1. /\ d \in Queues /\ d.queue = c.queue /\ d.wire = c.wire
      /\ d.full = IF cmd.op = "GET_CONTACTS" THEN cmd.arg = 0 ELSE c.full
  BY DEF Queues
<1>2. Append(d.queue, cmd) \in Seq(Cmd)
  BY <1>1 DEF Queues
<1> HIDE DEF d
<1>3. /\ e \in Queues /\ e.queue = Append(d.queue, cmd) /\ e.wire = d.wire
      /\ e.full = d.full
  BY <1>1, <1>2 DEF Queues
<1>4. Elements(e.queue) = Elements(d.queue) \cup {cmd}
  BY <1>1, <1>3, AppendElements DEF Queues
<1> HIDE DEF e
<1>5. Held(e) \subseteq Held(c) \cup {cmd} /\ Held(d) = Held(c)
  BY <1>1, <1>3, <1>4 DEF Held
<1>6. cmd \in Outstanding(e)
  BY <1>4 DEF Outstanding, Elements
<1>7. /\ SendNext(e) \in Queues /\ SendNext(e).full = e.full
      /\ Held(SendNext(e)) \subseteq Held(e) /\ cmd \in Outstanding(SendNext(e))
  BY <1>3, <1>4, SendNextHolds
<1>8. Request(c, cmd) = IF ~Accepts(d) THEN d
                        ELSE IF e.flight = Idle THEN SendNext(e) ELSE e
  BY DEF Request, d, e
<1>9. Accepts(d) <=> Accepts(c)
  BY <1>1 DEF Accepts
<1> QED
  BY <1>1, <1>3, <1>5, <1>6, <1>7, <1>8, <1>9
(* Requests of anything but the changed contacts. *)
LEMMA RequestRemembers ==
  ASSUME NEW c \in Queues, NEW cmd \in Cmd, cmd.op # "GET_CONTACTS" \/ cmd = FullList
  PROVE  Remembers(c, Request(c, cmd)) /\ Request(c, cmd) \in Queues
<1>1. FullList.op = "GET_CONTACTS" /\ FullList.arg = 0
  BY DEF FullList, Do
<1> DEFINE r == Request(c, cmd)
<1>2. r \in Queues /\ Held(r) \subseteq Held(c) \cup {cmd}
  BY RequestHolds
<1>3. CASE cmd = FullList
  <2>1. r.full
    BY <1>1, <1>3, RequestHolds
  <2> QED
    BY <1>2, <2>1 DEF Remembers
<1>4. CASE cmd.op # "GET_CONTACTS"
  <2>1. r.full = c.full /\ cmd # FullList
    BY <1>1, <1>4, RequestHolds
  <2> QED
    BY <1>2, <2>1 DEF Remembers
<1> QED
  BY <1>3, <1>4

LEMMA SmallRemembers ==
  ASSUME NEW c \in Queues
  PROVE  /\ Remembers(c, SendNext(c)) /\ SendNext(c) \in Queues
         /\ \A type : Respond(c, type) \in Queues /\ Remembers(c, Respond(c, type))
         /\ LET d == [c EXCEPT !.flight = Idle] IN d \in Queues /\ Remembers(c, d)
         /\ Remembers(c, c)
         /\ \A a : Remembers(c, [NoCmds EXCEPT !.full = c.full, !.asked = a])
         /\ \A a : Remembers(c, [c EXCEPT !.asked = a])
<1>1. Remembers(c, SendNext(c)) /\ SendNext(c) \in Queues
  BY SendNextHolds DEF Remembers
<1>2. LET d == [c EXCEPT !.flight = Idle] IN d \in Queues /\ Remembers(c, d)
  BY Commands DEF Queues, Remembers, Held
<1>3. ASSUME NEW type
      PROVE  Respond(c, type) \in Queues /\ Remembers(c, Respond(c, type))
  BY <1>2 DEF Respond, Remembers
<1>4. ASSUME NEW a
      PROVE  Remembers(c, [NoCmds EXCEPT !.full = c.full, !.asked = a])
  <2> DEFINE d == [NoCmds EXCEPT !.full = c.full, !.asked = a]
  <2>1. d.full = c.full /\ d.queue = <<>> /\ d.wire = <<>>
    BY DEF NoCmds
  <2> HIDE DEF d
  <2>2. Elements(<<>>) = {}
    BY DEF Elements
  <2> QED
    BY <2>1, <2>2 DEF Remembers, Held, d
<1>5. ASSUME NEW a
      PROVE  Remembers(c, [c EXCEPT !.asked = a])
  BY DEF Remembers, Held, Queues
<1> QED
  BY <1>1, <1>2, <1>3, <1>4, <1>5 DEF Remembers

-----------------------------------------------------------------------------
(* How many contacts of a list are missing at least: if total - seen will be  *)
(* m or more when the packets before one of this type have been handled, it   *)
(* will be n or more after it.                                               *)
Counts(type, m, n) ==
  /\ type = "CONTACT_START" => n <= Contacts
  /\ type \in {"CONTACT", "NEW_ADVERT"} => n <= m - 1
  /\ type = "CONTACT_END" => n <= m /\ n <= 0
  /\ type \notin {"CONTACT_START", "CONTACT", "NEW_ADVERT", "CONTACT_END"} => n <= m

Dropped == IF list.short THEN 1 ELSE 0

(* d[k] bounds it after k packets: where a short list ends, and at the end of *)
(* what has come of a full one, enough is missing.                           *)
Forecast(d) ==
  /\ d[0] <= total - seen
  /\ \A k \in 1 .. Len(rx) :
       /\ Counts(rx[k].type, d[k - 1], d[k])
       /\ rx[k].short => d[k - 1] > 0
  /\ list.full => d[Len(rx)] >= list.left + Dropped

Missing == \E d \in [0 .. Len(rx) -> Int] : Forecast(d)

Fetched == \/ FullList \in Held(cl) \/ list.full
           \/ \E k \in DOMAIN rx : rx[k].short
           => cl.full

ShortEnds == /\ \A k \in DOMAIN rx : rx[k].short => rx[k].type = "CONTACT_END"
             /\ list.short => list.full

LossTypes == /\ rx \in Seq(Packet) /\ seen \in Nat /\ total \in Nat
             /\ tries \in 0 .. MAX_CONTACT_SYNC_RETRIES
             /\ list \in [left : Int, full : BOOLEAN, short : BOOLEAN]
             /\ hello \subseteq Info

LossInv == LossTypes /\ ShortEnds /\ Fetched /\ Missing

(* Steps that leave the packets, the counts and the list as they are.        *)
LEMMA QueueStep ==
  ASSUME LossInv, cl \in Queues, cl' \in Queues, Remembers(cl, cl'), hello' \subseteq Info,
         UNCHANGED <<rx, seen, total, tries, list>>
  PROVE  LossInv'
<1>1. Fetched'
  BY DEF LossInv, Fetched, Remembers, Queues
<1>2. LossTypes' /\ ShortEnds'
  BY DEF LossInv, LossTypes, ShortEnds
<1>3. Missing'
  BY DEF LossInv, Missing, Forecast, Dropped
<1> QED
  BY <1>1, <1>2, <1>3 DEF LossInv

(* What a step may add to the lists to come without breaking Fetched. *)
LEMMA FetchedStep ==
  ASSUME Fetched, Remembers(cl, cl'),
         list'.full => list.full \/ FullList \in Held(cl),
         \A k \in DOMAIN rx' : rx'[k].short => list.full \/ \E j \in DOMAIN rx : rx[j].short
  PROVE  Fetched'
<1> SUFFICES ASSUME FullList \in Held(cl') \/ list'.full \/ \E k \in DOMAIN rx' : rx'[k].short
             PROVE  cl'.full
  BY Zenon DEF Fetched
<1>1. CASE FullList \in Held(cl') /\ FullList \notin Held(cl)
  BY Zenon, <1>1 DEF Remembers
<1>2. CASE FullList \in Held(cl) \/ list'.full \/ \E k \in DOMAIN rx' : rx'[k].short
  <2>1. FullList \in Held(cl) \/ list.full \/ \E k \in DOMAIN rx : rx[k].short
    BY Zenon, <1>2
  <2>2. cl.full
    BY Zenon, <2>1 DEF Fetched
  <2> QED
    BY Zenon, <2>2 DEF Remembers
<1> QED
  BY Zenon, <1>1, <1>2

(* A packet comes.  n is what is missing once it is handled.  *)
LEMMA PacketComes ==
  ASSUME LossTypes, NEW p \in Packet, rx' = Append(rx, p), UNCHANGED <<seen, total>>,
         NEW d \in [0 .. Len(rx) -> Int], Forecast(d),
         NEW n \in Int, Counts(p.type, d[Len(rx)], n), p.short => d[Len(rx)] > 0,
         list'.full => n >= list'.left + Dropped'
  PROVE  Missing'
<1> DEFINE l == Len(rx)
           e == [k \in 0 .. l + 1 |-> IF k = l + 1 THEN n ELSE d[k]]
<1>1. /\ l \in Nat /\ Len(rx') = l + 1 /\ rx'[l + 1] = p
      /\ \A k \in 1 .. l : rx'[k] = rx[k]
  BY DEF LossTypes
<1>2. /\ e \in [0 .. l + 1 -> Int] /\ e[0] = d[0] /\ e[l + 1] = n /\ e[l] = d[l]
      /\ \A k \in 1 .. l : e[k] = d[k] /\ e[k - 1] = d[k - 1]
  BY <1>1
<1> HIDE DEF e
<1>3. ASSUME NEW k \in 1 .. l + 1
      PROVE  /\ Counts(rx'[k].type, e[k - 1], e[k])
             /\ rx'[k].short => e[k - 1] > 0
  <2>1. CASE k = l + 1
    <3>1. k - 1 = l
      BY <1>1, <2>1
    <3> QED
      BY <1>1, <1>2, <2>1, <3>1
  <2>2. CASE k # l + 1
    <3>1. k \in 1 .. l
      BY <1>1, <2>2
    <3> QED
      BY <1>1, <1>2, <3>1 DEF Forecast
  <2> QED
    BY <2>1, <2>2
<1>4. e[0] <= total' - seen'
  BY <1>2 DEF Forecast
<1>5. \A k \in 1 .. Len(rx') :
         /\ Counts(rx'[k].type, e[k - 1], e[k])
         /\ rx'[k].short => e[k - 1] > 0
  BY <1>1, <1>3
<1>6. list'.full => e[Len(rx')] >= list'.left + Dropped'
  BY <1>1, <1>2
<1>7. e \in [0 .. Len(rx') -> Int]
  BY <1>1, <1>2
<1> QED
  BY <1>4, <1>5, <1>6, <1>7 DEF Missing, Forecast

(* The oldest packet is handled, and counted as Counts says. *)
LEMMA PacketTaken ==
  ASSUME LossTypes, rx # <<>>, rx' = Tail(rx), UNCHANGED list, Missing,
         \A m, n \in Int : m <= total - seen /\ Counts(Head(rx).type, m, n)
                            => n <= total' - seen'
  PROVE  Missing'
<1>1. PICK d \in [0 .. Len(rx) -> Int] : Forecast(d)
  BY DEF Missing
<1> DEFINE l == Len(rx)
           e == [k \in 0 .. l - 1 |-> d[k + 1]]
<1>2. /\ l \in Nat \ {0} /\ Len(rx') = l - 1 /\ Head(rx) = rx[1]
      /\ \A k \in 1 .. l - 1 : rx'[k] = rx[k + 1]
  BY TailElements DEF LossTypes
<1>3. /\ e \in [0 .. l - 1 -> Int] /\ e[0] = d[1] /\ e[l - 1] = d[l]
      /\ d[0] \in Int /\ d[1] \in Int
      /\ \A k \in 1 .. l - 1 : e[k] = d[k + 1] /\ e[k - 1] = d[k]
  <2>1. \A k \in 0 .. l - 1 : k + 1 \in 0 .. l
    BY <1>2
  <2>2. \A k \in 0 .. l - 1 : d[k + 1] \in Int
    BY <2>1
  <2>3. e \in [0 .. l - 1 -> Int]
    BY <2>2
  <2>4. \A k \in 0 .. l - 1 : e[k] = d[k + 1]
    OBVIOUS
  <2> HIDE DEF e
  <2>5. 0 \in 0 .. l - 1 /\ l - 1 \in 0 .. l - 1 /\ l - 1 + 1 = l /\ 0 \in 0 .. l /\ 0 + 1 = 1
    BY <1>2
  <2>6. e[0] = d[1] /\ e[l - 1] = d[l] /\ d[0] \in Int /\ d[1] \in Int
    BY <2>2, <2>4, <2>5
  <2>7. \A k \in 1 .. l - 1 : k \in 0 .. l - 1 /\ k - 1 \in 0 .. l - 1 /\ k - 1 + 1 = k
    BY <1>2
  <2>8. \A k \in 1 .. l - 1 : e[k] = d[k + 1] /\ e[k - 1] = d[k]
    BY <2>4, <2>7
  <2> QED
    BY <2>3, <2>6, <2>8
<1> HIDE DEF e
<1>4. ASSUME NEW k \in 1 .. l - 1
      PROVE  /\ Counts(rx'[k].type, e[k - 1], e[k])
             /\ rx'[k].short => e[k - 1] > 0
  <2>1. k + 1 \in 1 .. l /\ k + 1 - 1 = k
    BY <1>2
  <2> QED
    BY <1>1, <1>2, <1>3, <2>1 DEF Forecast
<1>5. e[0] <= total' - seen'
  <2>1. 1 \in 1 .. l /\ 1 - 1 = 0
    BY <1>2
  <2>2. d[0] <= total - seen /\ Counts(Head(rx).type, d[0], d[1])
    BY <1>1, <1>2, <2>1 DEF Forecast
  <2> QED
    BY <1>3, <2>2
<1>6. list'.full => e[Len(rx')] >= list'.left + Dropped'
  BY <1>1, <1>2, <1>3 DEF Forecast, Dropped
<1>7. /\ e \in [0 .. Len(rx') -> Int]
      /\ \A k \in 1 .. Len(rx') :
         /\ Counts(rx'[k].type, e[k - 1], e[k])
         /\ rx'[k].short => e[k - 1] > 0
  BY <1>2, <1>3, <1>4
<1> HIDE DEF l
<1> QED
  BY <1>5, <1>6, <1>7 DEF Missing, Forecast
(* The packets in the ring after one is taken were there. *)
LEMMA RestOfRing ==
  ASSUME LossTypes, rx # <<>>, rx' = Tail(rx)
  PROVE  /\ rx' \in Seq(Packet) /\ Head(rx) \in Packet
         /\ 1 \in DOMAIN rx /\ Head(rx) = rx[1]
         /\ \A k \in DOMAIN rx' : k + 1 \in DOMAIN rx /\ rx'[k] = rx[k + 1]
<1>1. rx \in Seq(Packet)
  BY DEF LossTypes
<1>2. /\ rx' \in Seq(Packet) /\ Head(rx) \in Packet /\ Head(rx) = rx[1]
      /\ Len(rx') = Len(rx) - 1 /\ Len(rx) \in Nat \ {0}
      /\ \A k \in 1 .. Len(rx) - 1 : rx'[k] = rx[k + 1]
  BY <1>1, TailElements
<1>3. DOMAIN rx = 1 .. Len(rx) /\ DOMAIN rx' = 1 .. Len(rx')
  BY <1>1, <1>2
<1> QED
  BY <1>2, <1>3

(* While a full list may still come the changed contacts are not asked for.  *)
LEMMA SinceStep ==
  ASSUME LossInv, Calm, NEW c \in Queues, Remembers(cl, c), Held(c) \subseteq Held(cl),
         cl' = Request(c, [op |-> "GET_CONTACTS", arg |-> 1]), UNCHANGED list,
         \A k \in DOMAIN rx' : \E j \in DOMAIN rx : rx'[k] = rx[j]
  PROVE  Fetched'
<1> DEFINE cmd == [op |-> "GET_CONTACTS", arg |-> 1]
<1>1. cmd \in Cmd /\ cmd # FullList
  BY DEF Cmd, FullList, Do
<1>2. Held(cl') \subseteq Held(c) \cup {cmd}
  BY <1>1, RequestHolds
<1>3. FullList \notin Held(cl)
  BY DEF Calm, Outstanding, Held, Elements
<1>4. FullList \notin Held(cl')
  BY <1>1, <1>2, <1>3
<1>5. \A k \in DOMAIN rx' : ~rx'[k].short
  BY DEF LossInv, ShortEnds, Calm
<1> QED
  BY <1>4, <1>5 DEF Fetched, Calm

(* Handling a packet keeps what is known of the lists to come. *)
LEMMA HandleStep ==
  ASSUME LossInv, SyncInv, Risks = {}, Handle, UNCHANGED list, hello' \subseteq Info
  PROVE  LossInv'
<1>1. PICK p : /\ p = Head(rx)
               /\ ListStarts(p) \/ ListGrows(p) \/ ListEnds(p) \/ OtherPacket(p)
  BY DEF Handle
<1>2. /\ rx # <<>> /\ rx' = Tail(rx) /\ LossTypes /\ Missing /\ cl \in Queues
      /\ latest \in {0, 1} /\ cl' \in Queues
  BY HandleExtends DEF Handle, LossInv, SyncInv, Extends
<1>3. /\ rx' \in Seq(Packet) /\ p \in Packet /\ 1 \in DOMAIN rx /\ p = rx[1]
      /\ \A k \in DOMAIN rx' : k + 1 \in DOMAIN rx /\ rx'[k] = rx[k + 1]
  BY <1>1, <1>2, RestOfRing
<1> PICK c : c = Respond(cl, p.type)
  OBVIOUS
<1>4. c \in Queues /\ Remembers(cl, c) /\ Held(c) = Held(cl)
  BY <1>2, SmallRemembers DEF Respond, Queues, Held
<1>5. seen \in Nat /\ total \in Nat /\ tries \in 0 .. MAX_CONTACT_SYNC_RETRIES
      /\ MAX_CONTACT_SYNC_RETRIES \in Nat /\ Contacts \in Nat
  BY <1>2, SyncAssumption DEF LossTypes
<1>6. /\ seen' \in Nat /\ total' \in Nat /\ tries' \in 0 .. MAX_CONTACT_SYNC_RETRIES
      /\ \A m, n \in Int : m <= total - seen /\ Counts(p.type, m, n) => n <= total' - seen'
  <2>1. CASE ListStarts(p)
    BY <1>5, <2>1 DEF ListStarts, Counts
  <2>2. CASE ListGrows(p)
    BY <1>5, <2>2 DEF ListGrows, Counts
  <2>3. CASE ListEnds(p)
    BY <1>5, <2>3 DEF ListEnds, Counts
  <2>4. CASE OtherPacket(p)
    BY <1>5, <2>4 DEF OtherPacket, Counts, book
  <2> QED
    BY <1>1, <2>1, <2>2, <2>3, <2>4
<1>7. LossTypes' /\ ShortEnds'
  BY <1>2, <1>3, <1>6 DEF LossInv, LossTypes, ShortEnds
<1>8. Missing'
  BY <1>1, <1>2, <1>6, PacketTaken
<1> SUFFICES Fetched'
  BY <1>7, <1>8 DEF LossInv
<1>9. Remembers(cl, cl') => Fetched'
  <2>1. \A k \in DOMAIN rx' : rx'[k].short => list.full \/ \E j \in DOMAIN rx : rx[j].short
    BY Zenon, <1>3
  <2> QED
    BY Zenon, <2>1, FetchedStep DEF LossInv
<1>10. ASSUME NEW cmd \in Cmd, cmd.op # "GET_CONTACTS" \/ cmd = FullList,
              cl' = Request(c, cmd)
       PROVE  Fetched'
  <2>1. Remembers(c, cl')
    BY <1>4, <1>10, RequestRemembers
  <2>2. Remembers(cl, cl')
    BY <1>2, <1>4, <2>1, RemembersTwice
  <2> QED
    BY Zenon, <1>9, <2>2 DEF Remembers
<1>11. cl' = c => Fetched'
  BY Zenon, <1>4, <1>9 DEF Remembers
<1>12. CASE ListStarts(p) \/ ListGrows(p)
  BY Zenon, <1>11, <1>12 DEF ListStarts, ListGrows
<1>13. CASE ListEnds(p)
  <2>1. cl' = c \/ cl' = Request(c, FullList)
    BY <1>13 DEF ListEnds
  <2>2. FullList \in Cmd
    BY Commands
  <2> QED
    BY Zenon, <1>10, <1>11, <2>1, <2>2
<1>14. CASE OtherPacket(p)
  <2>1. \/ cl' = Request(c, Do("GET_MESSAGE"))
        \/ Calm /\ cl' = Request(c, [op |-> "GET_CONTACTS", arg |-> latest])
        \/ cl' = c
    BY <1>14 DEF OtherPacket
  <2>2. Do("GET_MESSAGE") \in Cmd /\ Do("GET_MESSAGE").op # "GET_CONTACTS"
    BY Commands DEF Plain, Do
  <2>3. CASE Calm /\ cl' = Request(c, [op |-> "GET_CONTACTS", arg |-> latest])
    <3>1. CASE latest = 0
      <4>1. [op |-> "GET_CONTACTS", arg |-> latest] = FullList
        BY <3>1 DEF FullList, Do
      <4>2. FullList \in Cmd
        BY Commands
      <4> QED
        BY Zenon, <1>10, <2>3, <4>1, <4>2
    <3>2. CASE latest = 1
      <4>1. \A k \in DOMAIN rx' : \E j \in DOMAIN rx : rx'[k] = rx[j]
        BY <1>3
      <4>2. cl' = Request(c, [op |-> "GET_CONTACTS", arg |-> 1])
        BY <2>3, <3>2
      <4> QED
        BY Zenon, <1>4, <2>3, <4>1, <4>2, SinceStep
    <3> QED
      BY Zenon, <1>2, <3>1, <3>2
  <2>4. CASE cl' = Request(c, Do("GET_MESSAGE"))
    BY Zenon, <1>10, <2>2, <2>4
  <2> QED
    BY Zenon, <1>11, <2>1, <2>3, <2>4
<1> QED
  BY <1>1, <1>12, <1>13, <1>14

(* A packet that is added to the ring. *)
LEMMA RingGrows ==
  ASSUME LossTypes, NEW p \in Packet, rx' = Append(rx, p)
  PROVE  /\ rx' \in Seq(Packet)
         /\ \A k \in DOMAIN rx' :
              \/ k \in DOMAIN rx /\ rx'[k] = rx[k]
              \/ k = Len(rx) + 1 /\ rx'[k] = p
<1>1. rx \in Seq(Packet)
  BY DEF LossTypes
<1>2. /\ rx' \in Seq(Packet) /\ Len(rx) \in Nat /\ Len(rx') = Len(rx) + 1
      /\ rx'[Len(rx) + 1] = p /\ \A k \in 1 .. Len(rx) : rx'[k] = rx[k]
  BY <1>1
<1>3. DOMAIN rx = 1 .. Len(rx) /\ DOMAIN rx' = 1 .. Len(rx')
  BY <1>1, <1>2
<1>4. \A k \in 1 .. Len(rx) + 1 : k \in 1 .. Len(rx) \/ k = Len(rx) + 1
  BY <1>2
<1> QED
  BY <1>2, <1>3, <1>4

(* A packet of no list comes, or finds the ring full. *)
LEMMA NotifyStep ==
  ASSUME LossInv, NEW p \in Packet, Notify(p) \/ UNCHANGED rx, ~p.short,
         p.type \notin {"CONTACT_START", "CONTACT", "CONTACT_END"},
         p.type = "NEW_ADVERT" => ~list.full,
         UNCHANGED <<seen, total, tries, list>>, hello' \subseteq Info,
         cl \in Queues, cl' \in Queues, Remembers(cl, cl')
  PROVE  LossInv'
<1>1. CASE rx' = rx
  BY <1>1, QueueStep
<1>2. CASE rx' = Append(rx, p)
  <2>1. LossTypes
    BY DEF LossInv
  <2>2. /\ rx' \in Seq(Packet)
        /\ \A k \in DOMAIN rx' :
             \/ k \in DOMAIN rx /\ rx'[k] = rx[k]
             \/ k = Len(rx) + 1 /\ rx'[k] = p
    BY <1>2, <2>1, RingGrows
  <2>3. LossTypes'
    BY <2>1, <2>2 DEF LossTypes
  <2>4. \A k \in DOMAIN rx' : rx'[k].short => k \in DOMAIN rx /\ rx'[k] = rx[k]
    BY Zenon, <2>2
  <2>5. ShortEnds'
    <3>1. \A k \in DOMAIN rx' : rx'[k].short => rx'[k].type = "CONTACT_END"
      BY Zenon, <2>4 DEF LossInv, ShortEnds
    <3> QED
      BY Zenon, <3>1 DEF LossInv, ShortEnds
  <2>6. Fetched'
    <3>1. \A k \in DOMAIN rx' : rx'[k].short => list.full \/ \E j \in DOMAIN rx : rx[j].short
      BY Zenon, <2>4
    <3> QED
      BY Zenon, <3>1, FetchedStep DEF LossInv
  <2>7. Missing'
    <3>1. PICK d \in [0 .. Len(rx) -> Int] : Forecast(d)
      BY DEF LossInv, Missing
    <3>2. Len(rx) \in Nat /\ d[Len(rx)] \in Int
      BY <2>1 DEF LossTypes
    <3> DEFINE n == IF p.type = "NEW_ADVERT" THEN d[Len(rx)] - 1 ELSE d[Len(rx)]
    <3>3. n \in Int /\ Counts(p.type, d[Len(rx)], n)
      BY <3>2 DEF Counts
    <3>4. list'.full => n >= list'.left + Dropped'
      BY <3>1 DEF Forecast, Dropped
    <3> HIDE DEF n
    <3> QED
      BY <1>2, <2>1, <3>1, <3>3, <3>4, PacketComes
  <2> QED
    BY <2>3, <2>5, <2>6, <2>7 DEF LossInv
<1> QED
  BY <1>1, <1>2 DEF Notify

(* The end of a list that is being sent or of the link: no more is expected. *)
LEMMA ListStops ==
  ASSUME LossInv, list' = NoList, UNCHANGED <<seen, total, tries>>, hello' \subseteq Info,
         rx' = rx \/ rx' = <<>>, Remembers(cl, cl')
  PROVE  LossInv'
<1>1. /\ list'.full = FALSE /\ list'.short = FALSE
      /\ list' \in [left : Int, full : BOOLEAN, short : BOOLEAN]
  BY DEF NoList
<1>2. LossTypes
  BY DEF LossInv
<1>3. rx' \in Seq(Packet) /\ \A k \in DOMAIN rx' : k \in DOMAIN rx /\ rx'[k] = rx[k]
  <2>1. CASE rx' = rx
    BY <1>2, <2>1 DEF LossTypes
  <2>2. CASE rx' = <<>>
    <3>1. <<>> \in Seq(Packet) /\ DOMAIN <<>> = {}
      OBVIOUS
    <3> QED
      BY <2>2, <3>1
  <2> QED
    BY <2>1, <2>2
<1>4. LossTypes'
  BY <1>1, <1>2, <1>3 DEF LossTypes
<1>5. ShortEnds'
  BY Zenon, <1>1, <1>3 DEF LossInv, ShortEnds
<1>6. Fetched'
  <2>1. \A k \in DOMAIN rx' : rx'[k].short => list.full \/ \E j \in DOMAIN rx : rx[j].short
    BY Zenon, <1>3
  <2>2. list'.full => list.full
    BY <1>1
  <2> QED
    BY Zenon, <2>1, <2>2, FetchedStep DEF LossInv
<1>7. CASE rx' = rx
  <2>1. Missing'
    BY <1>1, <1>7 DEF LossInv, Missing, Forecast
  <2> QED
    BY <1>4, <1>5, <1>6, <2>1 DEF LossInv
<1>8. CASE rx' = <<>>
  <2> DEFINE d == [k \in 0 .. 0 |-> total' - seen']
  <2>1. Len(rx') = 0 /\ d \in [0 .. Len(rx') -> Int] /\ d[0] <= total' - seen'
    BY <1>4, <1>8 DEF LossTypes
  <2> HIDE DEF d
  <2>2. Missing'
    BY <1>1, <2>1 DEF Missing, Forecast
  <2> QED
    BY <1>4, <1>5, <1>6, <2>2 DEF LossInv
<1> QED
  BY <1>7, <1>8

(* A list begins: the ring takes its first packet, which counts its contacts. *)
LEMMA StartStep ==
  ASSUME LossInv, SyncInv, Risks = {}, NEW c \in Cmd, StartList(c)
  PROVE  LossInv'
<1>1. /\ LossTypes /\ cl \in Queues /\ Contacts \in Nat
      /\ c.op = "GET_CONTACTS" /\ list = NoList /\ ~RingFull /\ hello' = hello
      /\ UNCHANGED <<seen, total, tries>>
  BY SyncAssumption DEF LossInv, SyncInv, StartList, worker, book
<1>2. /\ cl' = [cl EXCEPT !.wire = Tail(cl.wire)]
      /\ cl.wire # <<>> /\ c = Head(cl.wire)
  BY DEF StartList, Takes
<1>3. PICK n \in (IF c.arg = 0 THEN {Contacts} ELSE 0 .. Contacts) :
        list' = [left |-> n, full |-> c.arg = 0, short |-> FALSE]
  BY DEF StartList
<1>4. cl.wire \in Seq(Cmd)
  BY <1>1 DEF Queues
<1>5. /\ Tail(cl.wire) \in Seq(Cmd) /\ c \in Elements(cl.wire)
      /\ Elements(Tail(cl.wire)) \subseteq Elements(cl.wire)
  BY <1>2, <1>4, TailElements
<1>6. /\ cl'.full = cl.full /\ cl'.queue = cl.queue /\ cl'.wire = Tail(cl.wire)
  BY <1>1, <1>2 DEF Queues
<1>7. Remembers(cl, cl')
  BY <1>5, <1>6 DEF Remembers, Held
<1> DEFINE p == Bare("CONTACT_START")
<1>8. p \in Packet /\ p.type = "CONTACT_START" /\ ~p.short
  BY DEF Bare, Packet
<1>9. rx' = Append(rx, p)
  BY <1>1 DEF StartList, Notify
<1> HIDE DEF p
<1>10. /\ rx' \in Seq(Packet)
       /\ \A k \in DOMAIN rx' : rx'[k].short => k \in DOMAIN rx /\ rx'[k] = rx[k]
  BY Zenon, <1>1, <1>8, <1>9, RingGrows
<1>11. /\ list' \in [left : Int, full : BOOLEAN, short : BOOLEAN]
       /\ list'.full = (c.arg = 0)
       /\ list'.short = FALSE /\ list'.left = n
       /\ c.arg = 0 => n = Contacts
  <2>1. n \in Int /\ (c.arg = 0 => n = Contacts)
    BY <1>1, <1>3
  <2>2. PICK b \in BOOLEAN : b = (c.arg = 0)
    BY Zenon
  <2>3. list' = [left |-> n, full |-> b, short |-> FALSE]
    BY Zenon, <1>3, <2>2
  <2>4. /\ list' \in [left : Int, full : BOOLEAN, short : BOOLEAN]
        /\ list'.full = b /\ list'.short = FALSE /\ list'.left = n
    BY <2>1, <2>3
  <2> QED
    BY Zenon, <2>1, <2>2, <2>4
<1>12. LossTypes'
  BY <1>1, <1>10, <1>11 DEF LossTypes
<1>13. ShortEnds'
  <2>1. \A k \in DOMAIN rx' : rx'[k].short => rx'[k].type = "CONTACT_END"
    BY Zenon, <1>10 DEF LossInv, ShortEnds
  <2> QED
    BY Zenon, <1>11, <2>1 DEF ShortEnds
<1>14. Fetched'
  <2>1. \A k \in DOMAIN rx' : rx'[k].short => list.full \/ \E j \in DOMAIN rx : rx[j].short
    BY Zenon, <1>10
  <2>2. c.arg = 0 => c = FullList
    BY <1>1 DEF Cmd, FullList, Do
  <2>3. list'.full => FullList \in Held(cl)
    BY Zenon, <1>5, <1>11, <2>2 DEF Held
  <2> QED
    BY Zenon, <1>7, <2>1, <2>3, FetchedStep DEF LossInv
<1>15. Missing'
  <2>1. PICK d \in [0 .. Len(rx) -> Int] : Forecast(d)
    BY DEF LossInv, Missing
  <2>2. Contacts \in Int /\ Counts(p.type, d[Len(rx)], Contacts)
    BY <1>1, <1>8 DEF Counts
  <2>3. list'.full => Contacts >= list'.left + Dropped'
    BY <1>1, <1>11 DEF Dropped
  <2>4. p.short => d[Len(rx)] > 0
    BY Zenon, <1>8
  <2> QED
    BY <1>1, <1>8, <1>9, <2>1, <2>2, <2>3, <2>4, PacketComes
<1> QED
  BY <1>12, <1>13, <1>14, <1>15 DEF LossInv

(* A contact of a list comes, or is dropped: then the list is short. *)
LEMMA ContactStep ==
  ASSUME LossInv, SyncInv, SendContact
  PROVE  LossInv'
<1>1. /\ LossTypes /\ cl \in Queues /\ cl' = cl /\ hello' = hello /\ list.left > 0
      /\ list' = [list EXCEPT !.left  = list.left - 1,
                              !.short = list.short \/ (list.full /\ RingFull)]
      /\ Notify(Bare("CONTACT")) /\ UNCHANGED <<seen, total, tries>>
  BY DEF LossInv, SyncInv, SendContact, worker, book
<1>2. /\ list.left \in Int /\ list.full \in BOOLEAN /\ list.short \in BOOLEAN
      /\ list' \in [left : Int, full : BOOLEAN, short : BOOLEAN]
      /\ list'.left = list.left - 1 /\ list'.full = list.full
      /\ list'.short = (list.short \/ (list.full /\ RingFull))
  <2>1. list \in [left : Int, full : BOOLEAN, short : BOOLEAN]
    BY <1>1 DEF LossTypes
  <2>2. PICK b \in BOOLEAN : b = (list.short \/ (list.full /\ RingFull))
    BY Zenon
  <2>3. list' = [list EXCEPT !.left = list.left - 1, !.short = b]
    BY Zenon, <1>1, <2>2
  <2>4. list.left \in Int /\ list.full \in BOOLEAN /\ list.short \in BOOLEAN
    BY <2>1
  <2>5. list' \in [left : Int, full : BOOLEAN, short : BOOLEAN]
    <3>1. PICK l \in Int : l = list.left - 1
      BY <2>4
    <3>2. list' = [left |-> l, full |-> list.full, short |-> b]
      BY Zenon, <2>1, <2>3, <3>1
    <3> QED
      BY <2>2, <2>4, <3>1, <3>2
  <2>6. list'.left = list.left - 1
    BY <2>1, <2>3
  <2>7. list'.full = list.full /\ list'.short = b
    BY Zenon, <2>1, <2>3
  <2> QED
    BY Zenon, <2>2, <2>4, <2>5, <2>6, <2>7
<1>3. Remembers(cl, cl')
  BY <1>1, SmallRemembers
<1> DEFINE p == Bare("CONTACT")
<1>4. p \in Packet /\ p.type = "CONTACT" /\ ~p.short
  BY DEF Bare, Packet
<1> HIDE DEF p
<1>5. CASE RingFull
  <2>1. rx' = rx
    BY <1>1, <1>5 DEF Notify
  <2>2. LossTypes'
    BY <1>1, <1>2, <2>1 DEF LossTypes
  <2>3. ShortEnds'
    BY Zenon, <1>2, <2>1 DEF LossInv, ShortEnds
  <2>4. Fetched'
    BY Zenon, <1>2, <1>3, <2>1, FetchedStep DEF LossInv
  <2>5. Missing'
    <3>1. PICK d \in [0 .. Len(rx) -> Int] : Forecast(d)
      BY DEF LossInv, Missing
    <3>2. Len(rx) \in Nat /\ d[Len(rx)] \in Int
      BY <1>1 DEF LossTypes
    <3>3. list'.full => d[Len(rx)] >= list'.left + Dropped'
      <4>1. list'.full => d[Len(rx)] >= list.left + Dropped
        BY <1>2, <3>1 DEF Forecast
      <4>2. Dropped \in {0, 1} /\ Dropped' \in {0, 1}
        BY DEF Dropped
      <4> QED
        BY <1>2, <3>2, <4>1, <4>2
    <3> QED
      BY <1>1, <2>1, <3>1, <3>3 DEF Missing, Forecast
  <2> QED
    BY <2>2, <2>3, <2>4, <2>5 DEF LossInv
<1>6. CASE ~RingFull
  <2>1. rx' = Append(rx, p) /\ list'.short = list.short
    BY Zenon, <1>1, <1>2, <1>6 DEF Notify, p
  <2>2. /\ rx' \in Seq(Packet)
        /\ \A k \in DOMAIN rx' : rx'[k].short => k \in DOMAIN rx /\ rx'[k] = rx[k]
    BY Zenon, <1>1, <1>4, <2>1, RingGrows
  <2>3. LossTypes'
    BY <1>1, <1>2, <2>2 DEF LossTypes
  <2>4. ShortEnds'
    <3>1. \A k \in DOMAIN rx' : rx'[k].short => rx'[k].type = "CONTACT_END"
      BY Zenon, <2>2 DEF LossInv, ShortEnds
    <3> QED
      BY Zenon, <1>2, <2>1, <3>1 DEF LossInv, ShortEnds
  <2>5. Fetched'
    <3>1. \A k \in DOMAIN rx' : rx'[k].short => list.full \/ \E j \in DOMAIN rx : rx[j].short
      BY Zenon, <2>2
    <3> QED
      BY Zenon, <1>2, <1>3, <3>1, FetchedStep DEF LossInv
  <2>6. Missing'
    <3>1. PICK d \in [0 .. Len(rx) -> Int] : Forecast(d)
      BY DEF LossInv, Missing
    <3> DEFINE n == d[Len(rx)] - 1
    <3>2. n \in Int /\ d[Len(rx)] \in Int
      BY <1>1 DEF LossTypes
    <3>3. Counts(p.type, d[Len(rx)], n)
      BY <1>4, <3>2 DEF Counts
    <3>4. list'.full => n >= list'.left + Dropped'
      BY <1>2, <2>1, <3>1, <3>2 DEF Forecast, Dropped
    <3>5. p.short => d[Len(rx)] > 0
      BY Zenon, <1>4
    <3> HIDE DEF n
    <3> QED
      BY <1>1, <1>4, <2>1, <3>1, <3>2, <3>3, <3>4, <3>5, PacketComes
  <2> QED
    BY <2>3, <2>4, <2>5, <2>6 DEF LossInv
<1> QED
  BY <1>5, <1>6

(* A list ends: when it is short, what has come of it leaves contacts missing. *)
LEMMA EndStep ==
  ASSUME LossInv, SyncInv, EndList
  PROVE  LossInv'
<1>1. /\ LossTypes /\ cl \in Queues /\ cl' = cl /\ hello' = hello /\ list.left = 0
      /\ list' = NoList /\ UNCHANGED <<seen, total, tries>>
      /\ Notify([type |-> "CONTACT_END", short |-> list.short])
  BY DEF LossInv, SyncInv, EndList, worker, book
<1>2. list.short \in BOOLEAN /\ list.full \in BOOLEAN /\ hello' \subseteq Info
  BY <1>1 DEF LossTypes
<1>3. Remembers(cl, cl')
  BY <1>1, SmallRemembers
<1> DEFINE p == [type |-> "CONTACT_END", short |-> list.short]
<1>4. p \in Packet /\ p.type = "CONTACT_END" /\ p.short = list.short
  BY <1>2 DEF Packet
<1>5. CASE rx' = rx
  BY <1>1, <1>2, <1>3, <1>5, ListStops
<1>6. CASE rx' = Append(rx, p)
  <2> HIDE DEF p
  <2>1. /\ list'.full = FALSE /\ list'.short = FALSE
        /\ list' \in [left : Int, full : BOOLEAN, short : BOOLEAN]
    BY <1>1 DEF NoList
  <2>2. /\ rx' \in Seq(Packet)
        /\ \A k \in DOMAIN rx' :
             \/ k \in DOMAIN rx /\ rx'[k] = rx[k]
             \/ k = Len(rx) + 1 /\ rx'[k] = p
    BY <1>1, <1>4, <1>6, RingGrows
  <2>3. LossTypes'
    BY <1>1, <1>2, <2>1, <2>2 DEF LossTypes
  <2>4. list.short => list.full
    BY DEF LossInv, ShortEnds
  <2>5. ShortEnds'
    <3>1. \A k \in DOMAIN rx' : rx'[k].short => rx'[k].type = "CONTACT_END"
      BY Zenon, <1>4, <2>2 DEF LossInv, ShortEnds
    <3> QED
      BY Zenon, <2>1, <3>1 DEF ShortEnds
  <2>6. Fetched'
    <3>1. \A k \in DOMAIN rx' : rx'[k].short => list.full \/ \E j \in DOMAIN rx : rx[j].short
      BY Zenon, <1>4, <2>2, <2>4
    <3>2. list'.full => list.full
      BY <2>1
    <3> QED
      BY Zenon, <1>3, <3>1, <3>2, FetchedStep DEF LossInv
  <2>7. Missing'
    <3>1. PICK d \in [0 .. Len(rx) -> Int] : Forecast(d)
      BY DEF LossInv, Missing
    <3>2. d[Len(rx)] \in Int
      BY <1>1 DEF LossTypes
    <3> DEFINE n == IF d[Len(rx)] < 0 THEN d[Len(rx)] ELSE 0
    <3>3. n \in Int /\ Counts(p.type, d[Len(rx)], n)
      BY <1>4, <3>2 DEF Counts
    <3>4. list.short => d[Len(rx)] > 0
      <4>1. list.short => d[Len(rx)] >= list.left + Dropped
        BY Zenon, <2>4, <3>1 DEF Forecast
      <4>2. list.short => Dropped = 1
        BY DEF Dropped
      <4> QED
        BY <1>1, <3>2, <4>1, <4>2
    <3>5. p.short => d[Len(rx)] > 0
      BY Zenon, <1>4, <3>4
    <3>6. list'.full => n >= list'.left + Dropped'
      BY Zenon, <2>1
    <3> HIDE DEF n
    <3> QED
      BY <1>1, <1>4, <1>6, <3>1, <3>3, <3>5, <3>6, PacketComes
  <2> QED
    BY <2>3, <2>5, <2>6, <2>7 DEF LossInv
<1> QED
  BY <1>1, <1>5, <1>6 DEF Notify

(* What the worker and the activities do to the queue. *)
LEMMA WorkerStep ==
  ASSUME LossInv, SyncInv, Risks = {}, Worker \/ Disconnect \/ UserCommand \/ LinkDrop
  PROVE  LossInv'
<1>1. cl \in Queues /\ hello \subseteq Info /\ LossInv
  BY DEF SyncInv, LossInv, LossTypes
<1>2. /\ Remembers(cl, cl)
      /\ \A a : Remembers(cl, [NoCmds EXCEPT !.full = cl.full, !.asked = a])
      /\ \A a : Remembers(cl, [cl EXCEPT !.asked = a])
  BY <1>1, SmallRemembers
<1>3. CASE LinkUp
  <2>1. /\ UNCHANGED <<rx, seen, total, tries, list>> /\ hello' \subseteq Info
        /\ cl' = [cl EXCEPT !.asked = {}]
    BY <1>3 DEF LinkUp, book
  <2>2. cl' \in Queues
    BY <1>1, <2>1 DEF Queues
  <2>3. Remembers(cl, cl')
    BY Zenon, <1>2, <2>1
  <2> QED
    BY <1>1, <2>1, <2>2, <2>3, QueueStep
<1>4. CASE LinkLost \/ InitBegins \/ InitDone \/ Connected
  <2>1. /\ UNCHANGED <<rx, cl, seen, total, tries, list>> /\ hello' \subseteq Info
    BY <1>1, <1>4 DEF LinkLost, InitBegins, InitDone, Connected, book
  <2> QED
    BY <1>1, <1>2, <2>1, QueueStep
<1>5. CASE InitTakes
  <2>1. Handle /\ UNCHANGED list /\ hello' \subseteq Info
    BY <1>1, <1>5 DEF InitTakes
  <2> QED
    BY <2>1, HandleStep
<1>6. CASE InitFails \/ Disconnect
  <2>1. /\ list' = NoList /\ rx' = <<>> /\ hello' \subseteq Info
        /\ cl' = [NoCmds EXCEPT !.full = cl.full, !.asked = cl.asked]
        /\ UNCHANGED <<seen, total, tries>>
    BY <1>6 DEF InitFails, Disconnect, TornDown, book
  <2>2. Remembers(cl, cl')
    BY Zenon, <1>2, <2>1
  <2> QED
    BY <2>1, <2>2, ListStops
<1>7. CASE LinkDrop
  <2>1. /\ list' = NoList /\ rx' = rx /\ hello' \subseteq Info /\ cl' = cl
        /\ UNCHANGED <<seen, total, tries>>
    BY <1>7 DEF LinkDrop, book
  <2> QED
    BY <1>2, <2>1, ListStops
<1>8. CASE UserCommand
  <2>1. /\ UNCHANGED <<rx, seen, total, tries, list, hello>>
        /\ cl' = Request(cl, Do("SEND_CHAN_MSG"))
    BY <1>8 DEF UserCommand, worker, book
  <2>2. Do("SEND_CHAN_MSG") \in Cmd /\ Do("SEND_CHAN_MSG").op # "GET_CONTACTS"
    BY Commands DEF Plain, Do
  <2>3. cl' \in Queues /\ Remembers(cl, cl')
    BY <1>1, <2>1, <2>2, RequestRemembers
  <2> QED
    BY <1>1, <2>1, <2>3, QueueStep
<1> QED
  BY <1>3, <1>4, <1>5, <1>6, <1>7, <1>8 DEF Worker

(* How poll() ends asks for no changed contacts. *)
LEMMA PollEndsHolds ==
  ASSUME LossInv, cl \in Queues, NEW c \in Queues, Remembers(cl, c), PollEnds(c)
  PROVE  LossInv'
<1>1. Sent(c) \in Queues /\ Remembers(c, Sent(c))
  BY SmallRemembers DEF Sent
<1>2. Remembers(cl, Sent(c))
  BY <1>1, RemembersTwice
<1>3. PICK e : e = Sent(c)
  OBVIOUS
<1>4. cl' = e \/ cl' = Request(e, Do("GET_MESSAGE"))
  BY <1>3 DEF PollEnds
<1>5. Do("GET_MESSAGE") \in Cmd /\ Do("GET_MESSAGE").op # "GET_CONTACTS"
  BY Commands DEF Plain, Do
<1>6. e \in Queues /\ Remembers(cl, e)
  BY <1>1, <1>2, <1>3
<1>7. /\ Request(e, Do("GET_MESSAGE")) \in Queues
      /\ Remembers(e, Request(e, Do("GET_MESSAGE")))
  BY <1>5, <1>6, RequestRemembers
<1>8. Remembers(cl, Request(e, Do("GET_MESSAGE")))
  BY <1>6, <1>7, RemembersTwice
<1>9. cl' \in Queues /\ Remembers(cl, cl')
  BY Zenon, <1>4, <1>6, <1>7, <1>8
<1>10. /\ UNCHANGED <<rx, seen, total, tries, list>> /\ hello' \subseteq Info
  BY DEF PollEnds, worker, LossInv, LossTypes
<1> QED
  BY <1>9, <1>10, QueueStep

LEMMA PollStep ==
  ASSUME LossInv, SyncInv, Risks = {}, Poll
  PROVE  LossInv'
<1>1. cl \in Queues /\ hello \subseteq Info /\ next \in Nat /\ Channels \in Nat
  BY SyncAssumption DEF SyncInv, LossInv, LossTypes
<1>2. /\ Remembers(cl, cl)
      /\ \A a : Remembers(cl, [NoCmds EXCEPT !.full = cl.full, !.asked = a])
  BY <1>1, SmallRemembers
<1>3. CASE PollLost
  <2>1. /\ UNCHANGED <<rx, seen, total, tries, list, hello>>
        /\ cl' = [NoCmds EXCEPT !.full = cl.full, !.asked = cl.asked]
    BY <1>3 DEF PollLost, book
  <2>2. cl' \in Queues
    BY <1>1, <2>1, EmptyQueue
  <2>3. Remembers(cl, cl')
    BY Zenon, <1>2, <2>1
  <2> QED
    BY <1>1, <2>1, <2>2, <2>3, QueueStep
<1>4. CASE PollEnter \/ RefillPauses
  <2>1. /\ UNCHANGED <<rx, cl, seen, total, tries, list, hello>>
    BY <1>4 DEF PollEnter, RefillPauses, worker, book
  <2> QED
    BY <1>1, <1>2, <2>1, QueueStep
<1>5. ASSUME NEW cmd \in Cmd, cmd.op # "GET_CONTACTS" \/ cmd = FullList,
             cl' = Request(cl, cmd),
             UNCHANGED <<rx, seen, total, tries, list, hello>>
      PROVE  LossInv'
  <2>1. cl' \in Queues /\ Remembers(cl, cl')
    BY <1>1, <1>5, RequestRemembers
  <2> QED
    BY <1>1, <1>5, <2>1, QueueStep
<1>6. CASE BurstBattery \/ BurstVars \/ BurstContacts \/ RefillEnds
  <2>1. PICK op \in {"GET_BATTERY", "GET_CUSTOM_VARS", "GET_CONTACTS", "GET_MESSAGE"} :
          /\ cl' = Request(cl, Do(op))
          /\ UNCHANGED <<rx, seen, total, tries, list, hello>>
    BY <1>6 DEF BurstBattery, BurstVars, BurstContacts, RefillEnds, Burst, worker, book
  <2>2. Do(op) \in Cmd /\ (Do(op).op # "GET_CONTACTS" \/ Do(op) = FullList)
    BY Commands DEF Plain, Do, FullList
  <2> QED
    BY <1>5, <2>1, <2>2
<1>7. CASE Refill
  <2> DEFINE cmd == [op |-> "GET_CHANNEL", arg |-> next]
  <2>1. /\ cl' = Request(cl, cmd) /\ next < Channels
        /\ UNCHANGED <<rx, seen, total, tries, list, hello>>
    BY <1>7 DEF Refill, worker, book
  <2>2. cmd \in Cmd /\ cmd.op # "GET_CONTACTS"
    BY <1>1, <2>1, Commands
  <2> HIDE DEF cmd
  <2> QED
    BY <1>5, <2>1, <2>2
<1>8. CASE PollDrain
  <2>1. Handle /\ UNCHANGED list /\ hello' \subseteq Info
    BY <1>1, <1>8 DEF PollDrain, worker
  <2> QED
    BY <2>1, HandleStep
<1>9. CASE PollNoTimeout
  <2>1. PollEnds(cl)
    BY <1>9 DEF PollNoTimeout
  <2> QED
    BY <1>1, <1>2, <2>1, PollEndsHolds
<1>10. CASE PollTimeout
  <2>1. PICK b : b = [cl EXCEPT !.flight = Idle]
    OBVIOUS
  <2>2. b \in Queues /\ Remembers(cl, b)
    BY <1>1, <2>1, SmallRemembers
  <2>3. PICK c : c = SendNext(b)
    OBVIOUS
  <2>4. c \in Queues /\ Remembers(b, c)
    BY <2>2, <2>3, SmallRemembers
  <2>5. Remembers(cl, c)
    BY <1>1, <2>2, <2>4, RemembersTwice
  <2>6. PollEnds(Request(c, FullList)) \/ PollEnds(c)
    BY Zenon, <1>10, <2>1, <2>3 DEF PollTimeout
  <2>7. Request(c, FullList) \in Queues /\ Remembers(c, Request(c, FullList))
    BY <2>4, Commands, RequestRemembers
  <2>8. Remembers(cl, Request(c, FullList))
    BY <1>1, <2>4, <2>5, <2>7, RemembersTwice
  <2> QED
    BY <1>1, <2>4, <2>5, <2>6, <2>7, <2>8, PollEndsHolds
<1> QED
  BY <1>3, <1>4, <1>6, <1>7, <1>8, <1>9, <1>10 DEF Poll, PollGoesOn

(* What the companion sends. *)
LEMMA CompanionStep ==
  ASSUME LossInv, SyncInv, Risks = {}, Companion
  PROVE  LossInv'
<1>1. cl \in Queues /\ hello \subseteq Info
  BY DEF SyncInv, LossInv, LossTypes
<1>2. Remembers(cl, cl)
  BY <1>1, SmallRemembers
<1> DEFINE None == {"CONTACT_START", "CONTACT", "CONTACT_END"}
<1>3. \A type : Bare(type).type = type /\ Bare(type).short = FALSE
  BY DEF Bare
<1>4. ASSUME NEW c \in Cmd, Answer(c) \/ AnswerMessage(c)
      PROVE  LossInv'
  <2>1. /\ cl.wire # <<>> /\ cl' = [cl EXCEPT !.wire = Tail(cl.wire)]
        /\ UNCHANGED <<seen, total, tries, list, hello>>
    BY <1>4 DEF Answer, AnswerMessage, Takes, worker, book
  <2>2. cl.wire \in Seq(Cmd)
    BY <1>1 DEF Queues
  <2>3. /\ Tail(cl.wire) \in Seq(Cmd)
        /\ Elements(Tail(cl.wire)) \subseteq Elements(cl.wire)
    BY <2>1, <2>2, TailElements
  <2>4. /\ cl' \in Queues /\ cl'.full = cl.full /\ cl'.queue = cl.queue
        /\ cl'.wire = Tail(cl.wire)
    BY <1>1, <2>1, <2>3 DEF Queues
  <2>5. Remembers(cl, cl')
    BY <2>3, <2>4 DEF Remembers, Held
  <2>6. PICK type \in {"ERROR", "BATTERY", "CUSTOM_VARS", "CHANNEL_INFO", "NO_MORE_MSGS",
                       "OK", "CONTACT_MSG"} : Notify(Bare(type)) \/ UNCHANGED rx
    BY <1>4 DEF Answer, AnswerMessage, Reply, Response
  <2>7. /\ Bare(type) \in Packet /\ type \notin None /\ type # "NEW_ADVERT"
    BY DEF Bare, Packet
  <2> QED
    BY <1>1, <1>3, <2>1, <2>4, <2>5, <2>6, <2>7, NotifyStep
<1>5. CASE Greet
  <2>1. PICK type \in hello : Notify(Bare(type)) /\ hello' = hello \ {type}
    BY <1>5 DEF Greet
  <2>2. UNCHANGED <<seen, total, tries, list, cl>>
    BY <1>5 DEF Greet, book
  <2>3. /\ Bare(type) \in Packet /\ type \notin None /\ type # "NEW_ADVERT"
    BY <1>1 DEF Bare, Packet, Info
  <2> QED
    BY <1>1, <1>2, <1>3, <2>1, <2>2, <2>3, NotifyStep
<1>6. CASE Push
  <2>1. PICK type \in Pushes : Notify(Bare(type)) /\ (type = "NEW_ADVERT" => Calm)
    BY <1>6 DEF Push
  <2>2. UNCHANGED <<seen, total, tries, list, cl, hello>>
    BY <1>6 DEF Push, worker, book
  <2>3. /\ Bare(type) \in Packet /\ type \notin None
        /\ (type = "NEW_ADVERT" => ~list.full)
    BY <2>1 DEF Bare, Packet, Pushes, Calm
  <2> QED
    BY <1>1, <1>2, <1>3, <2>1, <2>2, <2>3, NotifyStep
<1> QED
  BY <1>4, <1>5, <1>6, StartStep, ContactStep, EndStep DEF Companion

(* Every reachable state bounds what the lists under way will be found to miss. *)
THEOREM LossInvariant == ASSUME Risks = {} PROVE Spec => []LossInv
<1>1. Init => LossInv
  <2> SUFFICES ASSUME Init PROVE LossInv
    OBVIOUS
  <2>1. /\ rx = <<>> /\ seen = 0 /\ total = 0 /\ tries = 0 /\ list = NoList
        /\ hello = {} /\ cl.full = TRUE
    BY DEF Init, NoCmds
  <2>2. /\ list.full = FALSE /\ list.short = FALSE /\ <<>> \in Seq(Packet)
        /\ DOMAIN <<>> = {} /\ Len(rx) = 0
        /\ list \in [left : Int, full : BOOLEAN, short : BOOLEAN]
    BY <2>1 DEF NoList
  <2>3. LossTypes
    BY <2>1, <2>2, SyncAssumption DEF LossTypes
  <2>4. ShortEnds /\ Fetched
    BY <2>1, <2>2 DEF ShortEnds, Fetched
  <2> DEFINE d == [k \in 0 .. 0 |-> 0]
  <2>5. d \in [0 .. Len(rx) -> Int] /\ d[0] = 0
    BY <2>2
  <2> HIDE DEF d
  <2>6. Missing
    BY <2>1, <2>2, <2>5 DEF Missing, Forecast
  <2> QED
    BY <2>3, <2>4, <2>6 DEF LossInv
<1>2. LossInv /\ SyncInv /\ [Next]_vars => LossInv'
  <2> SUFFICES ASSUME LossInv, SyncInv, [Next]_vars PROVE LossInv'
    OBVIOUS
  <2>1. CASE Next
    BY <2>1, WorkerStep, PollStep, CompanionStep DEF Next
  <2>2. CASE UNCHANGED vars
    <3>1. /\ UNCHANGED <<rx, cl, seen, total, tries, list, hello>>
      BY <2>2 DEF vars, worker, book
    <3>2. cl \in Queues /\ hello \subseteq Info
      BY DEF SyncInv, LossInv, LossTypes
    <3>3. Remembers(cl, cl)
      BY <3>2, SmallRemembers
    <3> QED
      BY <3>1, <3>2, <3>3, QueueStep
  <2> QED
    BY <2>1, <2>2
<1> QED
  BY <1>1, <1>2, SyncInvariant, PTL DEF Spec

(* A sequence is neither its own tail nor made from it by adding an element. *)
LEMMA TailShrinks ==
  ASSUME NEW S, NEW s \in Seq(S), s # <<>>
  PROVE  Tail(s) # s /\ \A x : Append(s, x) # Tail(s)
<1> PICK t : t = Tail(s)
  OBVIOUS
<1>1. Len(s) \in Nat \ {0} /\ Len(t) = Len(s) - 1
  BY TailElements
<1>2. ASSUME NEW x PROVE Len(Append(s, x)) = Len(s) + 1
  <2>1. s \in [1 .. Len(s) -> S \cup {x}]
    OBVIOUS
  <2>2. s \in Seq(S \cup {x})
    BY <1>1, <2>1
  <2> QED
    BY <2>2
<1> PICK n : n = Len(s)
  OBVIOUS
<1>3. n - 1 # n /\ n - 1 # n + 1
  BY <1>1
<1>4. ASSUME NEW x PROVE Append(s, x) # t
  <2> PICK a : a = Append(s, x)
    OBVIOUS
  <2>1. Len(a) = n + 1
    BY <1>2
  <2>2. Len(t) = n - 1
    BY <1>1
  <2> QED
    BY Zenon, <1>3, <2>1, <2>2
<1>5. t # s
  BY Zenon, <1>1, <1>3
<1> QED
  BY Zenon, <1>4, <1>5

(* Only handling a packet takes it from the ring, short of a disconnect. *)
LEMMA OnlyHandling ==
  ASSUME LossTypes, Next, rx # <<>>, rx' = Tail(rx), phase' = phase
  PROVE  Handle
<1>1. rx \in Seq(Packet)
  BY DEF LossTypes
<1>2. rx' # rx
  BY <1>1, TailShrinks
<1>3. ASSUME NEW p PROVE ~Notify(p)
  BY <1>1, <1>2, TailShrinks DEF Notify
<1>4. ~(LinkUp \/ LinkLost \/ InitBegins \/ InitDone \/ Connected)
  BY <1>2 DEF LinkUp, LinkLost, InitBegins, InitDone, Connected
<1>5. ~(InitFails \/ Disconnect)
  BY DEF InitFails, Disconnect, TornDown
<1>6. ~(PollLost \/ PollEnter \/ BurstBattery \/ BurstVars \/ BurstContacts)
  BY <1>2 DEF PollLost, PollEnter, BurstBattery, BurstVars, BurstContacts, Burst
<1>7. ~(Refill \/ RefillPauses \/ RefillEnds)
  BY <1>2 DEF Refill, RefillPauses, RefillEnds
<1>8. ~(PollNoTimeout \/ PollTimeout)
  BY <1>2 DEF PollNoTimeout, PollTimeout, PollEnds
<1>9. ~(UserCommand \/ LinkDrop)
  BY <1>2 DEF UserCommand, LinkDrop
<1>10. ~Companion
  BY <1>2, <1>3 DEF Companion, Answer, AnswerMessage, StartList, Greet, SendContact,
                    EndList, Push
<1> QED
  BY <1>4, <1>5, <1>6, <1>7, <1>8, <1>9, <1>10
     DEF Next, Worker, Poll, PollGoesOn, InitTakes, PollDrain

(* "Contacts do not silently vanish": however the packets of a full list are  *)
(* lost between the companion and the hub, at the end of a list that came     *)
(* short the hub counts fewer contacts than were announced, and asks again    *)
(* unless its retries are used up or the queue refuses.                      *)
THEOREM NoSilentLossTheorem == ASSUME Risks = {} PROVE Spec => NoSilentLoss
<1>1. ASSUME LossInv, SyncInv, Next, rx # <<>>, Head(rx).short, rx' = Tail(rx), phase' = phase
      PROVE  \/ FullList \in Outstanding(cl')
             \/ tries = MAX_CONTACT_SYNC_RETRIES
             \/ ~Accepts(Respond(cl, "CONTACT_END"))
  <2>1. LossTypes /\ cl \in Queues /\ Handle
    BY <1>1, OnlyHandling DEF LossInv, SyncInv
  <2>2. /\ Len(rx) \in Nat \ {0} /\ Head(rx) = rx[1] /\ 1 \in DOMAIN rx
        /\ 1 \in 1 .. Len(rx) /\ 1 - 1 = 0
    BY <1>1, <2>1, TailElements, RestOfRing DEF LossTypes
  <2>3. Head(rx).type = "CONTACT_END"
    BY Zenon, <1>1, <2>2 DEF LossInv, ShortEnds
  <2>4. cl.full
    BY Zenon, <1>1, <2>2 DEF LossInv, Fetched
  <2>5. seen < total
    <3>1. PICK d \in [0 .. Len(rx) -> Int] : Forecast(d)
      BY <1>1 DEF LossInv, Missing
    <3>2. d[0] > 0
      <4>1. rx[1].short
        BY Zenon, <1>1, <2>2
      <4>2. rx[1].short => d[1 - 1] > 0
        BY Zenon, <2>2, <3>1 DEF Forecast
      <4> QED
        BY <4>1, <4>2
    <3>3. d[0] <= total - seen /\ d[0] \in Int
      BY <2>2, <3>1 DEF Forecast
    <3> QED
      BY <2>1, <3>2, <3>3 DEF LossTypes
  <2>6. ListEnds(Head(rx))
    BY <2>1, <2>3 DEF Handle, ListStarts, ListGrows, OtherPacket
  <2> DEFINE c == Respond(cl, "CONTACT_END")
  <2>7. tries = MAX_CONTACT_SYNC_RETRIES \/ cl' = Request(c, FullList)
    <3>1. tries < MAX_CONTACT_SYNC_RETRIES \/ tries = MAX_CONTACT_SYNC_RETRIES
      BY <2>1, SyncAssumption DEF LossTypes
    <3> QED
      BY Zenon, <2>3, <2>4, <2>5, <2>6, <3>1 DEF ListEnds
  <2>8. c \in Queues /\ FullList \in Cmd
    BY <2>1, SmallRemembers, Commands
  <2> HIDE DEF c
  <2>9. Accepts(c) => FullList \in Outstanding(Request(c, FullList))
    BY <2>8, RequestHolds
  <2> QED
    BY Zenon, <2>7, <2>9 DEF c
<1>2. LossInv /\ SyncInv /\ [Next]_vars =>
        [rx # <<>> /\ Head(rx).short /\ rx' = Tail(rx) /\ phase' = phase =>
           \/ FullList \in Outstanding(cl')
           \/ tries = MAX_CONTACT_SYNC_RETRIES
           \/ ~Accepts(Respond(cl, "CONTACT_END"))]_vars
  BY <1>1
<1> QED
  BY <1>2, LossInvariant, SyncInvariant, PTL DEF Spec, NoSilentLoss

-----------------------------------------------------------------------------
(* The queue and the ring keep to their sizes, and every count to its bound. *)

Fits(c) == c \in Queues /\ Len(c.queue) <= CMD_QUEUE_SIZE

LEMMA SendNextFits ==
  ASSUME NEW c, Fits(c)
  PROVE  Fits(SendNext(c))
<1>1. SendNext(c) \in Queues
  BY SendNextExtends DEF Fits, Extends
<1>2. CASE c.queue = <<>> \/ ~link \/ Len(c.wire) = MaxWire
  BY <1>2 DEF SendNext, Fits
<1>3. CASE ~(c.queue = <<>> \/ ~link \/ Len(c.wire) = MaxWire)
  <2> PICK s : s = c.queue
    OBVIOUS
  <2>1. s \in Seq(Cmd) /\ s # <<>> /\ Len(s) <= CMD_QUEUE_SIZE
    BY <1>3 DEF Fits, Queues
  <2>2. Len(Tail(s)) = Len(s) - 1 /\ Len(s) \in Nat
    BY <2>1, TailElements
  <2>3. Len(Tail(s)) <= CMD_QUEUE_SIZE
    BY <2>1, <2>2, SyncAssumption
  <2>4. SendNext(c).queue = Tail(s)
    BY <1>3 DEF SendNext, Fits, Queues
  <2> QED
    BY Zenon, <1>1, <2>3, <2>4 DEF Fits
<1> QED
  BY <1>2, <1>3

(* enqueueCmd refuses when the queue is full. *)
LEMMA RequestFits ==
  ASSUME NEW c, Fits(c), NEW cmd \in Cmd
  PROVE  Fits(Request(c, cmd))
<1> DEFINE d == IF cmd.op = "GET_CONTACTS" THEN [c EXCEPT !.full = cmd.arg = 0] ELSE c
           e == [d EXCEPT !.queue = Append(d.queue, cmd), !.asked = d.asked \cup {cmd}]
<1>1. d \in Queues /\ d.queue = c.queue
  BY DEF Queues, Fits
<1>2. /\ Append(d.queue, cmd) \in Seq(Cmd)
      /\ Len(Append(d.queue, cmd)) = Len(d.queue) + 1 /\ Len(d.queue) \in Nat
  <2>1. d.queue \in Seq(Cmd)
    BY <1>1 DEF Queues
  <2> QED
    BY <2>1
<1>3. Fits(d)
  BY <1>1 DEF Fits
<1> HIDE DEF d
<1>4. e \in Queues /\ e.queue = Append(d.queue, cmd)
  BY <1>1, <1>2 DEF Queues
<1> HIDE DEF e
<1>5. Accepts(d) => Len(d.queue) < CMD_QUEUE_SIZE
  BY DEF Accepts
<1>6. Accepts(d) => Len(d.queue) + 1 <= CMD_QUEUE_SIZE
  BY <1>2, <1>5, SyncAssumption
<1>7. Accepts(d) => Fits(e)
  BY <1>2, <1>4, <1>6 DEF Fits
<1>8. Request(c, cmd) = IF ~Accepts(d) THEN d
                        ELSE IF e.flight = Idle THEN SendNext(e) ELSE e
  BY DEF Request, d, e
<1> QED
  BY <1>3, <1>7, <1>8, SendNextFits

LEMMA RestFits ==
  ASSUME NEW c, Fits(c)
  PROVE  /\ \A type : Fits(Respond(c, type))
         /\ Fits([c EXCEPT !.flight = Idle])
         /\ Fits([c EXCEPT !.asked = {}])
         /\ Fits([NoCmds EXCEPT !.full = c.full, !.asked = c.asked])
         /\ c.wire # <<>> => Fits([c EXCEPT !.wire = Tail(c.wire)])
<1>1. Fits([c EXCEPT !.flight = Idle]) /\ Fits([c EXCEPT !.asked = {}])
  BY Commands DEF Fits, Queues
<1>2. \A type : Fits(Respond(c, type))
  BY <1>1 DEF Respond
<1>3. Fits([NoCmds EXCEPT !.full = c.full, !.asked = c.asked])
  <2> PICK d : d = [NoCmds EXCEPT !.full = c.full, !.asked = c.asked]
    OBVIOUS
  <2>1. d \in Queues /\ d.queue = <<>>
    BY EmptyQueue DEF Fits, NoCmds
  <2>2. Len(<<>>) = 0 /\ 0 <= CMD_QUEUE_SIZE
    BY SyncAssumption
  <2> QED
    BY <2>1, <2>2 DEF Fits
<1>4. c.wire # <<>> => Fits([c EXCEPT !.wire = Tail(c.wire)])
  <2> PICK w : w = c.wire
    OBVIOUS
  <2>1. w # <<>> => Tail(w) \in Seq(Cmd)
    BY TailElements DEF Fits, Queues
  <2> QED
    BY <2>1 DEF Fits, Queues
<1> QED
  BY <1>1, <1>2, <1>3, <1>4

Flags == /\ phase \in {"down", "handshake", "init", "asked", "up"} /\ link \in BOOLEAN
         /\ hello \subseteq Info /\ heard \subseteq Info
         /\ initial \in BOOLEAN /\ sync \in BOOLEAN
         /\ pc \in {"idle", "battery", "vars", "contacts", "refill", "drain"}

RingFits == rx \in Seq(Packet) /\ Len(rx) < RX_QUEUE_SIZE

Book == /\ latest \in {0, 1} /\ retries \in 0 .. MAX_CONTACT_RETRIES
        /\ tries \in 0 .. MAX_CONTACT_SYNC_RETRIES
        /\ seen \in Nat /\ total \in 0 .. Contacts

Streams == list \in [left : -1 .. Contacts, full : BOOLEAN, short : BOOLEAN]

Spent == next \in 0 .. Channels /\ extras \in 0 .. MaxExtras

Typed == Flags /\ Fits(cl) /\ RingFits /\ Book /\ Streams /\ Spent

LEMMA TypedParts == Typed => SyncTypeOK
<1> SUFFICES ASSUME Typed PROVE SyncTypeOK
  OBVIOUS
<1>1. /\ cl.queue \in Seq(Cmd) /\ cl.flight \in Cmd /\ cl.wire \in Seq(Cmd)
      /\ cl.full \in BOOLEAN /\ cl.asked \subseteq Cmd
  BY DEF Typed, Fits, Queues
<1> QED
  BY Zenon, <1>1 DEF Typed, SyncTypeOK, Flags, Fits, RingFits, Book, Streams, Spent

(* notifyCallback drops what finds the ring full: one slot stays unused. *)
LEMMA NotifyFits ==
  ASSUME RingFits, NEW p \in Packet, Notify(p) \/ UNCHANGED rx
  PROVE  RingFits'
<1> PICK s : s = rx
  OBVIOUS
<1>1. /\ s \in Seq(Packet) /\ Len(s) \in Nat /\ Len(s) < RX_QUEUE_SIZE
      /\ Append(s, p) \in Seq(Packet) /\ Len(Append(s, p)) = Len(s) + 1
      /\ RX_QUEUE_SIZE \in Nat
  BY SyncAssumption DEF RingFits
<1>2. CASE rx' = s
  BY <1>1, <1>2 DEF RingFits
<1>3. CASE ~RingFull /\ rx' = Append(s, p)
  <2>1. Len(s) + 1 # RX_QUEUE_SIZE
    BY <1>3 DEF RingFull
  <2>2. Len(Append(s, p)) < RX_QUEUE_SIZE
    BY <1>1, <2>1
  <2> QED
    BY Zenon, <1>1, <1>3, <2>2 DEF RingFits
<1> QED
  BY Zenon, <1>2, <1>3 DEF Notify

(* Handling a packet: a retry is counted up to its limit. *)
LEMMA HandleTypes ==
  ASSUME RingFits, Book, Fits(cl), Handle
  PROVE  RingFits' /\ Book' /\ Fits(cl')
<1>1. PICK p : /\ ListStarts(p) \/ ListGrows(p) \/ ListEnds(p) \/ OtherPacket(p)
  BY DEF Handle
<1>2. RingFits'
  <2> PICK s : s = rx
    OBVIOUS
  <2>1. s \in Seq(Packet) /\ s # <<>> /\ Len(s) < RX_QUEUE_SIZE /\ rx' = Tail(s)
    BY DEF RingFits, Handle
  <2>2. Tail(s) \in Seq(Packet) /\ Len(Tail(s)) = Len(s) - 1 /\ Len(s) \in Nat
    BY <2>1, TailElements
  <2>3. Len(Tail(s)) < RX_QUEUE_SIZE
    BY <2>1, <2>2, SyncAssumption
  <2> QED
    BY Zenon, <2>1, <2>2, <2>3 DEF RingFits
<1>3. Book'
  <2>1. /\ MAX_CONTACT_SYNC_RETRIES \in Nat /\ Contacts \in Nat /\ MAX_CONTACT_RETRIES \in Nat
    BY SyncAssumption
  <2>2. CASE ListStarts(p)
    BY <2>1, <2>2 DEF ListStarts, Book
  <2>3. CASE ListGrows(p)
    BY <2>1, <2>3 DEF ListGrows, Book
  <2>4. CASE ListEnds(p)
    BY <2>1, <2>4 DEF ListEnds, Book
  <2>5. CASE OtherPacket(p)
    BY <2>5 DEF OtherPacket, Book, book
  <2> QED
    BY <1>1, <2>2, <2>3, <2>4, <2>5
<1>4. Fits(cl')
  <2> PICK c : c = Respond(cl, p.type)
    OBVIOUS
  <2>1. Fits(c)
    BY RestFits
  <2>2. \/ cl' = c \/ cl' = Request(c, FullList)
        \/ cl' = Request(c, Do("GET_MESSAGE"))
        \/ cl' = Request(c, [op |-> "GET_CONTACTS", arg |-> latest])
    BY <1>1 DEF ListStarts, ListGrows, ListEnds, OtherPacket
  <2>3. /\ FullList \in Cmd /\ Do("GET_MESSAGE") \in Cmd
        /\ [op |-> "GET_CONTACTS", arg |-> latest] \in Cmd
    BY Commands DEF Plain, Book
  <2> QED
    BY <2>1, <2>2, <2>3, RequestFits
<1> QED
  BY <1>2, <1>3, <1>4

LEMMA WorkerTypes ==
  ASSUME Typed, Worker \/ Disconnect \/ UserCommand \/ LinkDrop
  PROVE  Typed'
<1>1. /\ Flags /\ Fits(cl) /\ RingFits /\ Book /\ Streams /\ Spent
      /\ MaxExtras \in Nat /\ Contacts \in Nat /\ Channels \in Nat
  BY SyncAssumption DEF Typed
<1>2. Flags'
  BY <1>1 DEF Worker, LinkUp, LinkLost, InitBegins, InitTakes, InitDone, Connected, InitFails,
              Disconnect, UserCommand, LinkDrop, TornDown, Flags, worker, syncs, Info
<1>3. Spent'
  BY <1>1 DEF Worker, LinkUp, LinkLost, InitBegins, InitTakes, InitDone, Connected, InitFails,
              Disconnect, UserCommand, LinkDrop, TornDown, Spent, Extra, worker, syncs
<1>4. Streams'
  <2>1. list' = list \/ list' = NoList
    BY DEF Worker, LinkUp, LinkLost, InitBegins, InitTakes, InitDone, Connected, InitFails,
           Disconnect, UserCommand, LinkDrop, TornDown
  <2>2. NoList \in [left : -1 .. Contacts, full : BOOLEAN, short : BOOLEAN]
    BY <1>1 DEF NoList
  <2> QED
    BY Zenon, <1>1, <2>1, <2>2 DEF Streams
<1>5. \/ Handle
      \/ /\ UNCHANGED book /\ rx' \in {rx, <<>>}
         /\ \/ cl' = cl \/ cl' = [cl EXCEPT !.asked = {}]
            \/ cl' = Request(cl, Do("SEND_CHAN_MSG"))
            \/ cl' = [NoCmds EXCEPT !.full = cl.full, !.asked = cl.asked]
  BY DEF Worker, LinkUp, LinkLost, InitBegins, InitTakes, InitDone, Connected, InitFails,
         Disconnect, UserCommand, LinkDrop, TornDown
<1>6. CASE Handle
  BY <1>1, <1>2, <1>3, <1>4, <1>6, HandleTypes DEF Typed
<1>7. CASE /\ UNCHANGED book /\ rx' \in {rx, <<>>}
           /\ \/ cl' = cl \/ cl' = [cl EXCEPT !.asked = {}]
              \/ cl' = Request(cl, Do("SEND_CHAN_MSG"))
              \/ cl' = [NoCmds EXCEPT !.full = cl.full, !.asked = cl.asked]
  <2>1. Book'
    BY <1>1, <1>7 DEF Book, book
  <2>2. RingFits'
    <3>1. <<>> \in Seq(Packet) /\ Len(<<>>) = 0 /\ 0 < RX_QUEUE_SIZE
      BY SyncAssumption
    <3> QED
      BY Zenon, <1>1, <1>7, <3>1 DEF RingFits
  <2>3. Do("SEND_CHAN_MSG") \in Cmd
    BY Commands DEF Plain
  <2>4. Fits(cl')
    BY Zenon, <1>1, <1>7, <2>3, RequestFits, RestFits
  <2> QED
    BY <1>2, <1>3, <1>4, <2>1, <2>2, <2>4 DEF Typed
<1> QED
  BY <1>5, <1>6, <1>7

LEMMA PollTypes ==
  ASSUME Typed, Poll
  PROVE  Typed'
<1>1. /\ Flags /\ Fits(cl) /\ RingFits /\ Book /\ Streams /\ Spent
      /\ MaxExtras \in Nat /\ Channels \in Nat /\ MAX_CONTACT_RETRIES \in Nat
  BY SyncAssumption DEF Typed
<1>2. Flags'
  BY <1>1 DEF Poll, PollGoesOn, PollLost, PollEnter, BurstBattery, BurstVars, BurstContacts,
     Burst, Refill, RefillPauses, RefillEnds, PollDrain, PollNoTimeout, PollTimeout,
     PollEnds, Flags, worker, syncs
<1>3. Spent'
  BY <1>1 DEF Poll, PollGoesOn, PollLost, PollEnter, BurstBattery, BurstVars, BurstContacts,
     Burst, Refill, RefillPauses, RefillEnds, PollDrain, PollNoTimeout, PollTimeout,
     PollEnds, Spent, syncs
<1>4. Streams'
  <2>1. list' = list
    BY DEF Poll, PollGoesOn, PollLost, PollEnter, BurstBattery, BurstVars, BurstContacts,
       Burst, Refill, RefillPauses, RefillEnds, PollDrain, PollNoTimeout, PollTimeout, PollEnds
  <2> QED
    BY <1>1, <2>1 DEF Streams
<1>5. CASE PollDrain
  <2>1. Handle
    BY <1>5 DEF PollDrain
  <2> QED
    BY <1>1, <1>2, <1>3, <1>4, <2>1, HandleTypes DEF Typed
<1>6. CASE Poll /\ ~PollDrain
  <2>1. RingFits'
    <3>1. rx' = rx
      BY <1>6 DEF Poll, PollGoesOn, PollLost, PollEnter, BurstBattery, BurstVars,
         BurstContacts, Burst, Refill, RefillPauses, RefillEnds, PollNoTimeout, PollTimeout,
         PollEnds
    <3> QED
      BY <1>1, <3>1 DEF RingFits
  <2>2. Book'
    BY <1>1, <1>6 DEF Poll, PollGoesOn, PollLost, PollEnter, BurstBattery, BurstVars,
       BurstContacts, Burst, Refill, RefillPauses, RefillEnds, PollNoTimeout, PollTimeout,
       PollEnds, Book, book
  <2>3. Fits(cl')
    <3>1. ASSUME NEW c, Fits(c), PollEnds(c) PROVE Fits(cl')
      <4>1. Fits(Sent(c))
        BY <3>1, SendNextFits DEF Sent
      <4>2. cl' = Sent(c) \/ cl' = Request(Sent(c), Do("GET_MESSAGE"))
        BY <3>1 DEF PollEnds
      <4>3. Do("GET_MESSAGE") \in Cmd
        BY Commands DEF Plain
      <4> QED
        BY Zenon, <4>1, <4>2, <4>3, RequestFits
    <3>2. CASE PollLost
      BY Zenon, <1>1, <3>2, RestFits DEF PollLost
    <3>3. CASE PollEnter \/ RefillPauses
      BY <1>1, <3>3 DEF PollEnter, RefillPauses
    <3>4. CASE BurstBattery \/ BurstVars \/ BurstContacts \/ RefillEnds
      <4>1. PICK op \in {"GET_BATTERY", "GET_CUSTOM_VARS", "GET_CONTACTS", "GET_MESSAGE"} :
              cl' = Request(cl, Do(op))
        BY <3>4 DEF BurstBattery, BurstVars, BurstContacts, RefillEnds, Burst
      <4>2. Do(op) \in Cmd
        BY Commands DEF Plain
      <4> QED
        BY Zenon, <1>1, <4>1, <4>2, RequestFits
    <3>5. CASE Refill
      <4>1. cl' = Request(cl, [op |-> "GET_CHANNEL", arg |-> next])
            /\ next \in 0 .. Channels - 1
        BY <1>1, <3>5 DEF Refill, Spent
      <4>2. [op |-> "GET_CHANNEL", arg |-> next] \in Cmd
        BY <4>1, Commands
      <4> QED
        BY Zenon, <1>1, <4>1, <4>2, RequestFits
    <3>6. CASE PollNoTimeout
      <4>1. PollEnds(cl)
        BY <3>6 DEF PollNoTimeout
      <4> QED
        BY <1>1, <3>1, <4>1
    <3>7. CASE PollTimeout
      <4>1. PICK c : c = SendNext([cl EXCEPT !.flight = Idle])
        OBVIOUS
      <4>2. Fits(c)
        BY Zenon, <1>1, <4>1, RestFits, SendNextFits
      <4>3. PollEnds(Request(c, FullList)) \/ PollEnds(c)
        BY Zenon, <3>7, <4>1 DEF PollTimeout
      <4>4. Fits(Request(c, FullList))
        BY <4>2, Commands, RequestFits
      <4> QED
        BY <3>1, <4>2, <4>3, <4>4
    <3> QED
      BY <1>6, <3>2, <3>3, <3>4, <3>5, <3>6, <3>7 DEF Poll, PollGoesOn
  <2> QED
    BY <1>2, <1>3, <1>4, <2>1, <2>2, <2>3 DEF Typed
<1> QED
  BY <1>5, <1>6

LEMMA CompanionTypes ==
  ASSUME Typed, Companion
  PROVE  Typed'
<1>1. /\ Flags /\ Fits(cl) /\ RingFits /\ Book /\ Streams /\ Spent
      /\ MaxExtras \in Nat /\ Contacts \in Nat
  BY SyncAssumption DEF Typed
<1>2. Flags'
  BY <1>1 DEF Companion, Answer, AnswerMessage, StartList, Greet, SendContact, EndList,
              Push, Flags, worker, syncs
<1>3. Spent'
  BY <1>1 DEF Companion, Answer, AnswerMessage, StartList, Greet, SendContact, EndList,
              Push, Spent, Extra, syncs
<1>4. Book'
  BY <1>1 DEF Companion, Answer, AnswerMessage, StartList, Greet, SendContact, EndList,
              Push, Book, book
<1>5. Fits(cl')
  <2>1. cl' = cl \/ (cl.wire # <<>> /\ cl' = [cl EXCEPT !.wire = Tail(cl.wire)])
    BY DEF Companion, Answer, AnswerMessage, StartList, Greet, SendContact, EndList,
           Push, Takes
  <2> QED
    BY Zenon, <1>1, <2>1, RestFits
<1>6. RingFits'
  <2>1. UNCHANGED rx \/ \E p \in Packet : Notify(p)
    <3>1. \A type \in {"SELF_INFO", "DEVICE_INFO", "MSGS_WAITING", "ADVERTISEMENT",
                       "NEW_ADVERT", "BATTERY", "CUSTOM_VARS", "CHANNEL_INFO",
                       "CONTACT_START", "CONTACT", "CONTACT_MSG", "OK", "NO_MORE_MSGS",
                       "ERROR"} : Bare(type) \in Packet
      BY DEF Bare, Packet, Info, Pushes
    <3>2. ASSUME NEW c \in Cmd, Answer(c) PROVE UNCHANGED rx \/ \E p \in Packet : Notify(p)
      <4>1. Reply(c) \in {"ERROR", "BATTERY", "CUSTOM_VARS", "CHANNEL_INFO", "NO_MORE_MSGS",
                         "OK"}
        BY DEF Reply, Response
      <4>2. Bare(Reply(c)) \in Packet
        BY <3>1, <4>1
      <4> QED
        BY Zenon, <3>2, <4>2 DEF Answer
    <3>3. ASSUME NEW c \in Cmd, AnswerMessage(c) \/ StartList(c)
          PROVE  \E p \in Packet : Notify(p)
      BY <3>1, <3>3 DEF AnswerMessage, StartList
    <3>4. ASSUME Greet \/ Push \/ SendContact PROVE \E p \in Packet : Notify(p)
      BY <1>1, <3>1, <3>4 DEF Greet, Push, SendContact, Pushes, Info, Flags
    <3>5. ASSUME EndList PROVE \E p \in Packet : Notify(p)
      <4>1. list.short \in BOOLEAN
        BY <1>1 DEF Streams
      <4>2. [type |-> "CONTACT_END", short |-> list.short] \in Packet
        BY <4>1 DEF Packet
      <4> QED
        BY Zenon, <3>5, <4>2 DEF EndList
    <3> QED
      BY <3>2, <3>3, <3>4, <3>5 DEF Companion
  <2>2. Bare("OK") \in Packet
    BY DEF Bare, Packet
  <2> QED
    BY Zenon, <1>1, <2>1, <2>2, NotifyFits
<1>7. Streams'
  <2>1. CASE SendContact
    <3>1. /\ list.left > 0 /\ list \in [left : -1 .. Contacts, full : BOOLEAN, short : BOOLEAN]
          /\ list' = [list EXCEPT !.left  = list.left - 1,
                                  !.short = list.short \/ (list.full /\ RingFull)]
      BY <1>1, <2>1 DEF SendContact, Streams
    <3>2. PICK b \in BOOLEAN : b = (list.short \/ (list.full /\ RingFull))
      BY Zenon
    <3>3. PICK l \in -1 .. Contacts : l = list.left - 1
      BY <1>1, <3>1
    <3>4. list.full \in BOOLEAN
      BY <3>1
    <3>5. list' = [left |-> l, full |-> list.full, short |-> b]
      BY Zenon, <3>1, <3>2, <3>3
    <3> QED
      BY <3>2, <3>3, <3>4, <3>5 DEF Streams
  <2>2. CASE \E c \in Cmd : StartList(c)
    <3>1. PICK c \in Cmd : StartList(c)
      BY <2>2
    <3>2. PICK n \in (IF c.arg = 0 THEN {Contacts} ELSE 0 .. Contacts) :
            list' = [left |-> n, full |-> c.arg = 0, short |-> FALSE]
      BY <3>1 DEF StartList
    <3>3. PICK b \in BOOLEAN : b = (c.arg = 0)
      BY Zenon
    <3>4. n \in -1 .. Contacts
      BY <1>1, <3>2
    <3>5. list' = [left |-> n, full |-> b, short |-> FALSE]
      BY Zenon, <3>2, <3>3
    <3> QED
      BY <3>3, <3>4, <3>5 DEF Streams
  <2>3. CASE EndList
    <3>1. NoList \in [left : -1 .. Contacts, full : BOOLEAN, short : BOOLEAN]
      BY <1>1 DEF NoList
    <3> QED
      BY Zenon, <2>3, <3>1 DEF EndList, Streams
  <2>4. CASE Greet \/ Push \/ \E c \in Cmd : Answer(c) \/ AnswerMessage(c)
    <3>1. list' = list
      BY <2>4 DEF Greet, Push, Answer, AnswerMessage
    <3> QED
      BY <1>1, <3>1 DEF Streams
  <2> QED
    BY <2>1, <2>2, <2>3, <2>4 DEF Companion
<1> QED
  BY <1>2, <1>3, <1>4, <1>5, <1>6, <1>7 DEF Typed

(* The ring of received packets never overruns, the queue never takes more    *)
(* than CMD_QUEUE_SIZE commands, and the retries of the client and of the hub *)
(* and the refill stay within their limits.                                  *)
THEOREM SyncTypes == Spec => []SyncTypeOK
<1>1. Init => Typed
  <2> SUFFICES ASSUME Init PROVE Typed
    OBVIOUS
  <2>1. /\ Contacts \in Nat /\ Channels \in Nat /\ MaxExtras \in Nat /\ CMD_QUEUE_SIZE \in Nat
        /\ RX_QUEUE_SIZE \in Nat /\ 0 < RX_QUEUE_SIZE
        /\ MAX_CONTACT_RETRIES \in Nat /\ MAX_CONTACT_SYNC_RETRIES \in Nat
    BY SyncAssumption
  <2>2. /\ <<>> \in Seq(Packet) /\ <<>> \in Seq(Cmd) /\ Len(<<>>) = 0
    OBVIOUS
  <2>3. Flags
    BY DEF Init, Flags
  <2>4. Fits(cl)
    <3>1. NoCmds \in Queues
      BY <2>2, Commands DEF NoCmds, Queues
    <3>2. NoCmds.queue = <<>>
      BY DEF NoCmds
    <3>3. cl = NoCmds
      BY DEF Init
    <3> QED
      BY <2>1, <2>2, <3>1, <3>2, <3>3 DEF Fits
  <2>5. RingFits /\ Book /\ Spent
    BY <2>1, <2>2 DEF Init, RingFits, Book, Spent
  <2>6. Streams
    BY <2>1 DEF Init, NoList, Streams
  <2> QED
    BY <2>3, <2>4, <2>5, <2>6 DEF Typed
<1>2. Typed /\ [Next]_vars => Typed'
  <2> SUFFICES ASSUME Typed, [Next]_vars PROVE Typed'
    OBVIOUS
  <2>1. CASE Next
    BY <2>1, WorkerTypes, PollTypes, CompanionTypes DEF Next
  <2>2. CASE UNCHANGED vars
    <3>1. UNCHANGED <<phase, link, hello, heard, initial, sync, next, cl, rx, pc, latest,
                      retries, seen, total, tries, list, extras>>
      BY <2>2 DEF vars, worker, syncs, book
    <3>2. Flags' /\ Streams' /\ Spent'
      BY Zenon, <3>1 DEF Typed, Flags, Streams, Spent
    <3>3. Fits(cl') /\ RingFits' /\ Book'
      BY Zenon, <3>1 DEF Typed, RingFits, Book
    <3> QED
      BY Zenon, <3>2, <3>3 DEF Typed
  <2> QED
    BY <2>1, <2>2
<1> QED
  BY <1>1, <1>2, TypedParts, PTL DEF Spec
=============================================================================
