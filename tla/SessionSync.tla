----------------------------- MODULE SessionSync -----------------------------
(***************************************************************************)
(* What MeshCoreClient and the hub do to get in step with a companion: the  *)
(* handshake on the worker task, the burst of requests poll() makes on the  *)
(* main task once it has succeeded, the channel requests it refills as the  *)
(* queue drains, and the contact list, fetched again when it times out or   *)
(* comes short.  The packets pass through a ring which notifyCallback       *)
(* fills, dropping those that find it full, and which the worker drains     *)
(* during the handshake and poll() otherwise.                               *)
(*                                                                          *)
(* phase is where the worker is, and with it the BleConnectionState; pc is  *)
(* where the main task is in poll().  A step of poll() ends before the next *)
(* command it enqueues and the next packet it takes, so the worker and the  *)
(* NimBLE host run between any two.  The command queue is CommandRing's,    *)
(* taken as the sequence that module shows it to be.  The attempt up to the *)
(* handshake, and disconnect() during it, are in BleConnection.             *)
(***************************************************************************)
EXTENDS Integers, Sequences, FiniteSets

CONSTANTS
  CMD_QUEUE_SIZE, CHANNEL_SYNC_QUEUE_RESERVE,   \* 12 and 2 in the code
  RX_QUEUE_SIZE,                                \* 64: one slot is never used
  MAX_CONTACT_RETRIES, MAX_CONTACT_SYNC_RETRIES,\* 3 and 3: the client's, the hub's
  Channels,        \* how many channels the companion has (channelSyncTotal)
  Contacts,        \* how many contacts the companion has
  MaxWire,         \* bound: commands the companion holds unanswered
  MaxExtras,       \* bound: connections, packets sent unasked, messages received
                   \* and commands of the user interface, all together
  Risks            \* what may disturb a full list: see Calm

ASSUME SyncAssumption ==
  /\ {Channels, Contacts, MaxWire, MaxExtras} \subseteq Nat
  /\ RX_QUEUE_SIZE \in Nat \ {0, 1} /\ CMD_QUEUE_SIZE \in Nat
  /\ CHANNEL_SYNC_QUEUE_RESERVE \in 0 .. CMD_QUEUE_SIZE - 1
  /\ MAX_CONTACT_RETRIES \in Nat /\ MAX_CONTACT_SYNC_RETRIES \in Nat
  /\ Risks \subseteq {"start", "newAdvert", "since"}

VARIABLES
  phase,      \* "down", "handshake", "init" (inInitSequence), "asked", "up" (CONNECTED)
  link,       \* bleClient->isConnected()
  hello,      \* which of SELF_INFO and DEVICE_INFO the companion has yet to send
  heard,      \* gotSelfInfo and gotDeviceInfo
  initial,    \* initialRequestsPending
  sync,       \* channelSyncActive
  next,       \* channelSyncNext
  cl,         \* the command queue, and lastContactListFull
  rx,         \* rxQueue
  pc,         \* where the main task is in poll()
  latest,     \* contactsMostRecentLastmod: 0, or a later time
  retries,    \* retryContactsCount
  seen, total, tries,  \* the hub's _contactSyncSeen, ...Total and ...Retries
  list,       \* the contact list the companion is sending
  extras      \* not in the code: counts what MaxExtras bounds

worker == <<phase, link, hello, heard>>
syncs  == <<initial, sync, next>>
book   == <<latest, retries, seen, total, tries>>
vars   == <<worker, syncs, cl, rx, pc, book, list, extras>>

(* A command: the argument is the index of a channel, or the `since' of a    *)
(* contact fetch, where 0 asks for the whole list.                           *)
Plain   == {"GET_BATTERY", "GET_CUSTOM_VARS", "GET_MESSAGE", "SEND_CHAN_MSG"}
Cmd     == [op : Plain \cup {"NONE"}, arg : {0}]
             \cup [op : {"GET_CHANNEL"}, arg : 0 .. Channels - 1]
             \cup [op : {"GET_CONTACTS"}, arg : {0, 1}]
Do(op)  == [op |-> op, arg |-> 0]
Idle    == Do("NONE")
FullList == Do("GET_CONTACTS")

(* The packet that ends a command; GET_MESSAGE, and a command that expects   *)
(* PKT_OK, are ended by any packet (see CommandRing).                        *)
Response == [GET_BATTERY |-> "BATTERY", GET_CUSTOM_VARS |-> "CUSTOM_VARS",
             GET_CHANNEL |-> "CHANNEL_INFO", GET_CONTACTS |-> "CONTACT_END"]
Ends(c, type) == type = "ERROR" \/ (c.op \in DOMAIN Response => type = Response[c.op])

(* `short' is not in the code: a frame of this full list did not get through. *)
Info   == {"SELF_INFO", "DEVICE_INFO"}
Pushes == {"MSGS_WAITING", "ADVERTISEMENT", "NEW_ADVERT"}
Packet == [type : Info \cup Pushes \cup {"BATTERY", "CUSTOM_VARS", "CHANNEL_INFO",
                   "CONTACT_START", "CONTACT", "CONTACT_END", "CONTACT_MSG",
                   "OK", "NO_MORE_MSGS", "ERROR"},
           short : BOOLEAN]
Bare(type) == [type |-> type, short |-> FALSE]

NoList == [left |-> -1, full |-> FALSE, short |-> FALSE]

(* `asked' is not in the code: the commands accepted on this connection. *)
NoCmds == [queue |-> <<>>, flight |-> Idle, wire |-> <<>>, full |-> TRUE, asked |-> {}]

(* Types, and the limits the code sets to its queue, its ring and its retries.*)
SyncTypeOK ==
  /\ phase \in {"down", "handshake", "init", "asked", "up"} /\ link \in BOOLEAN
  /\ hello \subseteq Info /\ heard \subseteq Info
  /\ initial \in BOOLEAN /\ sync \in BOOLEAN /\ next \in 0 .. Channels
  /\ cl.queue \in Seq(Cmd) /\ Len(cl.queue) <= CMD_QUEUE_SIZE
  /\ cl.flight \in Cmd /\ cl.wire \in Seq(Cmd)
  /\ cl.full \in BOOLEAN /\ cl.asked \subseteq Cmd
  /\ rx \in Seq(Packet) /\ Len(rx) < RX_QUEUE_SIZE
  /\ pc \in {"idle", "battery", "vars", "contacts", "refill", "drain"}
  /\ latest \in {0, 1} /\ retries \in 0 .. MAX_CONTACT_RETRIES
  /\ tries \in 0 .. MAX_CONTACT_SYNC_RETRIES
  /\ seen \in Nat /\ total \in 0 .. Contacts
  /\ list \in [left : -1 .. Contacts, full : BOOLEAN, short : BOOLEAN]
  /\ extras \in 0 .. MaxExtras

Init ==
  /\ phase = "down" /\ link = FALSE /\ hello = {} /\ heard = {}
  /\ initial = FALSE /\ sync = FALSE /\ next = 0
  /\ cl = NoCmds /\ rx = <<>> /\ pc = "idle"
  /\ latest = 0 /\ retries = 0 /\ seen = 0 /\ total = 0 /\ tries = 0
  /\ list = NoList
  /\ extras = 0

Extra == extras < MaxExtras /\ extras' = extras + 1

-----------------------------------------------------------------------------
(* The command queue. *)

Accepts(c) == phase = "up" /\ Len(c.queue) < CMD_QUEUE_SIZE

(* A write fails when the link is down or the companion has no room; that it *)
(* may fail at any time is in CommandQueue.                                  *)
SendNext(c) ==
  IF c.queue = <<>> \/ ~link \/ Len(c.wire) = MaxWire
  THEN c
  ELSE [c EXCEPT !.queue  = Tail(c.queue),
                 !.flight = Head(c.queue),
                 !.wire   = Append(c.wire, Head(c.queue))]

(* A request function; requestContacts notes what it asks for even when the  *)
(* queue does not take it.                                                   *)
Request(c, cmd) ==
  LET d == IF cmd.op = "GET_CONTACTS" THEN [c EXCEPT !.full = cmd.arg = 0] ELSE c
      e == [d EXCEPT !.queue = Append(d.queue, cmd), !.asked = d.asked \cup {cmd}]
  IN  IF ~Accepts(d) THEN d
      ELSE IF e.flight = Idle THEN SendNext(e) ELSE e

Respond(c, type) == IF Ends(c.flight, type) THEN [c EXCEPT !.flight = Idle] ELSE c

Outstanding(c) == {c.queue[i] : i \in DOMAIN c.queue} \cup {c.flight}

(* What the properties leave out: with "start" the frame that opens a list   *)
(* may be lost, with "newAdvert" a node may be discovered while a full list   *)
(* streams, with "since" the changed contacts may be asked for meanwhile.    *)
Calm == /\ ~list.full
        /\ FullList \notin Outstanding(cl) \cup {cl.wire[i] : i \in DOMAIN cl.wire}
        /\ \A i \in DOMAIN rx : rx[i].type \notin {"CONTACT_START", "CONTACT", "CONTACT_END"}

-----------------------------------------------------------------------------
(* processResponse and the hub's callbacks, on the oldest packet.            *)

(* Mutant: the list is counted from the last one on. *)
StartKeepsCount(p) ==
  /\ p.type = "CONTACT_START"
  /\ total' = Contacts
  /\ cl' = Respond(cl, p.type)
  /\ UNCHANGED <<latest, retries, seen, tries>>

ListStarts(p) ==
  /\ p.type = "CONTACT_START"
  /\ seen' = 0 /\ total' = Contacts
  /\ cl' = Respond(cl, p.type)
  /\ UNCHANGED <<latest, retries, tries>>

(* Every contact is counted, one just discovered like one of the list. *)
ListGrows(p) ==
  /\ p.type \in {"CONTACT", "NEW_ADVERT"}
  /\ seen' = seen + 1
  /\ cl' = Respond(cl, p.type)
  /\ UNCHANGED <<latest, retries, total, tries>>

(* A full list that came short is fetched again, three times at most. *)
ListEnds(p) ==
  /\ p.type = "CONTACT_END"
  /\ latest' = 1 /\ retries' = 0
  /\ IF cl.full /\ seen < total /\ tries < MAX_CONTACT_SYNC_RETRIES
     THEN /\ cl' = Request(Respond(cl, p.type), FullList)
          /\ tries' = tries + 1
          /\ UNCHANGED <<seen, total>>
     ELSE /\ cl' = Respond(cl, p.type)
          /\ seen' = 0 /\ total' = 0 /\ tries' = 0

(* Other packets may end with a request: for the message waiting; for the    *)
(* next one (not after 32 in a row); for the contacts changed, when an       *)
(* advert is of an unknown node or a path was updated, on a connected client.*)
OtherPacket(p) ==
  /\ p.type \notin {"CONTACT_START", "CONTACT", "NEW_ADVERT", "CONTACT_END"}
  /\ LET c == Respond(cl, p.type)
     IN  \/ /\ p.type \in {"MSGS_WAITING", "CONTACT_MSG"}
            /\ cl' = Request(c, Do("GET_MESSAGE"))
         \/ /\ p.type = "ADVERTISEMENT" /\ phase = "up"
            /\ "since" \in Risks \/ Calm
            /\ cl' = Request(c, [op |-> "GET_CONTACTS", arg |-> latest])
         \/ /\ p.type # "MSGS_WAITING"
            /\ cl' = c
  /\ UNCHANGED book

Handle ==
  /\ rx # <<>>
  /\ rx' = Tail(rx)
  /\ LET p == Head(rx)
     IN  ListStarts(p) \/ ListGrows(p) \/ ListEnds(p) \/ OtherPacket(p)

-----------------------------------------------------------------------------
(* The worker task. *)

(* The link is up and the characteristics are found; the worker waits 500 ms. *)
LinkUp ==
  /\ phase = "down"
  /\ phase' = "handshake" /\ link' = TRUE /\ hello' = {} /\ heard' = {}
  /\ cl' = [cl EXCEPT !.asked = {}]
  /\ Extra
  /\ UNCHANGED <<syncs, rx, pc, book, list>>

LinkLost ==
  /\ phase = "handshake" /\ ~link
  /\ phase' = "down"
  /\ UNCHANGED <<link, hello, heard, syncs, cl, rx, pc, book, list, extras>>

(* inInitSequence is set, APP_START and DEVICE_QUERY are written. *)
InitBegins ==
  /\ phase = "handshake" /\ link
  /\ phase' = "init" /\ hello' = Info
  /\ UNCHANGED <<link, heard, syncs, cl, rx, pc, book, list, extras>>

(* The worker empties the ring also when both answers are in. *)
InitTakes ==
  /\ phase = "init"
  /\ Handle
  /\ heard' = heard \cup ({Head(rx).type} \cap Info)
  /\ UNCHANGED <<phase, link, hello, syncs, pc, list, extras>>

(* Both answers are in: inInitSequence is cleared and the burst left to poll. *)
InitDone ==
  /\ phase = "init" /\ heard = Info
  /\ phase' = "asked" /\ initial' = TRUE
  /\ UNCHANGED <<link, hello, heard, sync, next, cl, rx, pc, book, list, extras>>

Connected ==
  /\ phase = "asked"
  /\ phase' = "up"
  /\ UNCHANGED <<link, hello, heard, syncs, cl, rx, pc, book, list, extras>>

(* What disconnect() leaves behind. *)
TornDown ==
  /\ phase' = "down" /\ link' = FALSE /\ hello' = {} /\ heard' = {}
  /\ initial' = FALSE /\ sync' = FALSE /\ next' = 0
  /\ cl' = [NoCmds EXCEPT !.full = cl.full, !.asked = cl.asked]
  /\ rx' = <<>> /\ list' = NoList

(* A write fails or an answer does not come in 5 s: the worker disconnects. *)
InitFails ==
  /\ phase = "init" /\ heard # Info
  /\ TornDown
  /\ UNCHANGED <<pc, book, extras>>

-----------------------------------------------------------------------------
(* The main task: poll() and the calls of the activities. *)
PollLost ==
  /\ pc = "idle" /\ phase = "up" /\ ~link
  /\ phase' = "down"
  /\ cl' = [NoCmds EXCEPT !.full = cl.full, !.asked = cl.asked]
  /\ UNCHANGED <<link, hello, heard, syncs, rx, pc, book, list, extras>>

PollEnter ==
  /\ pc = "idle" /\ phase # "init" /\ ~(phase = "up" /\ ~link)
  /\ IF initial /\ phase # "down"
     THEN pc' = "battery" /\ initial' = FALSE
     ELSE pc' = (IF sync THEN "refill" ELSE "drain") /\ UNCHANGED initial
  /\ UNCHANGED <<worker, sync, next, cl, rx, book, list, extras>>

(* The burst.  A request that is refused is not made again. *)
Burst(from, op, to) ==
  /\ pc = from
  /\ cl' = Request(cl, Do(op))
  /\ pc' = to
  /\ UNCHANGED <<worker, rx, book, list, extras, initial>>

BurstBattery  == Burst("battery", "GET_BATTERY", "vars") /\ UNCHANGED <<sync, next>>
BurstVars     == Burst("vars", "GET_CUSTOM_VARS", "contacts") /\ UNCHANGED <<sync, next>>
BurstContacts == Burst("contacts", "GET_CONTACTS", "refill") /\ sync' = TRUE /\ next' = 0

HasRoom == Len(cl.queue) < CMD_QUEUE_SIZE - CHANNEL_SYNC_QUEUE_RESERVE

(* Mutant: a channel refused counts as requested. *)
RefillOnce ==
  /\ pc = "refill" /\ sync /\ phase # "down"
  /\ next < Channels /\ HasRoom
  /\ cl' = Request(cl, [op |-> "GET_CHANNEL", arg |-> next])
  /\ next' = next + 1
  /\ UNCHANGED <<worker, initial, sync, rx, pc, book, list, extras>>

(* One channel more is requested, as long as the queue has room to spare. *)
Refill ==
  /\ pc = "refill" /\ sync /\ phase # "down"
  /\ next < Channels /\ HasRoom /\ Accepts(cl)
  /\ cl' = Request(cl, [op |-> "GET_CHANNEL", arg |-> next])
  /\ next' = next + 1
  /\ UNCHANGED <<worker, initial, sync, rx, pc, book, list, extras>>

(* The queue is full enough or refuses: the rest waits for the next poll. *)
RefillPauses ==
  /\ pc = "refill"
  /\ sync /\ phase # "down" => next < Channels /\ ~(HasRoom /\ Accepts(cl))
  /\ pc' = "drain"
  /\ UNCHANGED <<worker, syncs, cl, rx, book, list, extras>>

(* All channels are requested: the messages are next, if the queue takes it. *)
RefillEnds ==
  /\ pc = "refill" /\ sync /\ phase # "down" /\ next >= Channels
  /\ sync' = FALSE
  /\ cl' = Request(cl, Do("GET_MESSAGE"))
  /\ pc' = "drain"
  /\ UNCHANGED <<worker, initial, next, rx, book, list, extras>>

PollDrain ==
  /\ pc = "drain"
  /\ Handle
  /\ UNCHANGED <<worker, syncs, pc, list, extras>>

(* How poll() ends: the next command is sent, and an idle queue may be given  *)
(* the periodic request for messages.                                        *)
Sent(c) == IF c.flight = Idle THEN SendNext(c) ELSE c

PollEnds(c) ==
  /\ cl' = Sent(c) \/ (phase = "up" /\ Sent(c).flight = Idle /\ Sent(c).queue = <<>>
                          /\ cl' = Request(Sent(c), Do("GET_MESSAGE")))
  /\ pc' = "idle"
  /\ UNCHANGED <<worker, syncs, rx, latest, seen, total, tries, list, extras>>

(* Mutant: the fetches made again are not counted. *)
TimeoutUncounted ==
  /\ pc = "drain" /\ rx = <<>> /\ cl.flight # Idle
  /\ LET c == SendNext([cl EXCEPT !.flight = Idle])
     IN  PollEnds(IF cl.flight.op = "GET_CONTACTS" THEN Request(c, FullList) ELSE c)
  /\ UNCHANGED retries

(* A command in flight outlives CMD_TIMEOUT_MS; a fetch of contacts is made  *)
(* again, of the whole list.                                                 *)
PollTimeout ==
  /\ pc = "drain" /\ rx = <<>> /\ cl.flight # Idle
  /\ LET c     == SendNext([cl EXCEPT !.flight = Idle])
         retry == cl.flight.op = "GET_CONTACTS" /\ retries < MAX_CONTACT_RETRIES
     IN  IF retry
         THEN PollEnds(Request(c, FullList)) /\ retries' = retries + 1
         ELSE PollEnds(c) /\ UNCHANGED retries

PollNoTimeout ==
  /\ pc = "drain" /\ rx = <<>>
  /\ PollEnds(cl)
  /\ UNCHANGED retries

UserCommand ==
  /\ pc = "idle" /\ Accepts(cl)
  /\ Extra
  /\ cl' = Request(cl, Do("SEND_CHAN_MSG"))
  /\ UNCHANGED <<worker, syncs, rx, pc, book, list>>

Disconnect ==
  /\ pc = "idle" /\ phase = "up"
  /\ TornDown
  /\ UNCHANGED <<pc, book, extras>>

-----------------------------------------------------------------------------
(* The NimBLE host and the companion (external).                             *)
LinkDrop ==
  /\ link /\ phase # "down"
  /\ link' = FALSE /\ hello' = {} /\ list' = NoList
  /\ UNCHANGED <<phase, heard, syncs, cl, rx, pc, book, extras>>

(* notifyCallback: a packet that finds the ring full is dropped. *)
RingFull == Len(rx) + 1 = RX_QUEUE_SIZE

Notify(p) == rx' = IF RingFull THEN rx ELSE Append(rx, p)

Greet ==
  /\ link
  /\ \E type \in hello : Notify(Bare(type)) /\ hello' = hello \ {type}
  /\ UNCHANGED <<phase, link, heard, syncs, cl, pc, book, list, extras>>

Takes(c) == link /\ cl.wire # <<>> /\ c = Head(cl.wire) /\ cl' = [cl EXCEPT !.wire = Tail(cl.wire)]

Reply(c) == IF c.op = "GET_CONTACTS" THEN "ERROR"
            ELSE IF c.op \in DOMAIN Response THEN Response[c.op]
            ELSE IF c.op = "GET_MESSAGE" THEN "NO_MORE_MSGS" ELSE "OK"

(* A command is answered, or its answer is lost.  The start of a list may be *)
(* refused, and is while another is being sent.                              *)
Answer(c) ==
  /\ Takes(c)
  /\ Notify(Bare(Reply(c))) \/ UNCHANGED rx
  /\ UNCHANGED <<worker, syncs, pc, book, list, extras>>

AnswerMessage(c) ==
  /\ Takes(c) /\ c.op = "GET_MESSAGE"
  /\ Extra
  /\ Notify(Bare("CONTACT_MSG"))
  /\ UNCHANGED <<worker, syncs, pc, book, list>>

(* A list announces the number of all contacts, whatever it was asked for.   *)
StartList(c) ==
  /\ Takes(c) /\ c.op = "GET_CONTACTS" /\ list = NoList
  /\ "start" \in Risks \/ ~RingFull
  /\ \E n \in (IF c.arg = 0 THEN {Contacts} ELSE 0 .. Contacts) :
       list' = [left |-> n, full |-> c.arg = 0, short |-> FALSE]
  /\ Notify(Bare("CONTACT_START"))
  /\ UNCHANGED <<worker, syncs, pc, book, extras>>

SendContact ==
  /\ list.left > 0
  /\ Notify(Bare("CONTACT"))
  /\ list' = [list EXCEPT !.left  = list.left - 1,
                          !.short = list.short \/ (list.full /\ RingFull)]
  /\ UNCHANGED <<worker, syncs, cl, pc, book, extras>>

EndList ==
  /\ list.left = 0
  /\ Notify([type |-> "CONTACT_END", short |-> list.short])
  /\ list' = NoList
  /\ UNCHANGED <<worker, syncs, cl, pc, book, extras>>

Push ==
  /\ link /\ Extra
  /\ \E type \in Pushes :
       /\ Notify(Bare(type))
       /\ type = "NEW_ADVERT" => "newAdvert" \in Risks \/ Calm
  /\ UNCHANGED <<worker, syncs, cl, pc, book, list>>

-----------------------------------------------------------------------------
Worker == LinkUp \/ LinkLost \/ InitBegins \/ InitTakes \/ InitDone \/ Connected \/ InitFails

PollGoesOn ==
        \/ PollLost \/ PollEnter \/ BurstBattery \/ BurstVars \/ BurstContacts
        \/ Refill \/ RefillPauses \/ RefillEnds
        \/ PollDrain \/ PollNoTimeout

Poll == PollGoesOn \/ PollTimeout

Companion == \/ \E c \in Cmd : Answer(c) \/ AnswerMessage(c) \/ StartList(c)
             \/ Greet \/ SendContact \/ EndList \/ Push

Next == Worker \/ Poll \/ UserCommand \/ Disconnect \/ LinkDrop \/ Companion

Spec == Init /\ [][Next]_vars

(* The main loop polls for ever, a command in flight does not outlive its    *)
(* timeout for ever, the worker goes on after the handshake; the companion   *)
(* takes what is written to it, and need not answer.                         *)
FairSpec ==
  /\ Spec
  /\ WF_vars(PollGoesOn) /\ SF_vars(PollTimeout) /\ WF_vars(Connected)
  /\ WF_vars(\E c \in Cmd : Answer(c))

-----------------------------------------------------------------------------
EveryChannel == {[op |-> "GET_CHANNEL", arg |-> i] : i \in 0 .. Channels - 1}
Bursting     == pc \in {"battery", "vars", "contacts"}

(* A client that is connected and shows no sync in progress has requested    *)
(* every channel of the companion on this connection, whatever the burst and *)
(* the refills met: refusals, a full queue, a sync cut short by a loss.      *)
AllAsked == phase = "up" /\ ~initial /\ ~sync /\ ~Bursting => EveryChannel \subseteq cl.asked

(* "If any frame was dropped, re-fetch the whole list so contacts do not     *)
(* silently vanish": when the end of a full list is handled of which a frame *)
(* was dropped, a full list is asked for again, or the retries are used up,  *)
(* or the queue refuses.                                                     *)
NoSilentLoss ==
  [][rx # <<>> /\ Head(rx).short /\ rx' = Tail(rx) /\ phase' = phase =>
       \/ FullList \in Outstanding(cl')
       \/ tries = MAX_CONTACT_SYNC_RETRIES
       \/ ~Accepts(Respond(cl, "CONTACT_END"))]_vars

(* "runInitSequence() drains the ring-buffer from the worker task; don't race *)
(* with it by consuming entries here simultaneously": an answer of the       *)
(* handshake that has arrived is heard by the worker that waits for it.      *)
HandshakeHeard ==
  [][phase = "init" /\ rx # <<>> /\ rx' = Tail(rx) /\ phase' = phase =>
       {Head(rx).type} \cap Info \subseteq heard']_vars

(* From some point on no frame of a contact list is dropped. *)
NoMoreDrops == <>[][SendContact \/ EndList => ~RingFull]_vars

(* A connection that lasts gets every channel and the messages asked for,    *)
(* even if the companion answers nothing: what is fetched again does not     *)
(* keep the channels out of the queue for ever.                              *)
SyncCompletes ==
  NoMoreDrops =>
    (phase = "up" ~> (phase # "up" \/ (AllAsked /\ Do("GET_MESSAGE") \in cl.asked)))

(* The fetching of contacts comes to an end, whatever is answered late or    *)
(* not at all.                                                               *)
Fetching   == \E c \in Outstanding(cl) : c.op = "GET_CONTACTS"
FetchesEnd == NoMoreDrops => <>[]~Fetching

(* "Bounded by retryContactsCount": the same with frames dropped for ever.   *)
FetchesBounded == <>[]~Fetching
=============================================================================
