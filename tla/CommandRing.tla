---------------------------- MODULE CommandRing ----------------------------
(***************************************************************************)
(* The command queue of MeshCoreClient as a value: the 12-slot ring         *)
(* cmdQueue with its indices and the fields that describe the one command   *)
(* in flight, and the functions of the class that change them, each as an   *)
(* operator from a ring to a ring.                                          *)
(*                                                                          *)
(* A command is the byte that opens its frame, an argument and the number   *)
(* of the connection it was enqueued in.  The last one is not in the code:  *)
(* it lets a property speak of commands that outlive their connection.      *)
(* `wire' is not in the code either: the commands written to the            *)
(* companion's RX characteristic that it has not handled yet.               *)
(***************************************************************************)
EXTENDS Integers, Sequences

CONSTANTS
  CMD_QUEUE_SIZE,   \* slots of the ring (12 in MeshCoreClient.h)
  Arg,              \* what distinguishes two commands with the same byte
  Epoch             \* the numbers of the connections

ASSUME SizeAssumption == CMD_QUEUE_SIZE \in Nat \ {0}

ASSUME ArgAssumption == <<>> \in Arg /\ 0 \in Epoch

(***************************************************************************)
(* The response each request function passes to enqueueCmd.  PKT_OK is the  *)
(* byte 0x00, and 0 is also how enqueueCmd is told to "accept any response  *)
(* type": both are "OK" here.  NONE is the byte of a slot never written.     *)
(***************************************************************************)
ExpectedResponse ==
  [NONE               |-> "OK",
   GET_CONTACTS       |-> "CONTACT_END",
   GET_CHANNEL        |-> "CHANNEL_INFO",
   GET_BATTERY        |-> "BATTERY",
   GET_CUSTOM_VARS    |-> "CUSTOM_VARS",
   SEND_TELEMETRY_REQ |-> "TELEMETRY_RESPONSE",
   SEND_DM            |-> "MSG_SENT",
   GET_MESSAGE        |-> "OK",
   SEND_CHAN_MSG      |-> "OK",
   ADD_UPDATE_CONTACT |-> "OK",
   REMOVE_CONTACT     |-> "OK",
   RESET_PATH         |-> "OK",
   SET_CUSTOM_VAR     |-> "OK",
   SEND_SELF_ADVERT   |-> "OK"]

CmdByte == DOMAIN ExpectedResponse
Reply   == {ExpectedResponse[b] : b \in CmdByte}
Cmd     == [byte : CmdByte, arg : Arg, epoch : Epoch]

NoCmd == [byte |-> "NONE", arg |-> <<>>, epoch |-> 0]

Slots == 0 .. CMD_QUEUE_SIZE - 1

Ring == [slot     : [Slots -> Cmd],                \* cmdQueue
         head     : Slots,                         \* cmdHead
         tail     : Slots,                         \* cmdTail
         count    : 0 .. CMD_QUEUE_SIZE,           \* cmdCount
         pending  : BOOLEAN,                       \* cmdPending
         expected : Reply,                         \* cmdExpectedResponse
         inFlight : Cmd,                           \* cmdInFlightCommandByte
         ok       : BOOLEAN,                       \* lastCmdSuccess
         wire     : Seq(Cmd)]

NewRing == [slot |-> [i \in Slots |-> NoCmd], head |-> 0, tail |-> 0, count |-> 0,
            pending |-> FALSE, expected |-> "OK", inFlight |-> NoCmd,
            ok |-> FALSE, wire |-> <<>>]

Successor(i) == (i + 1) % CMD_QUEUE_SIZE

Full(r) == r.count >= CMD_QUEUE_SIZE

(* Mutant: an entry that could not be written is dropped. *)
SendNextOrDrop(r, written) ==
  IF r.count = 0
  THEN r
  ELSE LET c == r.slot[r.head] IN
       [r EXCEPT !.pending  = written,
                 !.expected = ExpectedResponse[c.byte],
                 !.inFlight = c,
                 !.head     = Successor(r.head),
                 !.count    = r.count - 1,
                 !.wire     = IF written THEN Append(r.wire, c) ELSE r.wire]

(***************************************************************************)
(* sendNextCmd.  `written' is the result of the characteristic write: when  *)
(* it fails the entry stays at the head of the ring.  The rxChar test is    *)
(* the write failing.                                                       *)
(***************************************************************************)
SendNext(r, written) ==
  IF r.count = 0 \/ ~written
  THEN r
  ELSE LET c == r.slot[r.head] IN
       [r EXCEPT !.pending  = TRUE,
                 !.expected = ExpectedResponse[c.byte],
                 !.inFlight = c,
                 !.head     = Successor(r.head),
                 !.count    = r.count - 1,
                 !.wire     = Append(r.wire, c)]

(* enqueueCmd past its guards: the entry goes to the tail, and if nothing is *)
(* pending the head of the ring is written at once.                          *)
Place(r, c) == [r EXCEPT !.slot  = [r.slot EXCEPT ![r.tail] = c],
                         !.tail  = Successor(r.tail),
                         !.count = r.count + 1]

Enqueue(r, c, written) ==
  IF r.pending THEN Place(r, c) ELSE SendNext(Place(r, c), written)

(* Mutant: any packet ends the command in flight. *)
RespondToAny(r, type, missing) ==
  [r EXCEPT !.pending = FALSE,
            !.ok = type # "ERROR" \/ (missing /\ r.inFlight.byte = "REMOVE_CONTACT")]

(* processResponse, the part that decides whether a packet ends the command  *)
(* in flight.  `missing' says that an error carries the code                  *)
(* ERR_CODE_NOT_FOUND (handleCompanionErrorResponse).                        *)
Respond(r, type, missing) ==
  IF type = "ERROR"
  THEN [r EXCEPT !.pending = FALSE,
                 !.ok = missing /\ r.inFlight.byte = "REMOVE_CONTACT"]
  ELSE IF r.expected = "OK" \/ type = r.expected
       THEN [r EXCEPT !.pending = FALSE, !.ok = TRUE]
       ELSE r

(* Mutant: the command that timed out stays pending. *)
ExpireStillPending(r) == [r EXCEPT !.ok = FALSE]

(* The command timeout of poll, before the next command is sent. *)
Expire(r) == [r EXCEPT !.pending = FALSE, !.ok = FALSE]

(* What poll resets when it finds the link gone: the indices are not. *)
Flush(r) == [r EXCEPT !.pending = FALSE, !.ok = FALSE, !.count = 0, !.wire = <<>>]

(* Mutants: disconnect resets the indices by halves, or not at all. *)
ResetKeepsTail(r) == [r EXCEPT !.pending = FALSE, !.expected = "OK", !.inFlight = NoCmd,
                               !.count = 0, !.head = 0, !.wire = <<>>]
ResetKeepsQueue(r) == [r EXCEPT !.pending = FALSE, !.expected = "OK", !.inFlight = NoCmd,
                                !.wire = <<>>]

(* What disconnect resets. *)
Reset(r) == [r EXCEPT !.pending = FALSE, !.expected = "OK", !.inFlight = NoCmd,
                      !.count = 0, !.head = 0, !.tail = 0, !.wire = <<>>]

(* The commands the indices say are queued, oldest first. *)
Backlog(r) == [i \in 1 .. r.count |-> r.slot[(r.head + i - 1) % CMD_QUEUE_SIZE]]

(* How far the tail is from where head and count put it: 0 in a sound ring. *)
Skew(r) == (r.tail - r.head - r.count) % CMD_QUEUE_SIZE
=============================================================================
