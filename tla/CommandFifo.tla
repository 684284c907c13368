---------------------------- MODULE CommandFifo ----------------------------
(***************************************************************************)
(* What the command queue promises its callers: the commands it accepts     *)
(* reach the companion once each, in the order they were accepted, and none *)
(* after the connection it was accepted in.  `waiting' are the commands     *)
(* accepted and not written, `wire' those written that the companion has    *)
(* not handled.  CommandQueue implements this specification.                *)
(***************************************************************************)
EXTENDS Integers, Sequences

CONSTANTS Cmd, CMD_QUEUE_SIZE

VARIABLES waiting, wire

fifoVars == <<waiting, wire>>

Init == waiting = <<>> /\ wire = <<>>

(* The oldest command of w, if it is written now, leaves w. *)
Transmit(w) ==
  \/ waiting' = w /\ wire' = wire
  \/ waiting' = Tail(w) /\ wire' = Append(wire, Head(w))

Accept(c) == Transmit(Append(waiting, c)) /\ Len(waiting') <= CMD_QUEUE_SIZE

Write == waiting # <<>> /\ Transmit(waiting)

Handle == wire # <<>> /\ wire' = Tail(wire) /\ waiting' = waiting

Drop == waiting' = <<>> /\ wire' = <<>>

Next == (\E c \in Cmd : Accept(c)) \/ Write \/ Handle \/ Drop

Spec == Init /\ [][Next]_fifoVars
=============================================================================
