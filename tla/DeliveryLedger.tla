--------------------------- MODULE DeliveryLedger ---------------------------
(***************************************************************************)
(* What the delivery of direct messages promises the user, who sees only    *)
(* the status beside each message: a message is sent once, at most one is   *)
(* on its way at a time, and one that is settled never changes again.       *)
(* DmDelivery implements this specification.                                *)
(***************************************************************************)
CONSTANT Msgs

VARIABLE status

Settled == {"ACKED", "FAILED"}

Init == status = [m \in Msgs |-> "NONE"]

(* A new message takes the place of the one on its way, which has FAILED. *)
Send(m, s) ==
  /\ status[m] = "NONE"
  /\ s \in {"SENT", "FAILED"}
  /\ status' = [n \in Msgs |-> IF n = m THEN s
                               ELSE IF status[n] = "SENT" THEN "FAILED" ELSE status[n]]

(* A message stored without a connection. *)
Unsent(m) == status[m] = "NONE" /\ status' = [status EXCEPT ![m] = "FAILED"]

Settle(m, s) ==
  /\ status[m] = "SENT"
  /\ s \in Settled
  /\ status' = [status EXCEPT ![m] = s]

Next == \E m \in Msgs : \/ Unsent(m)
                        \/ \E s \in Settled \cup {"SENT"} : Send(m, s) \/ Settle(m, s)

Spec == Init /\ [][Next]_status
=============================================================================
