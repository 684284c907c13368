------------------------------ MODULE ThreadLog ------------------------------
(***************************************************************************)
(* What the message store promises about one conversation.  The reader of a *)
(* thread sees a log: messages under consecutive ids.  A message enters it   *)
(* at the end, leaves it at the other end when the log is full, and is lost  *)
(* in no other way unless a write is cut short.  MessageStore implements     *)
(* this specification.                                                       *)
(***************************************************************************)
EXTENDS Integers

CONSTANTS Msgs,       \* message bodies
          Capacity,   \* messages a conversation keeps
          MaxId       \* bound of a model run on the ids handed out

Ids    == 1 .. MaxId
Status == {"SENT", "FINAL"}
Record == Msgs \X Status
Lost   == <<>>           \* a message whose file cannot be read any more

Op == {"no", "append", "status", "position", "clear"}

VARIABLES log,      \* the conversation: a function from the ids it shows
          op,       \* the operation under way
          faults    \* writes cut short so far: by a power loss or by the card

NoLog == [i \in {} |-> Lost]

Init == log = NoLog /\ op = "no" /\ faults = 0

Begin(o) == /\ op = "no" /\ o \in Op \ {"no", "status"} /\ op' = o
            /\ UNCHANGED <<log, faults>>

(* The message gets the next id; the log never grows past its capacity. *)
Append(m) ==
  \E id \in Ids :
    /\ op = "append" /\ UNCHANGED <<op, faults>>
    /\ \A j \in DOMAIN log : j < id
    /\ IF DOMAIN log = {} THEN id = 1 ELSE id - 1 \in DOMAIN log
    /\ log' = [j \in {id} \cup {k \in DOMAIN log : k > id - Capacity} |->
                IF j = id THEN <<m, "SENT">> ELSE log[j]]

(* The oldest message of a full log goes before the new one comes. *)
Expire ==
  \E low \in DOMAIN log :
    /\ op = "append" /\ UNCHANGED <<op, faults>>
    /\ low + Capacity - 1 \in DOMAIN log
    /\ log' = [log EXCEPT ![low] = Lost]

(* A new status, heard count or height for a message that can be read. *)
Mark(id, s) ==
  /\ op = "no" /\ op' = "status" /\ UNCHANGED faults
  /\ log[id] # Lost
  /\ log' = [log EXCEPT ![id] = <<log[id][1], s>>]

MarkOther == op = "no" /\ op' = "status" /\ UNCHANGED <<log, faults>>

Weaker(l) == DOMAIN l = DOMAIN log /\ \A i \in DOMAIN log : l[i] \in {log[i], Lost}

Erase == /\ op = "clear" /\ UNCHANGED <<op, faults>>
         /\ log' = NoLog \/ Weaker(log')

Return == op # "no" /\ op' = "no" /\ UNCHANGED <<log, faults>>

OneLost == \E i \in DOMAIN log : log' = [log EXCEPT ![i] = Lost]

(* A write cut short costs what was being written, nothing when no operation *)
(* was under way; the window of ids is rewritten in place, so it may cost    *)
(* the whole log.                                                            *)
Fault ==
  /\ faults' = faults + 1 /\ op' \in {op, "no"}
  /\ \/ log' = log
     \/ op \in {"append", "position"} /\ log' = NoLog
     \/ op \in {"append", "status"} /\ OneLost
     \/ op = "clear" /\ (log' = NoLog \/ Weaker(log'))

Next == \/ \E o \in Op : Begin(o)
        \/ \E m \in Msgs : Append(m)
        \/ \E id \in DOMAIN log, s \in Status : Mark(id, s)
        \/ Expire \/ MarkOther \/ Erase \/ Return \/ Fault

Spec == Init /\ [][Next]_<<log, op, faults>>
==============================================================================
