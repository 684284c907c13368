---------------------------- MODULE Conversation ----------------------------
(***************************************************************************)
(* What MessageStore and ThreadView share: the records of a conversation    *)
(* and the window of ids its meta.bin shows.                                *)
(***************************************************************************)
EXTENDS Integers

CONSTANTS Msgs,       \* message bodies
          Capacity,   \* MAX_MSGS_PER_THREAD
          MaxId       \* bound of a model run on the ids handed out

Ids    == 1 .. MaxId
Status == {"SENT", "FINAL"}   \* on its way; received, delivered or given up
Record == Msgs \X Status
Lost   == <<>>                \* a file too short to be a record

Zero    == [count |-> 0, start |-> 0, end |-> 0]
Windows == [count : Nat, start : Nat, end : Nat]

Window(w)   == IF w.count = 0 THEN {} ELSE w.start .. w.end
(* Mutant: ids are the counts of messages. *)
NewIdByCount(w) == w.count + 1

NewId(w)    == IF w.count = 0 THEN 1 ELSE w.end + 1
(* Mutant: the dropped message is still counted. *)
DroppedUncounted(w) == [count |-> w.count, start |-> w.start + 1, end |-> w.end]

Dropped(w)  == [count |-> w.count - 1, start |-> w.start + 1, end |-> w.end]
Appended(w) == [count |-> w.count + 1, start |-> IF w.count = 0 THEN 1 ELSE w.start,
                end |-> NewId(w)]
=============================================================================
