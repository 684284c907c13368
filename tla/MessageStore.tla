---------------------------- MODULE MessageStore ----------------------------
(***************************************************************************)
(* One conversation of MeshCoreMessageStore on the card: a directory with a *)
(* file for every message, named by its id, and meta.bin with the window of  *)
(* ids that is shown.  Every call on the storage is a step of its own; power *)
(* may fail between any two of them and a call may fail or fall short.       *)
(*                                                                           *)
(* A file opened for writing is truncated at once and whole only when it is  *)
(* closed.  appendDirectMessage and appendChannelMessage open the message    *)
(* file before meta.bin and close it last.  A meta.bin that is absent or too *)
(* short reads as Zero, which is what the code starts from then.  Heights,   *)
(* scroll position, fonts and the reply caches are left out.                 *)
(***************************************************************************)
EXTENDS Conversation

CONSTANT MaxFaults   \* bound of a model run on failures and power losses

(* Room for the new message beside the one before it (the code keeps 200). *)
ASSUME StoreAssumption ==
  Capacity \in Nat /\ Capacity >= 2 /\ MaxId \in Nat /\ MaxFaults \in Nat

VARIABLES meta,    \* the window meta.bin gives a reader
          files,   \* message files by id: their record, Lost when too short
          op,      \* the operation under way
          pc,      \* its next storage call
          ram,     \* the window in the operation's memory
          target,  \* the id whose file is open for writing; 0: none
          rec,     \* the record that file gets
          faults

svars == <<meta, files, op, pc, ram, target, rec, faults>>

Put(id, r) == [i \in DOMAIN files \cup {id} |-> IF i = id THEN r ELSE files[i]]
Unlink(id) == [i \in DOMAIN files \ {id} |-> files[i]]

StoreInit ==
  /\ meta = Zero /\ files = [i \in {} |-> Lost]
  /\ op = "no" /\ pc = "idle" /\ ram = Zero /\ target = 0 /\ rec = Lost
  /\ faults = 0

At(p) == pc = p

(* The operation returns, whatever it left on the card. *)
Done == op' = "no" /\ pc' = "idle" /\ ram' = Zero /\ target' = 0 /\ rec' = Lost

Fails == faults < MaxFaults /\ faults' = faults + 1

-----------------------------------------------------------------------------
(* appendDirectMessage, appendChannelMessage *)

(* Mutant: the oldest message goes before every new one. *)
StartAppendDrops(m) ==
  /\ At("idle") /\ NewId(meta) <= MaxId
  /\ op' = "append" /\ ram' = meta /\ rec' = <<m, "SENT">> /\ pc' = "drop"
  /\ UNCHANGED <<meta, files, target, faults>>

StartAppend(m) ==
  /\ At("idle") /\ NewId(meta) <= MaxId
  /\ op' = "append" /\ ram' = meta /\ rec' = <<m, "SENT">>
  /\ pc' = IF meta.count >= Capacity THEN "drop" ELSE "open"
  /\ UNCHANGED <<meta, files, target, faults>>

(* Mutant: the file removed is that of the newest message. *)
DropNewestFile ==
  /\ At("drop") /\ pc' = "open"
  /\ files' = Unlink(ram.end) /\ ram' = Dropped(ram)
  /\ UNCHANGED <<meta, op, target, rec, faults>>

DropOldestMessage ==
  /\ At("drop") /\ pc' = "open"
  /\ files' = Unlink(ram.start) /\ ram' = Dropped(ram)
  /\ UNCHANGED <<meta, op, target, rec, faults>>

OpenMessage ==
  /\ At("open") /\ pc' = "metaOpen"
  /\ target' = NewId(ram)
  /\ files' = Put(NewId(ram), Lost)
  /\ ram' = Appended(ram)
  /\ UNCHANGED <<meta, op, rec, faults>>

(* updateDirectMessage, updateChannelMessage: the record is rewritten whole. *)
StartUpdate(id, s) ==
  /\ At("idle") /\ files[id] # Lost
  /\ op' = "status" /\ pc' = "close"
  /\ target' = id /\ rec' = <<files[id][1], s>>
  /\ files' = Put(id, Lost)
  /\ UNCHANGED <<meta, ram, faults>>

(* saveDirectMeta, saveChannelMeta by a caller that holds the window as it is *)
StartSave ==
  /\ At("idle")
  /\ op' = "position" /\ pc' = "metaOpen" /\ ram' = meta
  /\ UNCHANGED <<meta, files, target, rec, faults>>

-----------------------------------------------------------------------------
(* writeMeta *)

OpenMeta ==
  /\ At("metaOpen") /\ pc' = "metaWrite"
  /\ meta' = Zero
  /\ UNCHANGED <<files, op, ram, target, rec, faults>>

WriteMeta ==
  /\ At("metaWrite")
  /\ meta' = ram
  /\ IF target = 0 THEN Done
     ELSE pc' = "close" /\ UNCHANGED <<op, ram, target, rec>>
  /\ UNCHANGED <<files, faults>>

CloseMessage ==
  /\ At("close") /\ Done
  /\ files' = Put(target, rec)
  /\ UNCHANGED <<meta, faults>>

-----------------------------------------------------------------------------
(* clearConversation: the directory is removed entry by entry, in the order  *)
(* the card lists them, and the window is then written as Zero, which fails   *)
(* when the directory is gone.                                                *)

StartClear == /\ At("idle") /\ op' = "clear" /\ pc' = "clear"
              /\ UNCHANGED <<meta, files, ram, target, rec, faults>>

RemoveEntry ==
  /\ At("clear")
  /\ \/ \E id \in DOMAIN files : files' = Unlink(id) /\ meta' = meta
     \/ meta # Zero /\ meta' = Zero /\ files' = files
  /\ UNCHANGED <<op, pc, ram, target, rec, faults>>

RemovedAll == /\ At("clear") /\ meta = Zero /\ DOMAIN files = {}
              /\ Done /\ UNCHANGED <<meta, files, faults>>

RemoveFails == /\ At("clear") /\ Fails
               /\ pc' = "metaOpen" /\ ram' = Zero
               /\ UNCHANGED <<meta, files, op, target, rec>>

-----------------------------------------------------------------------------
(* A storage call that fails makes the operation return, except the write of *)
(* a message, whose result nobody looks at; the message file that was open   *)
(* is closed on the way out.                                                 *)
CallFails ==
  /\ Fails
  /\ \/ At("drop") /\ Done
     \/ At("open") /\ Done
     \/ At("close") /\ Done
     \/ /\ At("metaOpen") \/ At("metaWrite")
        /\ IF target = 0 THEN Done ELSE pc' = "close" /\ UNCHANGED <<op, ram, target, rec>>
  /\ UNCHANGED <<meta, files>>

(* What was written to a file not yet closed may or may not reach the card. *)
PowerLoss ==
  /\ Fails /\ Done
  /\ \/ files' = files
     \/ target # 0 /\ files' = Put(target, rec)
  /\ \/ meta' = meta
     \/ At("metaWrite") /\ meta' = ram

StoreNext ==
  \/ \E m \in Msgs : StartAppend(m)
  \/ \E id \in DOMAIN files, s \in Status : StartUpdate(id, s)
  \/ StartSave \/ StartClear
  \/ DropOldestMessage \/ OpenMessage \/ OpenMeta \/ WriteMeta \/ CloseMessage
  \/ RemoveEntry \/ RemovedAll \/ RemoveFails \/ CallFails \/ PowerLoss

StoreSpec == StoreInit /\ [][StoreNext]_svars

-----------------------------------------------------------------------------
(* The window a reader will have once the write of meta.bin is over, and the *)
(* log it shows: the file being written counts for what is being written.    *)
LogMeta == IF pc = "metaWrite" THEN ram ELSE meta

Shown(id) == IF id = target THEN rec
             ELSE IF id \in DOMAIN files THEN files[id] ELSE Lost

ShownLog == [i \in Window(LogMeta) |-> Shown(i)]

Thread == INSTANCE ThreadLog WITH log <- ShownLog

(* The store implements the log: no message is overwritten, an id is never   *)
(* given twice while its message is shown, and a message leaves the log only *)
(* as the oldest of a full one, by a clear, or as the one being written when *)
(* the write is cut short.                                                   *)
LogSpec == Thread!Spec
-----------------------------------------------------------------------------
StoreTypeOK ==
  /\ meta \in Windows /\ ram \in Windows
  /\ DOMAIN files \subseteq Ids /\ \A i \in DOMAIN files : files[i] \in Record \cup {Lost}
  /\ op \in {"no", "append", "status", "position", "clear"}
  /\ pc \in {"idle", "drop", "open", "metaOpen", "metaWrite", "close", "clear"}
  /\ target \in Ids \cup {0} /\ rec \in Record \cup {Lost}
  /\ faults \in Nat

SoundWindow(w) == \/ w = Zero
                  \/ /\ w.start >= 1 /\ w.end <= MaxId
                     /\ w.count >= 1 /\ w.count <= Capacity
                     /\ w.count = w.end - w.start + 1

(* The count in meta.bin is the number of ids between its ends and never     *)
(* more than the capacity, after any sequence of appends, clears, failures   *)
(* and power losses: the code checks the count, the readers walk the ids.    *)
WindowSound == SoundWindow(meta) /\ SoundWindow(LogMeta)

(* While no write has been cut short, every id of the window at rest has a   *)
(* file that can be read: the message is counted only after its file exists, *)
(* and the file of a dropped id goes before the id does.                     *)
WholeWithoutFaults ==
  (faults = 0 /\ op = "no") =>
    \A i \in Window(meta) : i \in DOMAIN files /\ files[i] # Lost
=============================================================================
