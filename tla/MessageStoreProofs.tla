------------------------- MODULE MessageStoreProofs -------------------------
(***************************************************************************)
(* Theorems about MessageStore, for every set of messages, every capacity   *)
(* of at least two and every bound.                                         *)
(***************************************************************************)
EXTENDS MessageStore, TLAPS

(* What the operation holds in memory, storage call by storage call. *)
Truncated(w) == IF w.count = Capacity THEN Dropped(w) ELSE w

Fresh == {<<m, "SENT">> : m \in Msgs}

InCall ==
  /\ target # 0 => target \in DOMAIN files /\ files[target] = Lost
  /\ pc = "idle" <=> op = "no"
  /\ pc \in {"idle", "drop", "open", "clear"} => target = 0
  /\ pc = "clear" => op = "clear"
  /\ pc \in {"drop", "open"} => op = "append" /\ rec \in Fresh /\ NewId(meta) <= MaxId
  /\ pc = "drop" => ram = meta /\ meta.count = Capacity
  /\ pc = "open" => ram = Truncated(meta)
  /\ pc = "metaOpen" =>
       \/ op = "position" /\ target = 0 /\ ram = meta
       \/ op = "clear" /\ target = 0 /\ ram = Zero
       \/ /\ op = "append" /\ target = NewId(meta) /\ rec \in Fresh
          /\ NewId(meta) <= MaxId /\ ram = Appended(Truncated(meta))
  /\ pc = "metaWrite" =>
       /\ meta = Zero /\ SoundWindow(ram)
       /\ \/ op \in {"position", "clear"} /\ target = 0
          \/ op = "append" /\ target = ram.end /\ target \in Ids /\ rec \in Fresh
  /\ pc = "close" => /\ op \in {"append", "status"} /\ target \in Ids
                     /\ rec \in Record

SInv == StoreTypeOK /\ SoundWindow(meta) /\ InCall

-----------------------------------------------------------------------------
LEMMA RecordNotLost == ASSUME NEW r \in Record PROVE r # Lost
<1>1. PICK m \in Msgs, s \in Status : r = <<m, s>>
  BY DEF Record
<1>2. <<m, s>> # <<>>
  OBVIOUS
<1>3. QED
  BY <1>1, <1>2 DEF Lost

LEMMA FreshRecord == Fresh \subseteq Record
BY DEF Fresh, Record, Status

LEMMA RecordParts ==
  ASSUME NEW r \in Record PROVE r[1] \in Msgs /\ \A s \in Status : <<r[1], s>> \in Record
BY DEF Record

LEMMA PutType ==
  ASSUME StoreTypeOK, NEW id \in Ids, NEW r \in Record \cup {Lost}
  PROVE  /\ DOMAIN Put(id, r) \subseteq Ids
         /\ \A i \in DOMAIN Put(id, r) : Put(id, r)[i] \in Record \cup {Lost}
BY DEF StoreTypeOK, Put

LEMMA UnlinkType ==
  ASSUME StoreTypeOK, NEW id
  PROVE  /\ DOMAIN Unlink(id) \subseteq Ids
         /\ \A i \in DOMAIN Unlink(id) : Unlink(id)[i] \in Record \cup {Lost}
BY DEF StoreTypeOK, Unlink

LEMMA WindowArith ==
  ASSUME NEW w \in Windows, SoundWindow(w)
  PROVE  /\ w.count = Capacity => Dropped(w) \in Windows /\ SoundWindow(Dropped(w))
         /\ w.count <= Capacity
         /\ NewId(w) \in Nat \ {0}
         /\ NewId(w) <= MaxId =>
              /\ Appended(Truncated(w)) \in Windows
              /\ SoundWindow(Appended(Truncated(w)))
              /\ Appended(Truncated(w)).end = NewId(w)
              /\ Truncated(w) \in Windows
              /\ NewId(Truncated(w)) = NewId(w)
<1>1. Capacity \in Nat /\ Capacity >= 2 /\ MaxId \in Nat
  BY StoreAssumption
<1>2. Zero \in Windows /\ Zero.count = 0
  BY DEF Zero, Windows
<1>3. CASE w = Zero
  BY <1>1, <1>2, <1>3
     DEF SoundWindow, Dropped, Appended, Truncated, NewId, Zero, Windows
<1>4. CASE w # Zero
  <2>1. /\ w.count \in Nat /\ w.start \in Nat /\ w.end \in Nat
        /\ w.start >= 1 /\ w.end <= MaxId /\ w.count >= 1
        /\ w.count <= Capacity /\ w.count = w.end - w.start + 1
    BY <1>4 DEF SoundWindow, Windows
  <2>2. w.count = Capacity => Dropped(w) \in Windows /\ SoundWindow(Dropped(w))
    BY <1>1, <2>1 DEF SoundWindow, Dropped, Windows
  <2>3. NewId(w) = w.end + 1
    BY <1>1, <2>1 DEF NewId
  <2>4. Truncated(w) \in Windows /\ NewId(Truncated(w)) = w.end + 1
    BY <1>1, <2>1, <2>2, <2>3 DEF Truncated, NewId, Dropped, Windows
  <2>5. ASSUME w.end + 1 <= MaxId
        PROVE  /\ Appended(Truncated(w)) \in Windows
               /\ SoundWindow(Appended(Truncated(w)))
               /\ Appended(Truncated(w)).end = w.end + 1
    <3>1. CASE w.count = Capacity
      BY <1>1, <2>1, <2>5, <3>1 DEF Truncated, NewId, Dropped, Appended, SoundWindow, Windows
    <3>2. CASE w.count # Capacity
      BY <1>1, <2>1, <2>5, <3>2 DEF Truncated, NewId, Dropped, Appended, SoundWindow, Windows
    <3>3. QED
      BY <3>1, <3>2
  <2>6. QED
    BY <2>1, <2>2, <2>3, <2>4, <2>5
<1>5. QED
  BY <1>3, <1>4

-----------------------------------------------------------------------------
LEMMA StoreInitInv == StoreInit => SInv
<1>1. Zero \in Windows
  BY DEF Zero, Windows
<1>2. QED
  BY <1>1 DEF StoreInit, SInv, StoreTypeOK, SoundWindow, InCall

LEMMA DoneInv ==
  ASSUME SInv, Done, faults' \in Nat, meta' \in Windows, SoundWindow(meta)',
         DOMAIN files' \subseteq Ids,
         \A i \in DOMAIN files' : files'[i] \in Record \cup {Lost}
  PROVE  SInv'
<1>1. Zero \in Windows
  BY DEF Zero, Windows
<1>2. QED
  BY <1>1 DEF SInv, Done, StoreTypeOK, InCall

LEMMA StoreStep == SInv /\ [StoreNext]_svars => SInv'
<1> SUFFICES ASSUME SInv, [StoreNext]_svars PROVE SInv'
  OBVIOUS
<1> USE DEF SInv
<1>0. Zero \in Windows /\ SoundWindow(Zero)
  BY DEF Zero, Windows, SoundWindow
<1>1. ASSUME NEW m \in Msgs, StartAppend(m) PROVE SInv'
  <2>1. <<m, "SENT">> \in Fresh /\ <<m, "SENT">> \in Record
    BY DEF Fresh, Record, Status
  <2>2. meta.count <= Capacity
    BY WindowArith DEF StoreTypeOK
  <2>3. StoreTypeOK' /\ SoundWindow(meta)'
    BY <1>1, <2>1 DEF StartAppend, At, StoreTypeOK, SoundWindow
  <2>4. meta.count >= Capacity <=> meta.count = Capacity
    BY <2>2, StoreAssumption DEF StoreTypeOK, Windows
  <2>5. InCall'
    BY <1>1, <2>1, <2>4 DEF StartAppend, At, InCall, NewId, Truncated
  <2>6. QED
    BY <2>3, <2>5
<1>2. ASSUME NEW id \in DOMAIN files, NEW s \in Status, StartUpdate(id, s) PROVE SInv'
  <2>1. id \in Ids /\ files[id] \in Record
    BY <1>2 DEF StoreTypeOK, StartUpdate
  <2>2. <<files[id][1], s>> \in Record
    BY <2>1, RecordParts
  <2>3. StoreTypeOK'
    <3>1. files' = Put(id, Lost)
      BY <1>2 DEF StartUpdate
    <3>2. DOMAIN files' \subseteq Ids /\ \A i \in DOMAIN files' : files'[i] \in Record \cup {Lost}
      BY <2>1, <3>1, PutType
    <3>3. QED
      BY <1>2, <2>1, <2>2, <3>2 DEF StartUpdate, StoreTypeOK
  <2>4. InCall'
    <3>1. id \in DOMAIN files' /\ files'[id] = Lost
      BY <1>2 DEF StartUpdate, Put
    <3>2. QED
      BY <1>2, <2>1, <2>2, <3>1 DEF StartUpdate, InCall, At
  <2>5. QED
    BY <1>2, <2>3, <2>4 DEF StartUpdate, SoundWindow
<1>3. CASE StartSave
  BY <1>3 DEF StartSave, At, StoreTypeOK, InCall, SoundWindow
<1>4. CASE StartClear
  BY <1>4 DEF StartClear, At, StoreTypeOK, InCall, SoundWindow
<1>5. CASE DropOldestMessage
  <2>1. ram = meta /\ meta.count = Capacity /\ Dropped(meta) \in Windows
    BY <1>5, WindowArith DEF DropOldestMessage, At, InCall, StoreTypeOK
  <2>2. StoreTypeOK'
    BY <1>5, <2>1, UnlinkType DEF DropOldestMessage, StoreTypeOK
  <2>3. InCall'
    BY <1>5, <2>1 DEF DropOldestMessage, At, InCall, Truncated, NewId
  <2>4. QED
    BY <1>5, <2>2, <2>3 DEF DropOldestMessage, SoundWindow
<1>6. CASE OpenMessage
  <2>1. /\ ram = Truncated(meta) /\ NewId(meta) <= MaxId /\ rec \in Fresh /\ op = "append"
        /\ NewId(ram) = NewId(meta) /\ NewId(meta) \in Ids
        /\ Appended(ram) \in Windows
    BY <1>6, WindowArith, StoreAssumption DEF OpenMessage, At, InCall, StoreTypeOK, Ids
  <2>2. DOMAIN files' \subseteq Ids /\ \A i \in DOMAIN files' : files'[i] \in Record \cup {Lost}
    BY <1>6, <2>1, PutType DEF OpenMessage
  <2>3. StoreTypeOK'
    BY <1>6, <2>1, <2>2 DEF OpenMessage, StoreTypeOK
  <2>4. InCall'
    <3>1. target' \in DOMAIN files' /\ files'[target'] = Lost
      BY <1>6 DEF OpenMessage, Put
    <3>2. /\ pc' = "metaOpen" /\ op' = "append" /\ rec' = rec /\ meta' = meta
          /\ target' = NewId(meta) /\ ram' = Appended(Truncated(meta))
      BY <1>6, <2>1 DEF OpenMessage
    <3>3. NewId(meta)' = NewId(meta) /\ Appended(Truncated(meta))' = Appended(Truncated(meta))
      BY <3>2 DEF NewId, Appended, Truncated, Dropped
    <3>4. QED
      BY <2>1, <3>1, <3>2, <3>3 DEF InCall
  <2>5. QED
    BY <1>6, <2>3, <2>4 DEF OpenMessage, SoundWindow
<1>7. CASE OpenMeta
  <2>1. StoreTypeOK' /\ SoundWindow(meta)'
    BY <1>0, <1>7 DEF OpenMeta, StoreTypeOK, SoundWindow
  <2>2. \/ op = "position" /\ target = 0 /\ ram = meta
        \/ op = "clear" /\ target = 0 /\ ram = Zero
        \/ /\ op = "append" /\ target = NewId(meta) /\ rec \in Fresh
           /\ NewId(meta) <= MaxId /\ ram = Appended(Truncated(meta))
    BY <1>7 DEF OpenMeta, At, InCall
  <2>3. \/ op \in {"position", "clear"} /\ target = 0 /\ SoundWindow(ram)
        \/ /\ op = "append" /\ target = ram.end /\ rec \in Fresh
           /\ SoundWindow(ram) /\ target \in Ids
    <3>1. CASE op \in {"position", "clear"}
      BY <1>0, <2>2, <3>1
    <3>2. CASE op \notin {"position", "clear"}
      BY <2>2, <3>2, WindowArith, StoreAssumption DEF StoreTypeOK, Ids
    <3>3. QED
      BY <3>1, <3>2
  <2>4. InCall'
    <3>1. UNCHANGED <<files, op, ram, target, rec>> /\ meta' = Zero /\ pc' = "metaWrite"
      BY <1>7 DEF OpenMeta
    <3>2. SoundWindow(ram)'
      BY <2>3, <3>1 DEF SoundWindow
    <3>3. op # "no"
      BY <2>3
    <3>4. QED
      BY <2>3, <3>1, <3>2, <3>3 DEF InCall
  <2>5. QED
    BY <2>1, <2>4
<1>8. CASE WriteMeta
  <2>1. /\ SoundWindow(ram) /\ ram \in Windows
        /\ target = 0 \/ (op = "append" /\ target \in Ids /\ rec \in Fresh)
    BY <1>8 DEF WriteMeta, At, InCall, StoreTypeOK
  <2>2. SoundWindow(meta)' /\ meta' \in Windows
    BY <1>8, <2>1 DEF WriteMeta, SoundWindow
  <2>3. CASE target = 0
    <3>1. Done
      BY <1>8, <2>3 DEF WriteMeta
    <3>2. QED
      BY <1>8, <2>2, <3>1, DoneInv DEF WriteMeta, StoreTypeOK
  <2>4. CASE target # 0
    <3>1. pc' = "close" /\ UNCHANGED <<files, op, ram, target, rec, faults>>
      BY <1>8, <2>4 DEF WriteMeta
    <3>2. op' = "append" /\ target' \in Ids /\ rec' \in Record
      BY <2>1, <2>4, <3>1, FreshRecord
    <3>3. InCall'
      BY <2>4, <3>1, <3>2 DEF InCall
    <3>4. StoreTypeOK'
      BY <2>2, <3>1 DEF StoreTypeOK
    <3>5. QED
      BY <2>2, <3>3, <3>4
  <2>5. QED
    BY <2>3, <2>4
<1>9. CASE CloseMessage
  <2>1. target \in Ids /\ rec \in Record
    BY <1>9 DEF CloseMessage, At, InCall
  <2>2. DOMAIN files' \subseteq Ids /\ \A i \in DOMAIN files' : files'[i] \in Record \cup {Lost}
    BY <1>9, <2>1, PutType DEF CloseMessage
  <2>3. QED
    BY <1>9, <2>2, DoneInv DEF CloseMessage, StoreTypeOK, SoundWindow
<1>10. CASE RemoveEntry
  <2>1. meta' \in Windows /\ SoundWindow(meta)'
    BY <1>0, <1>10 DEF RemoveEntry, StoreTypeOK, SoundWindow
  <2>2. DOMAIN files' \subseteq Ids /\ \A i \in DOMAIN files' : files'[i] \in Record \cup {Lost}
    BY <1>10, UnlinkType DEF RemoveEntry, StoreTypeOK
  <2>3. UNCHANGED <<op, pc, ram, target, rec, faults>> /\ pc = "clear"
    BY <1>10 DEF RemoveEntry, At
  <2>4. StoreTypeOK'
    BY <2>1, <2>2, <2>3 DEF StoreTypeOK
  <2>5. InCall'
    BY <2>3 DEF InCall
  <2>6. QED
    BY <2>1, <2>4, <2>5
<1>11. CASE RemovedAll
  BY <1>11, DoneInv DEF RemovedAll, StoreTypeOK, SoundWindow
<1>12. CASE RemoveFails
  <2>1. faults' \in Nat
    BY <1>12 DEF RemoveFails, Fails, StoreTypeOK
  <2>2. /\ UNCHANGED <<meta, files, op, target, rec>> /\ ram' = Zero
        /\ pc = "clear" /\ pc' = "metaOpen"
    BY <1>12 DEF RemoveFails, At
  <2>3. op = "clear" /\ target = 0
    BY <2>2 DEF InCall
  <2>4. QED
    BY <1>0, <2>1, <2>2, <2>3 DEF StoreTypeOK, InCall, SoundWindow
<1>13. CASE CallFails
  <2>1. faults' \in Nat
    BY <1>13 DEF CallFails, Fails, StoreTypeOK
  <2>2. CASE Done
    BY <1>13, <2>1, <2>2, DoneInv DEF CallFails, StoreTypeOK, SoundWindow
  <2>3. CASE ~Done
    <3>1. /\ pc \in {"metaOpen", "metaWrite"} /\ target # 0
          /\ pc' = "close" /\ UNCHANGED <<meta, files, op, ram, target, rec>>
      BY <1>13, <2>3 DEF CallFails, At
    <3>2. op = "append" /\ rec \in Fresh /\ target \in Ids
      BY <3>1, FreshRecord, WindowArith, StoreAssumption DEF InCall, StoreTypeOK, Ids
    <3>3. QED
      BY <2>1, <3>1, <3>2, FreshRecord DEF StoreTypeOK, InCall, SoundWindow
  <2>4. QED
    BY <2>2, <2>3
<1>14. CASE PowerLoss
  <2>1. faults' \in Nat /\ Done
    BY <1>14 DEF PowerLoss, Fails, StoreTypeOK
  <2>2. target # 0 => target \in Ids
    BY DEF StoreTypeOK
  <2>3. DOMAIN files' \subseteq Ids /\ \A i \in DOMAIN files' : files'[i] \in Record \cup {Lost}
    <3>1. files' = files \/ (target # 0 /\ files' = Put(target, rec))
      BY <1>14 DEF PowerLoss
    <3>2. QED
      BY <2>2, <3>1, PutType DEF StoreTypeOK
  <2>4. meta' \in Windows /\ SoundWindow(meta)'
    <3>1. meta' = meta \/ (pc = "metaWrite" /\ meta' = ram)
      BY <1>14 DEF PowerLoss, At
    <3>2. QED
      BY <3>1 DEF InCall, StoreTypeOK, SoundWindow
  <2>5. QED
    BY <2>1, <2>3, <2>4, DoneInv
<1>15. CASE UNCHANGED svars
  BY <1>15 DEF svars, StoreTypeOK, InCall, SoundWindow
<1>16. QED
  BY <1>1, <1>2, <1>3, <1>4, <1>5, <1>6, <1>7, <1>8, <1>9, <1>10, <1>11, <1>12, <1>13,
     <1>14, <1>15 DEF StoreNext

(* The store keeps its types and its sound windows for every conversation. *)
THEOREM StoreInvariant == StoreSpec => []SInv
<1>1. QED
  BY StoreInitInv, StoreStep, PTL DEF StoreSpec

(* Every value the store's state takes has its type. *)
THEOREM StoreTypes == StoreSpec => []StoreTypeOK
<1>1. SInv => StoreTypeOK
  BY DEF SInv
<1>2. QED
  BY <1>1, StoreInvariant, PTL

(* The count of meta.bin always agrees with its two ends. *)
THEOREM WindowIsSound == StoreSpec => []WindowSound
<1>1. SInv => WindowSound
  BY DEF SInv, InCall, WindowSound, LogMeta
<1>2. QED
  BY <1>1, StoreInvariant, PTL

-----------------------------------------------------------------------------
(* The refinement: every storage call is a step of the log, or no step. *)

LEMMA WindowIds ==
  ASSUME SInv PROVE Window(LogMeta) \subseteq Ids /\ 0 \notin Window(LogMeta)
<1>1. SoundWindow(LogMeta) /\ LogMeta \in Windows
  BY DEF SInv, InCall, StoreTypeOK, LogMeta
<1>2. QED
  BY <1>1, StoreAssumption DEF Window, Windows, SoundWindow, Zero, Ids

LEMMA SameLog ==
  ASSUME LogMeta' = LogMeta, \A i \in Window(LogMeta) : Shown(i)' = Shown(i)
  PROVE  ShownLog' = ShownLog
<1>1. Window(LogMeta)' = Window(LogMeta)
  BY DEF Window
<1>2. QED
  BY <1>1 DEF ShownLog

LEMMA EmptyLog == ASSUME LogMeta' = Zero PROVE ShownLog' = Thread!NoLog
<1>1. Window(LogMeta)' = {}
  BY DEF Window, Zero
<1>2. QED
  BY <1>1 DEF ShownLog, Thread!NoLog

LEMMA EmptyLogNow == ASSUME LogMeta = Zero PROVE ShownLog = Thread!NoLog
<1>1. Window(LogMeta) = {}
  BY DEF Window, Zero
<1>2. QED
  BY <1>1 DEF ShownLog, Thread!NoLog

LEMMA OneLess ==
  ASSUME LogMeta' = LogMeta, NEW id \in Window(LogMeta),
         Shown(id)' = Lost,
         \A i \in Window(LogMeta) : i # id => Shown(i)' = Shown(i)
  PROVE  ShownLog' = [ShownLog EXCEPT ![id] = Lost]
<1>1. Window(LogMeta)' = Window(LogMeta)
  BY DEF Window
<1>2. QED
  BY <1>1 DEF ShownLog

LEMMA LogInit == StoreInit => Thread!Init
<1> SUFFICES ASSUME StoreInit PROVE Thread!Init
  OBVIOUS
<1>1. LogMeta = Zero
  BY DEF StoreInit, LogMeta
<1>2. QED
  BY <1>1, EmptyLogNow DEF StoreInit, Thread!Init

LEMMA AppendLog ==
  ASSUME SInv, OpenMeta, op = "append"
  PROVE  Thread!Next
<1> DEFINE w == Truncated(meta)
<1>0. PICK id \in Nat : id = NewId(meta)
  <2>1. NewId(meta) \in Nat
    BY WindowArith DEF SInv, StoreTypeOK
  <2>2. QED
    BY <2>1
<1>1. /\ target = id /\ rec \in Fresh /\ id <= MaxId /\ ram = Appended(w)
      /\ pc = "metaOpen"
  BY <1>0 DEF OpenMeta, At, SInv, InCall
<1>2. /\ meta \in Windows /\ SoundWindow(meta) /\ id \in Nat \ {0} /\ id \in Ids
      /\ ram \in Windows /\ SoundWindow(ram) /\ ram.end = id
  BY <1>0, <1>1, WindowArith, StoreAssumption DEF SInv, StoreTypeOK, Ids
<1>3. LogMeta = meta /\ LogMeta' = ram
  BY <1>1 DEF LogMeta, OpenMeta
<1>4. PICK m \in Msgs : rec = <<m, "SENT">>
  BY <1>1 DEF Fresh
<1>5. /\ \A j \in Window(meta) : j < id
      /\ IF Window(meta) = {} THEN id = 1 ELSE id - 1 \in Window(meta)
      /\ Window(ram) = {id} \cup {k \in Window(meta) : k > id - Capacity}
  <2>1. CASE meta = Zero
    <3>1. id = 1 /\ Window(meta) = {} /\ w = Zero
      BY <1>0, <2>1, StoreAssumption DEF NewId, Window, Zero, Truncated
    <3>2. ram = [count |-> 1, start |-> 1, end |-> 1]
      BY <1>1, <3>1 DEF Appended, NewId, Zero
    <3>3. Window(ram) = {1}
      BY <3>2 DEF Window
    <3>4. QED
      BY <3>1, <3>3
  <2>2. CASE meta # Zero
    <3>1. /\ meta.count \in Nat /\ meta.start \in Nat /\ meta.end \in Nat
          /\ meta.start >= 1 /\ meta.count >= 1 /\ meta.count <= Capacity
          /\ meta.count = meta.end - meta.start + 1
      BY <1>2, <2>2 DEF SoundWindow, Windows
    <3>2. id = meta.end + 1 /\ Window(meta) = meta.start .. meta.end
      BY <1>0, <3>1 DEF NewId, Window
    <3>3. ram.start = (IF meta.count = Capacity THEN meta.start + 1 ELSE meta.start) /\ ram.count >= 1
      BY <1>1, <3>1, StoreAssumption DEF Truncated, Dropped, Appended
    <3>4. Window(ram) = ram.start .. id
      BY <1>2, <3>3 DEF Window
    <3>5. QED
      BY SMTT(20), <1>2, <3>1, <3>2, <3>3, <3>4, StoreAssumption DEF Windows
  <2>3. QED
    BY <2>1, <2>2
<1>6. target' = id /\ rec' = rec /\ files' = files /\ op' = op /\ faults' = faults
  BY <1>1 DEF OpenMeta
<1>7. Shown(id)' = rec /\ \A k \in Window(meta) : Shown(k)' = Shown(k)
  BY <1>1, <1>6 DEF Shown
<1>8. DOMAIN ShownLog = Window(meta) /\ \A k \in Window(meta) : ShownLog[k] = Shown(k)
  BY <1>3 DEF ShownLog
<1>9. ShownLog' = [j \in Window(ram) |-> IF j = id THEN rec ELSE ShownLog[j]]
  <2>1. Window(LogMeta)' = Window(ram)
    BY <1>3 DEF Window
  <2>2. ShownLog' = [j \in Window(ram) |-> Shown(j)']
    BY <2>1 DEF ShownLog
  <2>3. \A j \in Window(ram) : Shown(j)' = IF j = id THEN rec ELSE ShownLog[j]
    BY <1>5, <1>7, <1>8
  <2>4. QED
    BY <2>2, <2>3
<1>10. Thread!Append(m)
  <2>1. id \in Thread!Ids
    BY <1>2 DEF Ids, Thread!Ids
  <2>2. ShownLog' = [j \in {id} \cup {k \in DOMAIN ShownLog : k > id - Capacity} |->
                       IF j = id THEN <<m, "SENT">> ELSE ShownLog[j]]
    BY <1>4, <1>5, <1>8, <1>9
  <2>3. QED
    BY <1>5, <1>6, <1>8, <2>1, <2>2 DEF Thread!Append
<1>11. QED
  BY <1>10 DEF Thread!Next

LEMMA LogStep == SInv /\ SInv' /\ [StoreNext]_svars => [Thread!Next]_<<ShownLog, op, faults>>
<1> SUFFICES ASSUME SInv, SInv', [StoreNext]_svars
             PROVE  Thread!Next \/ UNCHANGED <<ShownLog, op, faults>>
  OBVIOUS
<1>0. 0 \notin Window(LogMeta) /\ Window(LogMeta) \subseteq Ids
  BY WindowIds
<1>00. DOMAIN ShownLog = Window(LogMeta) /\ \A k \in Window(LogMeta) : ShownLog[k] = Shown(k)
  BY DEF ShownLog
<1>1. ASSUME NEW m \in Msgs, StartAppend(m) PROVE Thread!Begin("append")
  <2>1. target = 0 /\ op = "no"
    BY <1>1 DEF StartAppend, At, SInv, InCall
  <2>2. LogMeta' = LogMeta
    BY <1>1 DEF StartAppend, At, LogMeta
  <2>3. ShownLog' = ShownLog
    BY <1>0, <1>1, <2>1, <2>2, SameLog DEF StartAppend, Shown
  <2>4. QED
    BY <1>1, <2>1, <2>3 DEF StartAppend, Thread!Begin, Thread!Op
<1>2. ASSUME NEW id \in DOMAIN files, NEW s \in Status, StartUpdate(id, s)
      PROVE  Thread!MarkOther \/ (id \in DOMAIN ShownLog /\ Thread!Mark(id, s))
  <2>1. /\ target = 0 /\ op = "no" /\ op' = "status" /\ target' = id /\ faults' = faults
        /\ rec' = <<files[id][1], s>> /\ files' = Put(id, Lost) /\ files[id] # Lost
    BY <1>2 DEF StartUpdate, At, SInv, InCall
  <2>2. LogMeta' = LogMeta
    BY <1>2 DEF StartUpdate, At, LogMeta
  <2>3. \A k \in Window(LogMeta) : k # id => Shown(k)' = Shown(k)
    BY <1>0, <2>1 DEF Shown, Put
  <2>4. CASE id \notin Window(LogMeta)
    <3>1. ShownLog' = ShownLog
      BY <2>2, <2>3, <2>4, SameLog
    <3>2. QED
      BY <2>1, <3>1 DEF Thread!MarkOther
  <2>5. CASE id \in Window(LogMeta)
    <3>1. Shown(id) = files[id] /\ Shown(id)' = <<files[id][1], s>>
      BY <1>0, <2>1, <2>5 DEF Shown
    <3>2. Window(LogMeta)' = Window(LogMeta)
      BY <2>2 DEF Window
    <3>3. ShownLog' = [ShownLog EXCEPT ![id] = <<ShownLog[id][1], s>>]
      BY <1>00, <2>3, <2>5, <3>1, <3>2 DEF ShownLog
    <3>4. QED
      BY <1>00, <2>1, <2>5, <3>1, <3>3 DEF Thread!Mark, Thread!Lost, Lost
  <2>6. QED
    BY <2>4, <2>5
<1>3. CASE StartSave
  <2>1. target = 0 /\ op = "no"
    BY <1>3 DEF StartSave, At, SInv, InCall
  <2>2. LogMeta' = LogMeta
    BY <1>3 DEF StartSave, At, LogMeta
  <2>3. ShownLog' = ShownLog
    BY <1>3, <2>2, SameLog DEF StartSave, Shown
  <2>4. Thread!Begin("position")
    BY <1>3, <2>1, <2>3 DEF StartSave, Thread!Begin, Thread!Op
  <2>5. QED
    BY <2>4 DEF Thread!Next, Thread!Op
<1>4. CASE StartClear
  <2>1. target = 0 /\ op = "no"
    BY <1>4 DEF StartClear, At, SInv, InCall
  <2>2. LogMeta' = LogMeta
    BY <1>4 DEF StartClear, At, LogMeta
  <2>3. ShownLog' = ShownLog
    BY <1>4, <2>2, SameLog DEF StartClear, Shown
  <2>4. Thread!Begin("clear")
    BY <1>4, <2>1, <2>3 DEF StartClear, Thread!Begin, Thread!Op
  <2>5. QED
    BY <2>4 DEF Thread!Next, Thread!Op
<1>5. CASE DropOldestMessage
  <2>1. /\ ram = meta /\ meta.count = Capacity /\ target = 0 /\ op = "append"
        /\ files' = Unlink(meta.start) /\ UNCHANGED <<op, faults, target, rec, meta>>
    BY <1>5 DEF DropOldestMessage, At, SInv, InCall
  <2>2. LogMeta = meta /\ LogMeta' = meta
    BY <1>5 DEF DropOldestMessage, At, LogMeta
  <2>3. PICK low \in Nat : low = meta.start
    BY DEF SInv, StoreTypeOK, Windows
  <2>4. low \in Window(meta) /\ low + Capacity - 1 \in Window(meta)
    BY <2>1, <2>3, StoreAssumption DEF SInv, StoreTypeOK, Windows, SoundWindow, Window, Zero
  <2>5. Shown(low)' = Lost /\ \A k \in Window(meta) : k # low => Shown(k)' = Shown(k)
    BY <1>0, <2>1, <2>2, <2>3, <2>4 DEF Shown, Unlink
  <2>6. ShownLog' = [ShownLog EXCEPT ![low] = Lost]
    BY <2>2, <2>4, <2>5, OneLess
  <2>7. Thread!Expire
    BY <1>00, <2>1, <2>2, <2>4, <2>6 DEF Thread!Expire, Thread!Lost, Lost
  <2>8. QED
    BY <2>7 DEF Thread!Next
<1>6. CASE OpenMessage
  <2>1. /\ target = 0 /\ target' = NewId(ram) /\ files' = Put(NewId(ram), Lost)
        /\ ram = Truncated(meta) /\ NewId(meta) <= MaxId /\ op' = op /\ faults' = faults
    BY <1>6 DEF OpenMessage, At, SInv, InCall
  <2>2. LogMeta = meta /\ LogMeta' = meta
    BY <1>6 DEF OpenMessage, At, LogMeta
  <2>3. meta \in Windows /\ SoundWindow(meta) /\ NewId(ram) = NewId(meta)
    BY <2>1, WindowArith DEF SInv, StoreTypeOK
  <2>4. \A k \in Window(meta) : k # NewId(ram)
    BY <2>3 DEF Window, NewId, SoundWindow, Windows, Zero
  <2>5. \A k \in Window(meta) : Shown(k)' = Shown(k)
    BY <1>0, <2>1, <2>2, <2>4 DEF Shown, Put
  <2>6. QED
    BY <2>1, <2>2, <2>5, SameLog
<1>7. CASE OpenMeta
  <2>1. /\ UNCHANGED <<files, op, ram, target, rec, faults>>
        /\ LogMeta = meta /\ LogMeta' = ram
        /\ op = "append" \/ (op = "position" /\ ram = meta) \/ (op = "clear" /\ ram = Zero)
    BY <1>7 DEF OpenMeta, At, LogMeta, SInv, InCall
  <2>2. CASE op = "append"
    BY <1>7, <2>2, AppendLog
  <2>3. CASE op = "position" /\ ram = meta
    <3>1. ShownLog' = ShownLog
      BY <2>1, <2>3, SameLog DEF Shown
    <3>2. QED
      BY <2>1, <3>1
  <2>4. CASE op = "clear" /\ ram = Zero
    <3>1. ShownLog' = Thread!NoLog
      BY <2>1, <2>4, EmptyLog
    <3>2. Thread!Erase
      BY <2>1, <2>4, <3>1 DEF Thread!Erase
    <3>3. QED
      BY <3>2 DEF Thread!Next
  <2>5. QED
    BY <2>1, <2>2, <2>3, <2>4
<1>8. CASE WriteMeta
  <2>1. LogMeta = ram /\ LogMeta' = ram /\ files' = files /\ faults' = faults /\ op # "no"
    BY <1>8 DEF WriteMeta, At, LogMeta, Done, SInv, InCall
  <2>2. CASE target = 0
    <3>1. Done /\ target' = target
      BY <1>8, <2>2 DEF WriteMeta, Done
    <3>2. ShownLog' = ShownLog
      BY <1>0, <2>1, <2>2, <3>1, SameLog DEF Shown
    <3>3. Thread!Return
      BY <2>1, <3>1, <3>2 DEF Thread!Return, Done
    <3>4. QED
      BY <3>3 DEF Thread!Next
  <2>3. CASE target # 0
    <3>1. UNCHANGED <<op, target, rec>>
      BY <1>8, <2>3 DEF WriteMeta
    <3>2. ShownLog' = ShownLog
      BY <2>1, <3>1, SameLog DEF Shown
    <3>3. QED
      BY <2>1, <3>1, <3>2
  <2>4. QED
    BY <2>2, <2>3
<1>9. CASE CloseMessage
  <2>1. /\ Done /\ LogMeta = meta /\ LogMeta' = meta /\ faults' = faults /\ op # "no"
        /\ files' = Put(target, rec)
    BY <1>9 DEF CloseMessage, At, LogMeta, Done, SInv, InCall
  <2>2. \A k \in Window(LogMeta) : Shown(k)' = Shown(k)
    BY <1>0, <2>1 DEF Shown, Put, Done
  <2>3. ShownLog' = ShownLog
    BY <2>1, <2>2, SameLog
  <2>4. Thread!Return
    BY <2>1, <2>3 DEF Thread!Return, Done
  <2>5. QED
    BY <2>4 DEF Thread!Next
<1>10. CASE RemoveEntry
  <2>1. target = 0 /\ op = "clear" /\ UNCHANGED <<op, pc, target, rec, faults>> /\ pc = "clear"
    BY <1>10 DEF RemoveEntry, At, SInv, InCall
  <2>2. ShownLog' = Thread!NoLog \/ Thread!Weaker(ShownLog')
    <3>1. CASE meta' = Zero
      BY <2>1, <3>1, EmptyLog DEF LogMeta
    <3>2. CASE meta' # Zero
      <4>1. meta' = meta /\ LogMeta' = LogMeta
        BY <1>10, <2>1, <3>2 DEF RemoveEntry, LogMeta
      <4>2. PICK id \in DOMAIN files : files' = Unlink(id)
        BY <1>10, <3>2, <4>1 DEF RemoveEntry
      <4>3. \A k \in Window(LogMeta) : Shown(k)' \in {Shown(k), Lost}
        BY <1>0, <2>1, <4>2 DEF Shown, Unlink
      <4>4. Window(LogMeta)' = Window(LogMeta)
        BY <4>1 DEF Window
      <4>5. QED
        BY <4>3, <4>4 DEF ShownLog, Thread!Weaker, Thread!Lost, Lost
    <3>3. QED
      BY <3>1, <3>2
  <2>3. Thread!Erase
    BY <2>1, <2>2 DEF Thread!Erase
  <2>4. QED
    BY <2>3 DEF Thread!Next
<1>11. CASE RemovedAll
  <2>1. Done /\ target = 0 /\ UNCHANGED <<meta, files, faults>> /\ op # "no" /\ pc = "clear"
    BY <1>11 DEF RemovedAll, At, SInv, InCall
  <2>2. LogMeta' = LogMeta
    BY <2>1 DEF LogMeta, Done
  <2>3. ShownLog' = ShownLog
    BY <1>0, <2>1, <2>2, SameLog DEF Shown, Done
  <2>4. Thread!Return
    BY <2>1, <2>3 DEF Thread!Return, Done
  <2>5. QED
    BY <2>4 DEF Thread!Next
<1>12. CASE RemoveFails
  <2>1. /\ UNCHANGED <<meta, files, op, target, rec>> /\ faults' = faults + 1
        /\ pc = "clear" /\ pc' = "metaOpen"
    BY <1>12 DEF RemoveFails, At, Fails
  <2>2. ShownLog' = ShownLog
    BY <2>1, SameLog DEF Shown, LogMeta
  <2>3. Thread!Fault
    BY <2>1, <2>2 DEF Thread!Fault
  <2>4. QED
    BY <2>3 DEF Thread!Next
<1>13. CASE CallFails
  <2>1. UNCHANGED <<meta, files>> /\ faults' = faults + 1
    BY <1>13 DEF CallFails, Fails
  <2>2. CASE pc \in {"drop", "open"} \/ (pc = "metaOpen" /\ target = 0)
    <3>1. Done /\ target = 0
      BY <1>13, <2>2 DEF CallFails, At, SInv, InCall
    <3>2. LogMeta' = LogMeta
      BY <2>1, <2>2, <3>1 DEF LogMeta, Done
    <3>3. ShownLog' = ShownLog
      BY <1>0, <2>1, <3>1, <3>2, SameLog DEF Shown, Done
    <3>4. QED
      BY <2>1, <3>1, <3>3 DEF Thread!Fault, Thread!Next, Done
  <2>3. CASE pc = "close"
    <3>1. Done /\ target # 0 /\ target \in DOMAIN files /\ files[target] = Lost
          /\ op \in {"append", "status"}
      BY <1>13, <2>3 DEF CallFails, At, SInv, InCall, Ids
    <3>2. LogMeta' = LogMeta
      BY <2>1, <2>3, <3>1 DEF LogMeta, Done
    <3>3. PICK id \in Ids : id = target
      BY <3>1 DEF SInv, StoreTypeOK
    <3>4. \A k \in Window(LogMeta) : k # id => Shown(k)' = Shown(k)
      BY <1>0, <2>1, <3>1, <3>3 DEF Shown, Done
    <3>5. id \in Window(LogMeta) => Shown(id)' = Lost
      BY <1>0, <2>1, <3>1, <3>3 DEF Shown, Done
    <3>6. CASE id \in Window(LogMeta)
      <4>1. ShownLog' = [ShownLog EXCEPT ![id] = Lost]
        BY <3>2, <3>4, <3>5, <3>6, OneLess
      <4>2. Thread!OneLost
        BY <1>00, <3>6, <4>1 DEF Thread!OneLost, Thread!Lost, Lost
      <4>3. QED
        BY <2>1, <3>1, <4>2 DEF Thread!Fault, Thread!Next, Done
    <3>7. CASE id \notin Window(LogMeta)
      <4>1. ShownLog' = ShownLog
        BY <3>2, <3>4, <3>7, SameLog
      <4>2. QED
        BY <2>1, <3>1, <4>1 DEF Thread!Fault, Thread!Next, Done
    <3>8. QED
      BY <3>6, <3>7
  <2>4. CASE pc = "metaOpen" /\ target # 0
    <3>1. pc' = "close" /\ UNCHANGED <<op, ram, target, rec>>
      BY <1>13, <2>4 DEF CallFails, At
    <3>2. ShownLog' = ShownLog
      BY <2>1, <2>4, <3>1, SameLog DEF LogMeta, Shown
    <3>3. QED
      BY <2>1, <3>1, <3>2 DEF Thread!Fault, Thread!Next
  <2>5. CASE pc = "metaWrite"
    <3>1. meta = Zero /\ op \in {"position", "clear", "append"} /\ pc' # "metaWrite"
          /\ op' \in {op, "no"}
      BY <1>13, <2>5 DEF CallFails, At, Done, SInv, InCall
    <3>2. ShownLog' = Thread!NoLog
      BY <2>1, <3>1, EmptyLog DEF LogMeta
    <3>3. QED
      BY <2>1, <3>1, <3>2 DEF Thread!Fault, Thread!Next
  <2>6. QED
    BY <1>13, <2>2, <2>3, <2>4, <2>5 DEF CallFails, At
<1>14. CASE PowerLoss
  <2>1. Done /\ faults' = faults + 1 /\ op' = "no" /\ target' = 0 /\ LogMeta' = meta'
    BY <1>14 DEF PowerLoss, Fails, Done, LogMeta
  <2>2. /\ files' = files \/ (target # 0 /\ files' = Put(target, rec))
        /\ meta' = meta \/ (pc = "metaWrite" /\ meta' = ram)
    BY <1>14 DEF PowerLoss, At
  <2>3. CASE pc = "metaWrite" /\ meta' = meta
    <3>1. meta = Zero /\ op \in {"position", "clear", "append"}
      BY <2>3 DEF SInv, InCall
    <3>2. ShownLog' = Thread!NoLog
      BY <2>1, <2>3, <3>1, EmptyLog
    <3>3. QED
      BY <2>1, <3>1, <3>2 DEF Thread!Fault, Thread!Next
  <2>4. CASE ~(pc = "metaWrite" /\ meta' = meta)
    <3>1. LogMeta' = LogMeta
      BY <2>1, <2>2, <2>4 DEF LogMeta
    <3>2. target # 0 => target \in DOMAIN files /\ files[target] = Lost /\ target \in Ids
      BY DEF SInv, InCall, StoreTypeOK
    <3>3. PICK id \in Ids \cup {0} : id = target
      BY DEF SInv, StoreTypeOK
    <3>4. \A k \in Window(LogMeta) : k # id => Shown(k)' = Shown(k)
      <4>1. CASE files' = files
        BY <1>0, <2>1, <3>3, <4>1 DEF Shown
      <4>2. CASE target # 0 /\ files' = Put(target, rec)
        BY <1>0, <2>1, <3>3, <4>2 DEF Shown, Put
      <4>3. QED
        BY <2>2, <4>1, <4>2
    <3>5. id \in Window(LogMeta) => Shown(id)' \in {Shown(id), Lost}
      <4>1. CASE files' = files
        BY <1>0, <2>1, <3>2, <3>3, <4>1 DEF Shown
      <4>2. CASE target # 0 /\ files' = Put(target, rec)
        BY <1>0, <2>1, <3>3, <4>2 DEF Shown, Put
      <4>3. QED
        BY <2>2, <4>1, <4>2
    <3>6. CASE id \in Window(LogMeta) /\ Shown(id)' = Lost
      <4>1. ShownLog' = [ShownLog EXCEPT ![id] = Lost]
        BY <3>1, <3>4, <3>6, OneLess
      <4>2. Thread!OneLost
        BY <1>00, <3>6, <4>1 DEF Thread!OneLost, Thread!Lost, Lost
      <4>3. target # 0
        BY <1>0, <3>3, <3>6
      <4>4. op \in {"append", "status"}
        BY <4>3 DEF SInv, InCall, StoreTypeOK
      <4>5. QED
        BY <2>1, <4>2, <4>4 DEF Thread!Fault, Thread!Next
    <3>7. CASE ~(id \in Window(LogMeta) /\ Shown(id)' = Lost)
      <4>1. ShownLog' = ShownLog
        BY <3>1, <3>4, <3>5, <3>7, SameLog
      <4>2. QED
        BY <2>1, <4>1 DEF Thread!Fault, Thread!Next
    <3>8. QED
      BY <3>6, <3>7
  <2>5. QED
    BY <2>3, <2>4
<1>15. CASE UNCHANGED svars
  <2>1. LogMeta' = LogMeta /\ \A k \in Window(LogMeta) : Shown(k)' = Shown(k)
    BY <1>15 DEF svars, LogMeta, Shown
  <2>2. QED
    BY <1>15, <2>1, SameLog DEF svars
<1>16. ASSUME NEW m \in Msgs, StartAppend(m) PROVE Thread!Next
  BY <1>1, <1>16 DEF Thread!Next, Thread!Op
<1>17. ASSUME NEW id \in DOMAIN files, NEW s \in Status, StartUpdate(id, s) PROVE Thread!Next
  BY <1>2, <1>17 DEF Thread!Next, Thread!Status, Status
<1>18. QED
  BY <1>16, <1>17, <1>3, <1>4, <1>5, <1>6, <1>7, <1>8, <1>9, <1>10, <1>11, <1>12, <1>13,
     <1>14, <1>15 DEF StoreNext

(* The store implements the log: whatever a reader sees of a conversation    *)
(* changes only as ThreadLog allows.                                          *)
THEOREM StoreImplementsLog == StoreSpec => LogSpec
<1>1. SInv /\ [StoreNext]_svars => SInv'
  BY StoreStep
<1>2. QED
  BY <1>1, StoreInvariant, LogInit, LogStep, PTL DEF StoreSpec, LogSpec, Thread!Spec

-----------------------------------------------------------------------------
(* Without a fault, the only id of the window that cannot be read while an   *)
(* append is under way is the one it is dropping.                            *)
Whole(i) == i \in DOMAIN files /\ files[i] # Lost

Dropping(i) == /\ pc \in {"open", "metaOpen"} /\ op = "append"
               /\ meta.count = Capacity /\ i = meta.start

WholeInv ==
  faults = 0 =>
    /\ op = "clear" => pc = "clear"
    /\ op # "clear" => \A i \in Window(LogMeta) : Whole(i) \/ i = target \/ Dropping(i)

LEMMA WholeInit == StoreInit => WholeInv
BY DEF StoreInit, WholeInv, LogMeta, Window, Zero

LEMMA WholeStep == SInv /\ WholeInv /\ [StoreNext]_svars => WholeInv'
<1> SUFFICES ASSUME SInv, WholeInv, [StoreNext]_svars, faults' = 0 PROVE WholeInv'
  BY DEF WholeInv
<1>f. faults \in Nat /\ meta \in Windows /\ SoundWindow(meta) /\ WindowSound
  BY DEF SInv, StoreTypeOK, InCall, WindowSound, LogMeta
<1>0. 0 \notin Window(LogMeta)
  BY WindowIds
<1>1. ASSUME NEW m \in Msgs, StartAppend(m) PROVE WholeInv'
  <2>1. /\ target = 0 /\ op = "no" /\ UNCHANGED <<meta, files, target, faults>> /\ op' = "append"
        /\ LogMeta' = meta /\ LogMeta = meta /\ pc = "idle"
    BY <1>1 DEF StartAppend, At, SInv, InCall, LogMeta
  <2>2. \A i \in Window(meta) : Whole(i)
    BY <1>0, <2>1 DEF WholeInv, Dropping
  <2>3. QED
    BY <2>1, <2>2 DEF WholeInv, Whole, Window
<1>2. ASSUME NEW id \in DOMAIN files, NEW s \in Status, StartUpdate(id, s) PROVE WholeInv'
  <2>1. /\ target = 0 /\ op = "no" /\ UNCHANGED <<meta, faults>> /\ op' = "status"
        /\ target' = id /\ files' = Put(id, Lost)
        /\ LogMeta' = meta /\ LogMeta = meta /\ pc = "idle"
    BY <1>2 DEF StartUpdate, At, SInv, InCall, LogMeta
  <2>2. \A i \in Window(meta) : Whole(i)
    BY <1>0, <2>1 DEF WholeInv, Dropping
  <2>3. \A i \in Window(meta) : i # id => Whole(i)'
    BY <2>1, <2>2 DEF Whole, Put
  <2>4. QED
    BY <2>1, <2>3 DEF WholeInv, Window
<1>3. CASE StartSave
  <2>1. /\ target = 0 /\ op = "no" /\ UNCHANGED <<meta, files, target, faults>> /\ op' = "position"
        /\ LogMeta' = meta /\ LogMeta = meta /\ pc = "idle"
    BY <1>3 DEF StartSave, At, SInv, InCall, LogMeta
  <2>2. \A i \in Window(meta) : Whole(i)
    BY <1>0, <2>1 DEF WholeInv, Dropping
  <2>3. QED
    BY <2>1, <2>2 DEF WholeInv, Whole, Window
<1>4. CASE StartClear
  BY <1>4 DEF StartClear, WholeInv
<1>5. CASE DropOldestMessage
  <2>1. /\ ram = meta /\ meta.count = Capacity /\ files' = Unlink(meta.start)
        /\ UNCHANGED <<op, faults, target, meta>> /\ op = "append" /\ pc = "drop" /\ pc' = "open"
        /\ LogMeta = meta /\ LogMeta' = meta
    BY <1>5 DEF DropOldestMessage, At, SInv, InCall, LogMeta
  <2>2. \A i \in Window(meta) : Whole(i) \/ i = target
    BY <2>1 DEF WholeInv, Dropping
  <2>3. \A i \in Window(meta) : i = meta.start \/ Whole(i)' \/ i = target'
    BY <2>1, <2>2 DEF Whole, Unlink
  <2>4. QED
    BY <2>1, <2>3 DEF WholeInv, Dropping, Window
<1>6. CASE OpenMessage
  <2>1. /\ files' = Put(NewId(ram), Lost) /\ target' = NewId(ram) /\ target = 0
        /\ UNCHANGED <<op, faults, meta>> /\ op = "append" /\ pc = "open" /\ pc' = "metaOpen"
        /\ LogMeta = meta /\ LogMeta' = meta
    BY <1>6 DEF OpenMessage, At, SInv, InCall, LogMeta
  <2>2. \A i \in Window(meta) : Whole(i) \/ Dropping(i)
    BY <1>0, <2>1 DEF WholeInv
  <2>3. \A i \in Window(meta) : Dropping(i)' \/ Whole(i)' \/ i = target'
    BY <2>1, <2>2 DEF Whole, Put, Dropping
  <2>4. QED
    BY <2>1, <2>3 DEF WholeInv, Window
<1>7. CASE OpenMeta
  <2>1. /\ UNCHANGED <<files, op, ram, target, rec, faults>> /\ pc = "metaOpen"
        /\ pc' = "metaWrite" /\ LogMeta = meta /\ LogMeta' = ram /\ op # "clear"
    BY <1>7 DEF OpenMeta, At, LogMeta, WholeInv
  <2>2. CASE op = "position"
    <3>1. ram = meta
      BY <2>1, <2>2 DEF SInv, InCall
    <3>2. \A i \in Window(meta) : Whole(i) \/ i = target
      BY <2>1, <2>2 DEF WholeInv, Dropping
    <3>3. QED
      BY <2>1, <3>1, <3>2 DEF WholeInv, Whole, Window
  <2>3. CASE op # "position"
    <3>1. /\ op = "append" /\ target = NewId(meta) /\ NewId(meta) <= MaxId
          /\ ram = Appended(Truncated(meta))
      BY <2>1, <2>3 DEF SInv, InCall
    <3>2. \A i \in Window(ram) : i = target \/ (i \in Window(meta) /\ ~Dropping(i))
      <4>1. CASE meta = Zero
        <5>1. target = 1 /\ Truncated(meta) = Zero
          BY <3>1, <4>1, StoreAssumption DEF NewId, Zero, Truncated
        <5>2. ram = [count |-> 1, start |-> 1, end |-> 1]
          BY <3>1, <5>1 DEF Appended, NewId, Zero
        <5>3. QED
          BY <5>1, <5>2 DEF Window
      <4>2. CASE meta # Zero
        <5>1. /\ meta.count \in Nat /\ meta.start \in Nat /\ meta.end \in Nat
              /\ meta.start >= 1 /\ meta.count >= 1 /\ meta.count <= Capacity
              /\ meta.count = meta.end - meta.start + 1
          BY <1>f, <4>2 DEF SoundWindow, Windows
        <5>2. target = meta.end + 1 /\ Window(meta) = meta.start .. meta.end
          BY <3>1, <5>1 DEF NewId, Window
        <5>3. /\ ram.start = IF meta.count = Capacity THEN meta.start + 1 ELSE meta.start
              /\ ram.end = target
          <6>1. ram.end = target
            BY <1>f, <3>1, WindowArith
          <6>2. QED
            BY <3>1, <5>1, <6>1, StoreAssumption DEF Truncated, Dropped, Appended
        <5>4. Window(ram) \subseteq ram.start .. target
          BY <5>3 DEF Window
        <5>5. QED
          BY <5>1, <5>2, <5>3, <5>4, StoreAssumption DEF Dropping
      <4>3. QED
        BY <4>1, <4>2
    <3>3. \A i \in Window(ram) : i = target \/ Whole(i)
      BY <2>1, <3>2 DEF WholeInv
    <3>4. QED
      BY <2>1, <3>3 DEF WholeInv, Whole, Window
  <2>4. QED
    BY <2>2, <2>3
<1>8. CASE WriteMeta
  <2>1. /\ LogMeta = ram /\ LogMeta' = ram /\ files' = files /\ faults' = faults
        /\ pc = "metaWrite" /\ op # "clear" /\ target' = target /\ op' # "clear"
    BY <1>8 DEF WriteMeta, At, LogMeta, Done, WholeInv
  <2>2. \A i \in Window(ram) : Whole(i) \/ i = target
    BY <2>1 DEF WholeInv, Dropping
  <2>3. \A i \in Window(LogMeta)' : Whole(i)' \/ i = target'
    BY <2>1, <2>2 DEF Whole, Window
  <2>4. QED
    BY <2>1, <2>3 DEF WholeInv
<1>9. CASE CloseMessage
  <2>1. /\ Done /\ LogMeta = meta /\ LogMeta' = meta /\ faults' = faults /\ meta' = meta
        /\ files' = Put(target, rec) /\ rec \in Record /\ pc = "close" /\ op # "clear"
    BY <1>9 DEF CloseMessage, At, LogMeta, Done, SInv, InCall
  <2>2. \A i \in Window(meta) : Whole(i) \/ i = target
    BY <2>1 DEF WholeInv, Dropping
  <2>3. \A i \in Window(meta) : Whole(i)'
    BY <2>1, <2>2, RecordNotLost DEF Whole, Put
  <2>4. QED
    BY <2>1, <2>3 DEF WholeInv, Done, Window
<1>10. CASE RemoveEntry
  BY <1>10 DEF RemoveEntry, At, WholeInv, SInv, InCall
<1>11. CASE RemovedAll
  BY <1>11 DEF RemovedAll, Done, WholeInv, LogMeta, Window, Zero
<1>12. CASE RemoveFails
  BY <1>f, <1>12 DEF RemoveFails, Fails
<1>13. CASE CallFails
  BY <1>f, <1>13 DEF CallFails, Fails
<1>14. CASE PowerLoss
  BY <1>f, <1>14 DEF PowerLoss, Fails
<1>15. CASE UNCHANGED svars
  BY <1>15 DEF svars, WholeInv, LogMeta, Whole, Window, Dropping
<1>16. QED
  BY <1>1, <1>2, <1>3, <1>4, <1>5, <1>6, <1>7, <1>8, <1>9, <1>10, <1>11, <1>12, <1>13,
     <1>14, <1>15 DEF StoreNext

(* As long as no call failed and no power was lost, every message of the     *)
(* window at rest can be read.                                               *)
THEOREM NothingUnreadable == StoreSpec => []WholeWithoutFaults
<1>1. SInv /\ WholeInv => WholeWithoutFaults
  <2> SUFFICES ASSUME SInv, WholeInv, faults = 0, op = "no",
                      NEW i \in Window(meta)
               PROVE  i \in DOMAIN files /\ files[i] # Lost
    BY DEF WholeWithoutFaults
  <2>1. pc = "idle" /\ target = 0 /\ LogMeta = meta
    BY DEF SInv, InCall, LogMeta
  <2>2. 0 \notin Window(meta)
    BY <2>1, WindowIds
  <2>3. QED
    BY <2>1, <2>2 DEF WholeInv, Whole, Dropping
<1>2. QED
  BY <1>1, StoreInvariant, WholeInit, WholeStep, PTL DEF StoreSpec
=============================================================================
