--------------------------- MODULE ThreadViewProofs ---------------------------
(***************************************************************************)
(* Proofs about ThreadView, for any bodies, ring and capacity of two or      *)
(* more, and none of the Risks: what the card says of a message is true,     *)
(* the thread saves the window the card has, and no message is lost.         *)
(***************************************************************************)
EXTENDS ThreadView, TLAPS

ViewTypes ==
  /\ meta \in Windows /\ view \in Windows
  /\ files \in [Window(meta) -> Nat \X Status]
  /\ popup \in BOOLEAN /\ link \in {"up", "lost", "down"}
  /\ ring \in Seq(Nat) /\ last \in Nat
  /\ flight \in [id : Nat, msg : Nat]
  /\ scan \in [id : Nat, rec : (Nat \X Status) \cup {Lost}]

(* The window has the ids from start to end, and no other has a file. *)
Shape(w) == /\ w.count = 0 => w = Zero
            /\ w.count > 0 => /\ 1 <= w.start /\ w.start <= w.end
                              /\ w.count = w.end - w.start + 1

(* A record is settled when the delivery of its body is over; one on its way *)
(* is that of the tracked message.                                           *)
Bodies ==
  /\ settled \subseteq 1 .. last
  /\ \A i \in Window(meta) :
       /\ files[i][1] \in 1 .. last
       /\ files[i][2] = "FINAL" <=> files[i][1] \in settled
       /\ files[i][2] = "SENT" => i = flight.id /\ files[i][1] = flight.msg

Tracked ==
  flight = NoFlight \/ (flight.id \in 1 .. meta.end /\ flight.msg \in (1 .. last) \ settled)

(* What waits in the ring is in no record yet; only a link brings it. *)
Arrived ==
  /\ \A i \in DOMAIN ring : ring[i] \in (1 .. last) \ (settled \cup {flight.msg})
  /\ \A i, j \in DOMAIN ring : ring[i] = ring[j] => i = j

Unlinked == link # "up" => ring = <<>>

(* The thread is behind the card only between an append and the next look at *)
(* meta.bin, with a link that this pass of loop() has not seen go.           *)
Adopted ==
  screen # "hub" /\ view # meta =>
    /\ screen = "thread" /\ scan = NoScan /\ link # "down" /\ view.end < meta.end
    /\ \/ step \in {"drain", "popup", "detect", "sendDrain", "send"}
       \/ step \in {"loop", "poll"} /\ link = "up"

OnScreen ==
  /\ screen # "thread" => step = "loop" /\ scan = NoScan
  /\ popup /\ screen # "hub" => link = "down"

(* The record in the render task's memory is the one on the card. *)
Rebuilding == scan.rec # Lost => scan.id \in Window(meta) /\ scan.rec = files[scan.id]

ThreadInv == /\ ViewTypes /\ Shape(meta) /\ Shape(view)
             /\ Bodies /\ Tracked /\ Arrived /\ Unlinked
             /\ Adopted /\ OnScreen /\ Rebuilding

(* What KeepsLog says of a step that is no clear. *)
LogKept == \A id \in Window(meta) :
             \/ Full /\ id = meta.start
             \/ id \in Window(meta') /\ files'[id][1] = files[id][1]

-----------------------------------------------------------------------------
(* The operations of the store *)

(* The ids of a window after an append: the oldest may go, the next one comes. *)
LEMMA NextWindow ==
  ASSUME meta \in Windows, Shape(meta)
  PROVE  LET w == Appended(Kept) IN
         /\ w \in Windows /\ Shape(w) /\ NewId(Kept) = w.end /\ w.end = meta.end + 1
         /\ Window(w) = (Window(meta) \ (IF Full THEN {meta.start} ELSE {})) \cup {w.end}
         /\ w.end \notin Window(meta) /\ w.count > 0
<1>1. CASE Full
  <2>1. Kept \in Windows /\ Kept.count > 0 /\ Kept.start <= Kept.end
        /\ Kept.end = meta.end /\ Kept.start = meta.start + 1 /\ Kept.count = meta.count - 1
    BY <1>1, ThreadAssumption DEF Kept, Full, Dropped, Shape, Windows
  <2>q. QED
    BY <1>1, <2>1 DEF Appended, NewId, Window, Shape, Windows
<1>2. CASE ~Full /\ meta.count = 0
  BY <1>2 DEF Kept, Appended, NewId, Window, Shape, Windows, Zero
<1>3. CASE ~Full /\ meta.count # 0
  BY <1>3 DEF Kept, Appended, NewId, Window, Shape, Windows
<1>q. QED
  BY <1>1, <1>2, <1>3

(* A record is appended; those that stay are not touched. *)
LEMMA Appends ==
  ASSUME ViewTypes, Shape(meta), NEW r \in Nat \X Status, AppendRecord(r)
  PROVE  /\ meta' \in Windows /\ Shape(meta') /\ meta'.end = meta.end + 1
         /\ files' \in [Window(meta') -> Nat \X Status]
         /\ meta'.end \in Window(meta') /\ files'[meta'.end] = r
         /\ \A i \in Window(meta') \ {meta'.end} : i \in Window(meta) /\ files'[i] = files[i]
         /\ LogKept
<1>1. meta' = Appended(Kept) /\ DOMAIN files = Window(meta)
  BY DEF AppendRecord, ViewTypes
<1>2. /\ meta' \in Windows /\ Shape(meta') /\ NewId(Kept) = meta'.end
      /\ meta'.end = meta.end + 1 /\ meta'.end \notin Window(meta)
      /\ Window(meta') = (Window(meta) \ (IF Full THEN {meta.start} ELSE {})) \cup {meta'.end}
  BY <1>1, NextWindow DEF ViewTypes
<1>3. files' = [i \in Window(meta') |-> IF i = meta'.end THEN r ELSE files[i]]
  BY <1>1, <1>2 DEF AppendRecord
<1>q. QED
  BY <1>2, <1>3 DEF ViewTypes, LogKept

(* The same, with the tracked message given up. *)
LEMMA Supersedes ==
  ASSUME ViewTypes, Shape(meta), Tracked, NEW r \in Nat \X Status, Supersede(r)
  PROVE  /\ meta' \in Windows /\ Shape(meta') /\ meta'.end = meta.end + 1
         /\ files' \in [Window(meta') -> Nat \X Status]
         /\ meta'.end \in Window(meta') /\ files'[meta'.end] = r
         /\ \A i \in Window(meta') \ {meta'.end} :
              /\ i \in Window(meta)
              /\ files'[i] = IF i = flight.id THEN <<files[i][1], "FINAL">> ELSE files[i]
         /\ LogKept
<1>1. meta' = Appended(Kept) /\ DOMAIN files = Window(meta)
  BY DEF Supersede, ViewTypes
<1>2. /\ meta' \in Windows /\ Shape(meta') /\ NewId(Kept) = meta'.end
      /\ meta'.end = meta.end + 1 /\ meta'.end \notin Window(meta)
      /\ Window(meta') = (Window(meta) \ (IF Full THEN {meta.start} ELSE {})) \cup {meta'.end}
  BY <1>1, NextWindow DEF ViewTypes
<1>3. flight.id # meta'.end
  <2>1. meta.end \in Nat
    BY DEF ViewTypes, Windows
  <2>2. flight.id = 0 \/ flight.id \in 1 .. meta.end
    BY DEF Tracked, NoFlight
  <2>q. QED
    BY <1>2, <2>1, <2>2
<1>4. files' = [i \in Window(meta') |->
                 IF i = flight.id THEN <<IF i = meta'.end THEN r[1] ELSE files[i][1], "FINAL">>
                 ELSE IF i = meta'.end THEN r ELSE files[i]]
  BY <1>1, <1>2 DEF Supersede
<1>q. QED
  BY <1>2, <1>3, <1>4 DEF ViewTypes, Status, LogKept

(* The end of a delivery changes one record, if it is still there. *)
LEMMA SettleKeeps ==
  ASSUME ViewTypes, files' = WithStatus(flight.id, "FINAL"), meta' = meta
  PROVE  /\ files' \in [Window(meta') -> Nat \X Status]
         /\ \A i \in Window(meta) :
              files'[i] = IF i = flight.id THEN <<files[i][1], "FINAL">> ELSE files[i]
BY DEF ViewTypes, WithStatus, Status

-----------------------------------------------------------------------------
(* The steps that leave the messages alone *)

(* What is true of the messages depends on the card, the radio and bodies. *)
LEMMA MessagesKept ==
  ASSUME ThreadInv, UNCHANGED <<card, net, flight, last, settled>>
  PROVE  /\ Shape(meta') /\ Bodies' /\ Tracked' /\ Arrived' /\ Unlinked'
         /\ Window(meta') = Window(meta)
BY DEF ThreadInv, card, net, Bodies, Tracked, Arrived, Unlinked

(* A thread that is not behind saves what is there. *)
LEMMA SavesNothing ==
  ASSUME view = meta
  PROVE  Saved(view) = meta
BY DEF Saved

(* Where the keys are looked at, the popup is closed, the keyboard is on top *)
(* or a rebuild is under way, the thread is not behind.                      *)
LEMMA UpToDate ==
  ASSUME ThreadInv, screen # "hub"
  PROVE  step \in {"input", "modal", "sendPoll"} \/ screen = "keyboard" \/ scan # NoScan
         => view = meta
BY DEF ThreadInv, Adopted

(* The thread's loop, the popup and the keyboard. *)
LEMMA LoopStep ==
  ASSUME ThreadInv,
         StartLoop \/ UpdatePopup \/ StayPopup \/ DetectNewMessages \/ NoInput
           \/ Type \/ Cancel \/ Submit \/ PollGoesOn \/ PollEnds
  PROVE  ThreadInv'
<1>1. UNCHANGED <<card, net, flight, last, settled, scan>>
  BY DEF StartLoop, UpdatePopup, StayPopup, DetectNewMessages, NoInput, Type, Cancel,
         Submit, PollGoesOn, PollEnds, card, ui
<1>2. /\ Shape(meta') /\ Bodies' /\ Tracked' /\ Arrived' /\ Unlinked'
      /\ Window(meta') = Window(meta)
  BY <1>1, MessagesKept
<1>3. ViewTypes' /\ Shape(view') /\ Rebuilding'
  BY <1>1, <1>2 DEF ThreadInv, ViewTypes, Rebuilding, card, net, ui,
         StartLoop, UpdatePopup, StayPopup, DetectNewMessages, NoInput, Type, Cancel,
         Submit, PollGoesOn, PollEnds
<1>4. Adopted' /\ OnScreen'
  <2> USE <1>1 DEF ThreadInv, ViewTypes, Adopted, OnScreen, card, net, ui
  <2>1. CASE StartLoop \/ StayPopup \/ NoInput
    BY <2>1 DEF StartLoop, StayPopup, NoInput
  <2>2. CASE UpdatePopup
    BY <2>2 DEF UpdatePopup
  <2>3. CASE DetectNewMessages
    BY <2>3 DEF DetectNewMessages, Outdated
  <2>4. CASE Type \/ Cancel \/ Submit
    BY <2>4 DEF Type, Cancel, Submit
  <2>5. CASE PollGoesOn
    BY <2>5 DEF PollGoesOn
  <2>6. CASE PollEnds
    BY <2>6 DEF PollEnds, Polled
  <2>q. QED
    BY <2>1, <2>2, <2>3, <2>4, <2>5, <2>6
<1>q. QED
  BY <1>2, <1>3, <1>4 DEF ThreadInv

(* Entering, leaving and scrolling: what is saved is what is on the card. *)
LEMMA ScreenStep ==
  ASSUME ThreadInv, Enter \/ SwitchAway \/ ClosePopup \/ Leave \/ Scroll
  PROVE  ThreadInv' /\ UNCHANGED card
<1>1. UNCHANGED <<card, net, flight, last, settled>>
  <2>1. CASE Enter
    BY <2>1 DEF Enter
  <2>2. CASE SwitchAway
    BY <2>2, UpToDate, SavesNothing DEF SwitchAway, Exit, card, net
  <2>3. CASE ClosePopup \/ Leave \/ Scroll
    <3>1. screen = "thread"
      BY <2>3 DEF ThreadInv, OnScreen, ClosePopup, Leave, Scroll
    <3>q. QED
      BY <2>3, <3>1, UpToDate, SavesNothing DEF ClosePopup, Leave, Scroll, Exit, card, net
  <2>q. QED
    BY <2>1, <2>2, <2>3
<1>2. /\ Shape(meta') /\ Bodies' /\ Tracked' /\ Arrived' /\ Unlinked'
      /\ Window(meta') = Window(meta)
  BY <1>1, MessagesKept
<1>3. ViewTypes' /\ Shape(view')
  <2>1. view' \in {view, meta} /\ popup' \in BOOLEAN
    BY DEF ThreadInv, ViewTypes, Enter, SwitchAway, ClosePopup, Leave, Scroll, Exit, ui
  <2>2. scan' \in {scan, NoScan, ScanOf(meta)}
    BY DEF Enter, SwitchAway, ClosePopup, Leave, Scroll, Exit
  <2>3. ScanOf(meta) \in [id : Nat, rec : (Nat \X Status) \cup {Lost}]
        /\ NoScan \in [id : Nat, rec : (Nat \X Status) \cup {Lost}]
    BY DEF ThreadInv, ViewTypes, ScanOf, NoScan, Windows
  <2>4. scan' \in [id : Nat, rec : (Nat \X Status) \cup {Lost}]
    BY <2>2, <2>3 DEF ThreadInv, ViewTypes
  <2>q. QED
    BY <1>1, <1>2, <2>1, <2>4 DEF ThreadInv, ViewTypes, card, net
<1>4. Adopted' /\ OnScreen' /\ Rebuilding'
  BY <1>1 DEF ThreadInv, Adopted, OnScreen, Rebuilding, Enter, SwitchAway, ClosePopup,
              Leave, Scroll, Exit, card, net, ui, NoScan, ScanOf
<1>q. QED
  BY <1>1, <1>2, <1>3, <1>4 DEF ThreadInv

(* The rebuild writes back what it read, and the window it began with. *)
LEMMA RebuildStep ==
  ASSUME ThreadInv, ToggleFont \/ LoadNext \/ RewriteRecord \/ RebuildSaves
  PROVE  /\ ThreadInv' /\ UNCHANGED <<card, net, flight, last, settled>>
<1>1. CASE ToggleFont
  <2>1. screen = "thread" /\ view = meta
    BY <1>1, UpToDate DEF ThreadInv, OnScreen, ToggleFont
  <2>2. UNCHANGED <<card, net, flight, last, settled>>
    BY <1>1 DEF ToggleFont
  <2>q. QED
    BY <1>1, <2>1, <2>2, MessagesKept
       DEF ThreadInv, ViewTypes, Adopted, OnScreen, Rebuilding, ToggleFont, card, net, ui,
           NoScan, ScanOf, Windows
<1>2. CASE LoadNext \/ RewriteRecord \/ RebuildSaves
  <2>1. scan # NoScan
    <3>1. NoScan.id = 0 /\ NoScan.rec = Lost /\ 0 \notin Window(view)
      BY DEF NoScan, ThreadInv, ViewTypes, Windows, Window, Shape
    <3>q. QED
      BY <1>2, <3>1 DEF LoadNext, RewriteRecord, RebuildSaves
  <2>2. screen = "thread" /\ view = meta
    BY <2>1, UpToDate DEF ThreadInv, OnScreen
  <2>3. CASE LoadNext
    <3>1. scan.id \in Window(meta) /\ DOMAIN files = Window(meta)
      BY <2>2, <2>3 DEF LoadNext, ThreadInv, ViewTypes
    <3> DEFINE readable == {i \in DOMAIN files : scan.id <= i /\ i <= meta.end}
               first    == CHOOSE i \in readable : \A j \in readable : i <= j
    <3>2. scan.id \in readable /\ (\A j \in readable : scan.id <= j)
          /\ (\A j \in readable : j \in Nat)
      BY <3>1 DEF ThreadInv, ViewTypes, Windows, Window, Shape
    <3>3. first = scan.id
      <4> HIDE DEF readable
      <4>1. first \in readable /\ (\A j \in readable : first <= j)
        BY <3>2
      <4>q. QED
        BY <3>2, <4>1
    <3>4. scan' = [scan EXCEPT !.rec = files[scan.id]]
      BY <2>3, <3>2, <3>3 DEF LoadNext
    <3>5. scan'.id = scan.id /\ scan'.rec = files[scan.id]
          /\ scan' \in [id : Nat, rec : (Nat \X Status) \cup {Lost}]
      BY <3>1, <3>4 DEF ThreadInv, ViewTypes
    <3>6. UNCHANGED <<card, ui, step, net, flight, last, settled>>
      BY <2>3 DEF LoadNext
    <3>q. QED
      BY <2>2, <3>1, <3>5, <3>6, MessagesKept
         DEF ThreadInv, ViewTypes, Adopted, OnScreen, Rebuilding, card, ui, net
  <2>4. CASE RewriteRecord
    <3>1. scan.id \in Window(meta) /\ scan.rec = files[scan.id] /\ DOMAIN files = Window(meta)
      BY <2>4 DEF RewriteRecord, ThreadInv, ViewTypes, Rebuilding
    <3>2. files' = files
      BY <2>4, <3>1 DEF RewriteRecord, ThreadInv, ViewTypes
    <3>3. UNCHANGED <<card, net, flight, last, settled, ui, step>>
      BY <2>4, <3>2 DEF RewriteRecord, card
    <3>4. scan' \in [id : Nat, rec : (Nat \X Status) \cup {Lost}] /\ scan'.rec = Lost
      BY <2>4 DEF RewriteRecord, ThreadInv, ViewTypes
    <3>q. QED
      BY <2>2, <3>3, <3>4, MessagesKept
         DEF ThreadInv, ViewTypes, Adopted, OnScreen, Rebuilding, card, ui, net
  <2>5. CASE RebuildSaves
    <3>1. UNCHANGED <<card, net, flight, last, settled, ui, step>> /\ scan' = NoScan
      BY <2>2, <2>5, SavesNothing DEF RebuildSaves, card
    <3>q. QED
      BY <2>2, <3>1, MessagesKept
         DEF ThreadInv, ViewTypes, Adopted, OnScreen, Rebuilding, card, ui, net, NoScan
  <2>q. QED
    BY <1>2, <2>3, <2>4, <2>5
<1>q. QED
  BY <1>1, <1>2
-----------------------------------------------------------------------------
(* The steps of the radio, the store and the messenger *)

LEMMA RadioStep ==
  ASSUME Risks = {}, ThreadInv, Frame \/ LinkLoss \/ LinkBack
  PROVE  /\ ThreadInv' /\ UNCHANGED card
<1>1. CASE Frame
  <2>1. UNCHANGED <<card, ui, step, link, flight, settled, scan>>
        /\ last' = last + 1 /\ ring' = Append(ring, last + 1) /\ link = "up"
    BY <1>1 DEF Frame
  <2>2. ring \in Seq(Nat) /\ last + 1 \in Nat
    BY DEF ThreadInv, ViewTypes
  <2>3. /\ ring' \in Seq(Nat) /\ DOMAIN ring' = DOMAIN ring \cup {Len(ring) + 1}
        /\ \A i \in DOMAIN ring : ring'[i] = ring[i]
        /\ ring'[Len(ring) + 1] = last + 1 /\ Len(ring) + 1 \notin DOMAIN ring
    BY <2>1, <2>2
  <2>4. Arrived'
    BY SMTT(20), <2>1, <2>2, <2>3 DEF ThreadInv, Arrived, Bodies, Tracked, NoFlight, ViewTypes
  <2>5. Bodies' /\ Tracked'
    <3>1. meta' = meta /\ files' = files /\ last' \in Nat
      BY <2>1, <2>2 DEF card
    <3>2. (1 .. last) \subseteq 1 .. last'
      BY <2>1, <2>2, <3>1 DEF ThreadInv, ViewTypes
    <3>q. QED
      BY <2>1, <3>1, <3>2 DEF ThreadInv, Bodies, Tracked
  <2>6. ViewTypes' /\ Window(meta') = Window(meta)
    BY <2>1, <2>3 DEF ThreadInv, ViewTypes, card, ui
  <2>7. Unlinked' /\ Adopted' /\ OnScreen' /\ Rebuilding' /\ Shape(meta') /\ Shape(view')
    BY <2>1, <2>6 DEF ThreadInv, Unlinked, Adopted, OnScreen, Rebuilding, card, ui
  <2>q. QED
    BY <2>1, <2>4, <2>5, <2>6, <2>7 DEF ThreadInv
<1>2. CASE LinkLoss \/ LinkBack
  <2>1. UNCHANGED <<card, ui, step, ring, flight, last, settled, scan>>
    BY <1>2 DEF LinkLoss, LinkBack
  <2>2. Bodies' /\ Tracked' /\ Arrived' /\ Shape(meta') /\ Shape(view')
    BY <2>1 DEF ThreadInv, Bodies, Tracked, Arrived, card, ui
  <2>3. ViewTypes' /\ OnScreen' /\ Rebuilding'
    BY <1>2, <2>1 DEF ThreadInv, ViewTypes, OnScreen, Rebuilding, card, ui, LinkLoss, LinkBack
  <2>4. Unlinked' /\ Adopted'
    BY <1>2, <2>1 DEF ThreadInv, Unlinked, Adopted, card, ui, LinkLoss, LinkBack, Refused
  <2>q. QED
    BY <2>1, <2>2, <2>3, <2>4 DEF ThreadInv
<1>q. QED
  BY <1>1, <1>2

(* The end of a delivery: the record that was on its way is settled with it. *)
LEMMA SettleStep ==
  ASSUME ThreadInv, PollLoses \/ PollSettles, Risks = {}
  PROVE  /\ ThreadInv' /\ meta' = meta
         /\ LogKept
<1>1. SettleFlight /\ UNCHANGED <<meta, ui, ring, last, scan>>
  BY DEF PollLoses, PollSettles, net
<1>2. /\ files' \in [Window(meta') -> Nat \X Status]
      /\ \A i \in Window(meta) :
           files'[i] = IF i = flight.id THEN <<files[i][1], "FINAL">> ELSE files[i]
  BY <1>1, SettleKeeps DEF SettleFlight, ThreadInv
<1>3. scan = NoScan /\ flight' = NoFlight /\ settled' = (settled \cup {flight.msg}) \ {0}
  BY <1>1 DEF SettleFlight, Quiet
<1>4. Window(meta') = Window(meta) /\ flight.msg \in Nat /\ last \in Nat
  BY <1>1 DEF ThreadInv, ViewTypes
<1>5. flight.msg \in 0 .. last /\ NoFlight.msg = 0 /\ NoFlight.id = 0
  BY <1>4 DEF ThreadInv, Tracked, NoFlight
<1>6. Bodies'
  <2>1. settled' \subseteq 1 .. last'
    <3>1. settled \subseteq 1 .. last /\ last' = last
      BY <1>1 DEF ThreadInv, Bodies
    <3>2. flight.msg = 0 \/ flight.msg \in 1 .. last
      BY <1>4, <1>5
    <3>q. QED
      BY <1>3, <3>1, <3>2
  <2>2. ASSUME NEW i \in Window(meta)
        PROVE  /\ files'[i][1] \in 1 .. last
               /\ files'[i][2] = "FINAL" /\ files'[i][1] \in settled'
    <3>1. files[i] \in Nat \X Status
      BY DEF ThreadInv, ViewTypes
    <3> DEFINE b == files[i][1]
    <3>2. /\ b \in 1 .. last
          /\ files[i][2] = "FINAL" => b \in settled
          /\ files[i][2] # "FINAL" => i = flight.id /\ b = flight.msg
      BY <3>1 DEF ThreadInv, Bodies, Status
    <3>3. b \in settled'
      BY <1>3, <3>2
    <3>4. files'[i] = IF i = flight.id THEN <<b, "FINAL">> ELSE files[i]
      BY <1>2
    <3>5. files'[i][1] = b /\ files'[i][2] = "FINAL"
      BY <3>2, <3>4
    <3>q. QED
      BY <3>2, <3>3, <3>5
  <2>q. QED
    BY <1>1, <1>4, <2>1, <2>2 DEF Bodies
<1>7. Tracked' /\ Arrived'
  BY <1>1, <1>3, <1>5 DEF ThreadInv, Tracked, Arrived
<1>8. ViewTypes'
  BY <1>1, <1>2, <1>3 DEF ThreadInv, ViewTypes, NoFlight, ui, PollLoses, PollSettles, net
<1>9. Unlinked' /\ OnScreen' /\ Rebuilding' /\ Shape(meta') /\ Shape(view')
  BY <1>1, <1>3 DEF ThreadInv, Unlinked, OnScreen, Rebuilding, ui, PollLoses, PollSettles, net,
                    NoScan, Polled, Checking
<1>10. Adopted'
  BY <1>1 DEF ThreadInv, Adopted, OnScreen, ui, PollLoses, PollSettles, net, Checking, Polled
<1>q. QED
  BY <1>1, <1>2, <1>4, <1>6, <1>7, <1>8, <1>9, <1>10 DEF ThreadInv, LogKept
(* A message appended as settled, of a body no record has. *)
LEMMA AppendsFinal ==
  ASSUME ThreadInv, NEW b \in Nat, AppendRecord(<<b, "FINAL">>), b # flight.msg,
         settled' = settled \cup {b}, flight' = flight, last' \in Nat, last <= last',
         b \in 1 .. last'
  PROVE  /\ meta' \in Windows /\ Shape(meta') /\ meta'.end = meta.end + 1
         /\ files' \in [Window(meta') -> Nat \X Status]
         /\ Bodies' /\ Tracked' /\ LogKept
<1> DEFINE r == <<b, "FINAL">>
<1>1. r \in Nat \X Status /\ r[1] = b /\ r[2] = "FINAL"
  BY DEF Status
<1>2. AppendRecord(r)
  OBVIOUS
<1> HIDE DEF r
<1>3. /\ meta' \in Windows /\ Shape(meta') /\ meta'.end = meta.end + 1
      /\ files' \in [Window(meta') -> Nat \X Status] /\ files'[meta'.end] = r
      /\ \A i \in Window(meta') \ {meta'.end} : i \in Window(meta) /\ files'[i] = files[i]
      /\ LogKept
  BY <1>1, <1>2, Appends DEF ThreadInv
<1>4. last \in Nat /\ (1 .. last) \subseteq 1 .. last'
  BY DEF ThreadInv, ViewTypes
<1>5. Bodies'
  <2>1. settled' \subseteq 1 .. last'
    BY <1>4 DEF ThreadInv, Bodies
  <2>2. ASSUME NEW i \in Window(meta')
        PROVE  /\ files'[i][1] \in 1 .. last'
               /\ files'[i][2] = "FINAL" <=> files'[i][1] \in settled'
               /\ files'[i][2] = "SENT" => i = flight.id /\ files'[i][1] = flight.msg
    <3>1. CASE i = meta'.end
      BY <1>1, <1>3, <3>1
    <3>2. CASE i # meta'.end
      <4>1. i \in Window(meta) /\ files'[i] = files[i] /\ files[i] \in Nat \X Status
        BY <1>3, <3>2 DEF ThreadInv, ViewTypes
      <4>2. /\ files[i][1] \in 1 .. last
            /\ files[i][2] = "FINAL" <=> files[i][1] \in settled
            /\ files[i][2] = "SENT" => i = flight.id /\ files[i][1] = flight.msg
            /\ files[i][2] \in {"SENT", "FINAL"}
        BY <4>1 DEF ThreadInv, Bodies, Status
      <4>q. QED
        BY <1>4, <4>1, <4>2
    <3>q. QED
      BY <3>1, <3>2
  <2>q. QED
    BY <2>1, <2>2 DEF Bodies
<1>6. Tracked'
  <2>1. meta.end \in Nat
    BY DEF ThreadInv, ViewTypes, Windows
  <2>q. QED
    BY <1>3, <1>4, <2>1 DEF ThreadInv, Tracked
<1>q. QED
  BY <1>3, <1>5, <1>6

(* A message sent: the one before it, if it was still on its way, is settled. *)
LEMMA SupersedesWith ==
  ASSUME ThreadInv, NEW s \in Status, Supersede(<<last + 1, s>>), last' = last + 1,
         s = "SENT"  => flight' = [id |-> meta'.end, msg |-> last']
                        /\ settled' = (settled \cup {flight.msg}) \ {0},
         s = "FINAL" => flight' = NoFlight
                        /\ settled' = (settled \cup {flight.msg, last'}) \ {0}
  PROVE  /\ meta' \in Windows /\ Shape(meta') /\ meta'.end = meta.end + 1
         /\ files' \in [Window(meta') -> Nat \X Status]
         /\ flight' \in [id : Nat, msg : Nat]
         /\ Bodies' /\ Tracked' /\ LogKept
<1> DEFINE r == <<last + 1, s>>
<1>0. last \in Nat /\ last' \in Nat /\ (1 .. last) \subseteq 1 .. last' /\ last' \in 1 .. last'
      /\ last' \notin 0 .. last /\ last' # 0
  BY DEF ThreadInv, ViewTypes
<1>1. r \in Nat \X Status /\ r[1] = last' /\ r[2] = s
  BY <1>0
<1>2. Supersede(r)
  OBVIOUS
<1> HIDE DEF r
<1>3. /\ meta' \in Windows /\ Shape(meta') /\ meta'.end = meta.end + 1
      /\ files' \in [Window(meta') -> Nat \X Status] /\ files'[meta'.end] = r
      /\ \A i \in Window(meta') \ {meta'.end} :
           /\ i \in Window(meta)
           /\ files'[i] = IF i = flight.id THEN <<files[i][1], "FINAL">> ELSE files[i]
      /\ LogKept
  BY <1>1, <1>2, Supersedes DEF ThreadInv
<1>4. flight.msg = 0 \/ (flight.msg \in 1 .. last /\ flight.msg # last')
  BY <1>0 DEF ThreadInv, Tracked, NoFlight
<1>5. settled \subseteq 1 .. last /\ last' \notin settled /\ 0 \notin settled
  BY <1>0 DEF ThreadInv, Bodies
<1>6. /\ settled' \subseteq 1 .. last' /\ settled \subseteq settled'
      /\ last' \in settled' <=> s = "FINAL"
  BY <1>0, <1>4, <1>5 DEF Status
<1>7. flight.msg # 0 => flight.msg \in settled'
  BY <1>4 DEF Status
<1>8. /\ s = "SENT" => flight'.id = meta'.end /\ flight'.msg = last'
      /\ s = "FINAL" => flight' = NoFlight
      /\ meta'.end \in Nat \ {0}
  BY SMTT(20), <1>3 DEF ThreadInv, ViewTypes, Windows
<1>9. Bodies'
  <2>1. ASSUME NEW i \in Window(meta')
        PROVE  /\ files'[i][1] \in 1 .. last'
               /\ files'[i][2] = "FINAL" <=> files'[i][1] \in settled'
               /\ files'[i][2] = "SENT" => i = flight'.id /\ files'[i][1] = flight'.msg
    <3>1. CASE i = meta'.end
      BY <1>0, <1>1, <1>3, <1>6, <1>8, <3>1 DEF Status
    <3>2. CASE i # meta'.end
      <4> DEFINE b == files[i][1]
      <4>1. i \in Window(meta) /\ files[i] \in Nat \X Status
        BY <1>3, <3>2 DEF ThreadInv, ViewTypes
      <4>2. /\ b \in 1 .. last
            /\ files[i][2] = "FINAL" => b \in settled
            /\ files[i][2] # "FINAL" => i = flight.id /\ b = flight.msg
        BY <4>1 DEF ThreadInv, Bodies, Status
      <4>3. files'[i] = IF i = flight.id THEN <<b, "FINAL">> ELSE files[i]
        BY <1>3, <3>2
      <4>4. files'[i][1] = b /\ files'[i][2] = "FINAL"
        BY <4>2, <4>3
      <4>5. b \in settled'
        BY <1>6, <1>7, <4>2
      <4>q. QED
        BY <1>0, <4>2, <4>4, <4>5
    <3>q. QED
      BY <3>1, <3>2
  <2>q. QED
    BY <1>6, <2>1 DEF Bodies
<1>10. Tracked' /\ flight' \in [id : Nat, msg : Nat]
  BY <1>0, <1>6, <1>8 DEF Tracked, NoFlight, Status
<1>q. QED
  BY <1>3, <1>9, <1>10
(* handleMessage: what is taken from the ring is in no record yet. *)
LEMMA StoreStep ==
  ASSUME Risks = {}, ThreadInv, PollStores
  PROVE  ThreadInv' /\ meta'.end = meta.end + 1 /\ LogKept
<1> DEFINE b == Head(ring)
<1>1. ring \in Seq(Nat) /\ ring # <<>> /\ last \in Nat
  BY DEF ThreadInv, ViewTypes, PollStores
<1>2. b = ring[1] /\ 1 \in DOMAIN ring
  BY <1>1
<1>3. b \in Nat /\ b \in 1 .. last /\ b # flight.msg /\ b \notin settled
  BY <1>1, <1>2 DEF ThreadInv, Arrived
<1>4. AppendRecord(<<b, "FINAL">>) /\ settled' = settled \cup {b} /\ scan = NoScan
      /\ UNCHANGED <<ui, step, link, flight, last, scan>> /\ ring' = Tail(ring)
  BY DEF PollStores, Quiet
<1> HIDE DEF b
<1>5. /\ meta' \in Windows /\ Shape(meta') /\ meta'.end = meta.end + 1
      /\ files' \in [Window(meta') -> Nat \X Status]
      /\ Bodies' /\ Tracked' /\ LogKept
  BY <1>1, <1>3, <1>4, AppendsFinal
<1>6. /\ ring' \in Seq(Nat)
      /\ \A i \in DOMAIN ring' : i + 1 \in DOMAIN ring /\ ring'[i] = ring[i + 1] /\ i + 1 # 1
  BY <1>1, <1>4
<1>7. Arrived'
  <2>1. \A i \in DOMAIN ring' : ring'[i] \in (1 .. last) \ (settled \cup {flight.msg}) /\ ring'[i] # b
    BY <1>2, <1>6 DEF ThreadInv, Arrived
  <2>2. \A i, j \in DOMAIN ring' : ring'[i] = ring'[j] => i = j
    <3> TAKE i, j \in DOMAIN ring'
    <3>1. i \in Int /\ j \in Int
      BY <1>6
    <3>q. QED
      BY <1>6, <3>1 DEF ThreadInv, Arrived
  <2>q. QED
    BY <1>4, <2>1, <2>2 DEF Arrived
<1>8. link = "up"
  BY <1>1 DEF ThreadInv, Unlinked
<1>9. ViewTypes' /\ Shape(view')
  BY <1>4, <1>5, <1>6 DEF ThreadInv, ViewTypes, ui
<1>10. Unlinked' /\ OnScreen' /\ Rebuilding'
  BY <1>4, <1>8 DEF ThreadInv, Unlinked, OnScreen, Rebuilding, ui, NoScan
<1>11. Adopted'
  <2>1. meta.end \in Nat /\ view.end \in Nat
    BY DEF ThreadInv, ViewTypes, Windows
  <2>q. QED
    BY <1>4, <1>5, <1>8, <2>1 DEF ThreadInv, Adopted, OnScreen, ui, PollStores, Draining
<1>q. QED
  BY <1>5, <1>7, <1>9, <1>10, <1>11 DEF ThreadInv

(* onSendComplete without a connection: the failed message is adopted. *)
LEMMA UnconnectedStep ==
  ASSUME Risks = {}, ThreadInv, SendUnconnected
  PROVE  ThreadInv' /\ meta'.end = meta.end + 1 /\ LogKept
<1>1. last \in Nat /\ last' = last + 1 /\ last' \in Nat /\ last <= last' /\ last' \in 1 .. last'
      /\ last' \notin 0 .. last /\ (1 .. last) \subseteq 1 .. last'
  BY DEF ThreadInv, ViewTypes, SendUnconnected
<1>2. last' # flight.msg
  BY <1>1 DEF ThreadInv, Tracked, NoFlight
<1>3. AppendRecord(<<last', "FINAL">>) /\ settled' = settled \cup {last'} /\ scan = NoScan
      /\ UNCHANGED <<screen, armed, net, flight, scan>>
      /\ view' = meta' /\ popup' = TRUE /\ step = "send" /\ step' = "loop" /\ link = "down"
  BY DEF SendUnconnected, Quiet
<1>4. /\ meta' \in Windows /\ Shape(meta') /\ meta'.end = meta.end + 1
      /\ files' \in [Window(meta') -> Nat \X Status]
      /\ Bodies' /\ Tracked' /\ LogKept
  BY <1>1, <1>2, <1>3, AppendsFinal
<1>5. ring = <<>>
  BY <1>3 DEF ThreadInv, Unlinked
<1>6. Arrived' /\ Unlinked'
  BY <1>3, <1>5 DEF Arrived, Unlinked, net
<1>7. ViewTypes' /\ Shape(view')
  BY <1>1, <1>3, <1>4 DEF ThreadInv, ViewTypes, net
<1>8. Adopted' /\ OnScreen' /\ Rebuilding'
  BY <1>3 DEF ThreadInv, Adopted, OnScreen, Rebuilding, net, NoScan
<1>q. QED
  BY <1>4, <1>6, <1>7, <1>8 DEF ThreadInv

(* sendDirectMessage, accepted or refused by the queue of commands. *)
LEMMA SendStep ==
  ASSUME Risks = {}, ThreadInv, SendMessage \/ SendRefused
  PROVE  ThreadInv' /\ meta'.end = meta.end + 1 /\ LogKept
<1>1. last \in Nat /\ last' = last + 1 /\ last' \in Nat
      /\ last' \notin 0 .. last /\ (1 .. last) \subseteq 1 .. last'
  BY DEF ThreadInv, ViewTypes, SendMessage, SendRefused
<1>2. scan = NoScan /\ UNCHANGED <<screen, popup, armed, net, scan>>
      /\ step = "send" /\ step' = "loop" /\ link # "down"
  BY DEF SendMessage, SendRefused, Quiet, ui
<1>3. PICK s \in Status :
         /\ Supersede(<<last + 1, s>>)
         /\ s = "SENT"  => /\ flight' = [id |-> meta'.end, msg |-> last']
                           /\ settled' = (settled \cup {flight.msg}) \ {0}
                           /\ view' = meta'
         /\ s = "FINAL" => /\ flight' = NoFlight
                           /\ settled' = (settled \cup {flight.msg, last'}) \ {0}
                           /\ view' = view /\ link = "up"
  <2>1. CASE SendMessage
    <3>1. NewId(Kept) = meta'.end
      BY <2>1, NextWindow DEF SendMessage, Supersede, ThreadInv, ViewTypes
    <3>q. QED
      BY <1>1, <2>1, <3>1 DEF SendMessage, Status
  <2>2. CASE SendRefused
    <3>1. link = "up"
      BY <1>2, <2>2 DEF SendRefused, ThreadInv, ViewTypes
    <3>q. QED
      BY <1>1, <2>2, <3>1 DEF SendRefused, Status, ui
  <2>q. QED
    BY <2>1, <2>2
<1>4. /\ meta' \in Windows /\ Shape(meta') /\ meta'.end = meta.end + 1
      /\ files' \in [Window(meta') -> Nat \X Status]
      /\ flight' \in [id : Nat, msg : Nat]
      /\ Bodies' /\ Tracked' /\ LogKept
  BY <1>1, <1>3, SupersedesWith
<1>5. Arrived'
  <2>1. ring' = ring
    BY <1>2 DEF net
  <2>2. \A i \in DOMAIN ring : ring[i] \in (1 .. last) \ (settled \cup {flight.msg})
    BY DEF ThreadInv, Arrived
  <2>3. settled' \subseteq settled \cup {flight.msg, last'} /\ flight'.msg \in {0, last'}
    BY <1>3 DEF Status, NoFlight
  <2>4. \A i \in DOMAIN ring : ring[i] \in (1 .. last') \ (settled' \cup {flight'.msg})
    BY <1>1, <2>2, <2>3
  <2>q. QED
    BY <2>1, <2>4 DEF ThreadInv, Arrived
<1>6. view' \in {view, meta'}
  BY <1>3 DEF Status
<1>7. ViewTypes' /\ Shape(view')
  BY <1>1, <1>2, <1>4, <1>6 DEF ThreadInv, ViewTypes, net
<1>8. Unlinked' /\ OnScreen' /\ Rebuilding'
  BY <1>2 DEF ThreadInv, Unlinked, OnScreen, Rebuilding, net, NoScan
<1>9. Adopted'
  <2>1. meta.end \in Nat /\ view.end \in Nat
    BY DEF ThreadInv, ViewTypes, Windows
  <2>q. QED
    BY <1>2, <1>3, <1>4, <2>1 DEF ThreadInv, Adopted, OnScreen, net, Status
<1>q. QED
  BY <1>4, <1>5, <1>7, <1>8, <1>9 DEF ThreadInv

(* clearConversation, with nothing on its way. *)
LEMMA ClearStep ==
  ASSUME Risks = {}, ThreadInv, Clear
  PROVE  ThreadInv'
<1>1. /\ meta' = Zero /\ files' = [i \in {} |-> Lost] /\ view' = Zero
      /\ UNCHANGED <<screen, popup, armed, net, flight, last, settled, scan>>
      /\ scan = NoScan /\ flight = NoFlight /\ step = "input" /\ step' = "loop"
  BY DEF Clear, Quiet
<1>2. Window(meta') = {} /\ Zero \in Windows /\ Shape(Zero)
  BY <1>1 DEF Window, Zero, Windows, Shape
<1>3. ViewTypes'
  BY <1>1, <1>2 DEF ThreadInv, ViewTypes, net
<1>4. Bodies' /\ Tracked' /\ Arrived' /\ Unlinked'
  BY <1>1, <1>2 DEF ThreadInv, Bodies, Tracked, Arrived, Unlinked, net
<1>5. Adopted' /\ OnScreen' /\ Rebuilding'
  BY <1>1 DEF ThreadInv, Adopted, OnScreen, Rebuilding, net, NoScan
<1>q. QED
  BY <1>1, <1>2, <1>3, <1>4, <1>5 DEF ThreadInv
-----------------------------------------------------------------------------
(* The theorems *)

LEMMA ThreadInit == Init => ThreadInv
<1> SUFFICES ASSUME Init PROVE ThreadInv
  OBVIOUS
<1>1. Window(meta) = {} /\ Zero \in Windows /\ Shape(Zero)
  BY DEF Init, Window, Zero, Windows, Shape
<1>2. ring \in Seq(Nat) /\ DOMAIN ring = {}
  BY DEF Init
<1>3. ViewTypes
  BY <1>1, <1>2 DEF Init, ViewTypes, NoScan, NoFlight
<1>q. QED
  BY <1>1, <1>2, <1>3 DEF Init, ThreadInv, Bodies, Tracked, Arrived, Unlinked, Adopted,
                          OnScreen, Rebuilding, NoScan, NoFlight

(* What a step may do to the conversation. *)
LogStep == \/ Clear
           \/ meta'.end >= meta.end /\ LogKept

LEMMA SameLog ==
  ASSUME ViewTypes, UNCHANGED card
  PROVE  LogStep
BY DEF ViewTypes, Windows, card, LogStep, LogKept

LEMMA ThreadStep ==
  ASSUME Risks = {}, ThreadInv, [Next]_vars
  PROVE  ThreadInv' /\ LogStep
<1>0. ViewTypes /\ meta.end \in Nat
  BY DEF ThreadInv, ViewTypes, Windows
<1>1. CASE StartLoop \/ UpdatePopup \/ StayPopup \/ DetectNewMessages \/ NoInput
             \/ Type \/ Cancel \/ Submit \/ PollGoesOn \/ PollEnds
  <2>1. UNCHANGED card
    BY <1>1 DEF StartLoop, UpdatePopup, StayPopup, DetectNewMessages, NoInput, Type, Cancel,
         Submit, PollGoesOn, PollEnds
  <2>q. QED
    BY <1>0, <1>1, <2>1, LoopStep, SameLog
<1>2. CASE Enter \/ SwitchAway \/ ClosePopup \/ Leave \/ Scroll
  BY <1>0, <1>2, ScreenStep, SameLog
<1>3. CASE ToggleFont \/ LoadNext \/ RewriteRecord \/ RebuildSaves
  BY <1>0, <1>3, RebuildStep, SameLog
<1>4. CASE Frame \/ LinkLoss \/ LinkBack
  BY <1>0, <1>4, RadioStep, SameLog
<1>5. CASE PollLoses \/ PollSettles
  BY <1>0, <1>5, SettleStep DEF LogStep
<1>6. CASE PollStores \/ SendUnconnected \/ SendMessage \/ SendRefused
  BY <1>0, <1>6, StoreStep, UnconnectedStep, SendStep DEF LogStep
<1>7. CASE Clear
  BY <1>7, ClearStep DEF LogStep
<1>8. CASE UNCHANGED vars
  <2>1. UNCHANGED <<card, ui, net, step, flight, last, settled, scan>>
    BY <1>8 DEF vars, card, ui, net
  <2>2. ViewTypes' /\ Shape(view') /\ Adopted' /\ OnScreen' /\ Rebuilding'
    BY <2>1 DEF ThreadInv, ViewTypes, Adopted, OnScreen, Rebuilding, card, ui, net
  <2>q. QED
    BY <1>0, <2>1, <2>2, MessagesKept, SameLog DEF ThreadInv
<1>q. QED
  BY <1>1, <1>2, <1>3, <1>4, <1>5, <1>6, <1>7, <1>8
     DEF Next, MainStep, RenderStep, User, Radio

(* The inductive invariant holds in every reachable state. *)
THEOREM ThreadInvariant ==
  ASSUME Risks = {}
  PROVE  Spec => []ThreadInv
<1>1. ThreadInv /\ [Next]_vars => ThreadInv'
  BY ThreadStep
<1>q. QED
  BY ThreadInit, <1>1, PTL DEF Spec

(* updateDirectMessageStatus and the rewrites of _rebuildMessageHeights: a   *)
(* record on the card reads as settled exactly when its own message's         *)
(* delivery is over.                                                         *)
THEOREM StatusTheorem ==
  ASSUME Risks = {}
  PROVE  Spec => []StatusTrue
<1>1. ThreadInv => StatusTrue
  BY DEF ThreadInv, ViewTypes, Bodies, StatusTrue
<1>q. QED
  BY ThreadInvariant, <1>1, PTL

(* MeshCoreThreadActivity::loop(): every append made since the last pass has *)
(* been adopted before an input handler saves the view's window.             *)
THEOREM ViewTheorem ==
  ASSUME Risks = {}
  PROVE  Spec => []ViewCurrent
<1>1. ThreadInv => ViewCurrent
  BY DEF ThreadInv, Adopted, ViewCurrent
<1>q. QED
  BY ThreadInvariant, <1>1, PTL

(* savePosition, the appends and the rebuild: none takes a message out of    *)
(* the conversation, but for the oldest of a full one, or another's id.      *)
THEOREM LogTheorem ==
  ASSUME Risks = {}
  PROVE  Spec => KeepsLog
<1> DEFINE Keeps == Clear \/ \A id \in Window(meta) :
                               \/ Full /\ id = meta.start
                               \/ id \in Window(meta') /\ files'[id][1] = files[id][1]
<1>1. ThreadInv /\ [Next]_vars => [Keeps]_vars
  BY ThreadStep DEF LogStep, LogKept
<1>q. QED
  BY ThreadInvariant, <1>1, PTL DEF Spec, KeepsLog

(* "Compare endId (monotonically increasing)": whoever writes meta.bin, only *)
(* a clear makes the last id smaller.                                        *)
THEOREM EndTheorem ==
  ASSUME Risks = {}
  PROVE  Spec => EndGrows
<1>1. ThreadInv /\ [Next]_vars => [Clear \/ meta'.end >= meta.end]_vars
  BY ThreadStep DEF LogStep
<1>q. QED
  BY ThreadInvariant, <1>1, PTL DEF Spec, EndGrows
=============================================================================
