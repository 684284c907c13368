----------------------------- MODULE ThreadView -----------------------------
(***************************************************************************)
(* A conversation on screen.  Three parties share its meta.bin: the hub,    *)
(* whose callbacks store what the companion sends while any activity polls   *)
(* the client; the thread activity, which keeps the window in RAM (_meta)    *)
(* and writes it back whole with every scroll and on exit; and the render    *)
(* task, which rewrites every record when the body font changes.             *)
(*                                                                           *)
(* The main task goes round loop(): poll, popup, new messages, input.  A     *)
(* store operation of the main task is one step here (MessageStore has its   *)
(* storage calls); the rebuild of the render task is one step per call.      *)
(* Message bodies are numbered in the order they appear.  Heights, the        *)
(* scroll position, fonts and unread counts are left out.                    *)
(***************************************************************************)
EXTENDS Conversation, Sequences

CONSTANTS RxSlots,   \* bound of a model run on frames waiting in the ring
          Risks      \* which of the risks below may occur
(* "unseen":   the link may be lost while a message waits in the ring, or is *)
(*             stored and the thread has not looked yet.                     *)
(* "overlap":  the main task may change the store during a rebuild.          *)
(* "clear":    a conversation may be cleared while a message is on its way.  *)

(* Room for the new message beside the one before it (the code keeps 200). *)
ASSUME ThreadAssumption == Capacity \in Nat /\ Capacity >= 2

VARIABLES meta, files,   \* the card
          view,          \* the thread's _meta
          screen,        \* the activity on top: hub, thread or its keyboard
          step,          \* where the main task is in the thread's loop()
          popup, armed,  \* the disconnect popup; it saw a connection
          link,          \* "lost": gone, and poll() has not noticed
          ring,          \* messages received and not yet processed
          flight,        \* the message whose delivery is tracked: id and body
          last,          \* bodies handed out so far
          settled,       \* bodies whose delivery is over
          scan           \* the rebuild: next id, record read, or 0

vars == <<meta, files, view, screen, step, popup, armed, link, ring, flight, last, settled, scan>>
card == <<meta, files>>
ui   == <<view, screen, popup, armed>>
net  == <<link, ring>>

NoScan   == [id |-> 0, rec |-> Lost]
NoFlight == [id |-> 0, msg |-> 0]

Init ==
  /\ meta = Zero /\ files = [i \in {} |-> Lost] /\ view = Zero
  /\ screen = "hub" /\ step = "loop" /\ popup = FALSE /\ armed = FALSE
  /\ link = "up" /\ ring = <<>> /\ flight = NoFlight /\ last = 0 /\ settled = {}
  /\ scan = NoScan

-----------------------------------------------------------------------------
(* The store, one operation at a time *)

(* The main task is about to change the store. *)
Quiet == "overlap" \in Risks \/ scan = NoScan

Full == meta.count >= Capacity
Kept == IF Full THEN Dropped(meta) ELSE meta

AppendRecord(r) ==
  LET left == DOMAIN files \ (IF Full THEN {meta.start} ELSE {})
  IN  /\ meta' = Appended(Kept)
      /\ files' = [i \in left \cup {NewId(Kept)} |-> IF i = NewId(Kept) THEN r ELSE files[i]]

WithStatus(id, s) ==
  IF id \in DOMAIN files THEN [files EXCEPT ![id] = <<@[1], s>>] ELSE files

(* savePosition: the file is written when its directory exists. *)
Saved(w) == IF meta = Zero /\ DOMAIN files = {} THEN meta ELSE w

-----------------------------------------------------------------------------
(* The radio *)

Frame == /\ link = "up" /\ Len(ring) < RxSlots
         /\ last + (IF step \in {"sendPoll", "sendDrain", "send"} THEN 2 ELSE 1) \in Msgs
         /\ last' = last + 1 /\ ring' = Append(ring, last + 1)
         /\ UNCHANGED <<card, ui, step, link, flight, settled, scan>>

Refused == screen = "thread" /\ step \in {"loop", "poll"} /\ view # meta

LinkLoss == /\ link = "up" /\ link' = "lost"
            /\ "unseen" \in Risks \/ (ring = <<>> /\ ~Refused)
            /\ UNCHANGED <<card, ui, step, ring, flight, last, settled, scan>>

(* The hub's reconnect: only while the hub is on top. *)
LinkBack == /\ link = "down" /\ screen = "hub" /\ link' = "up"
            /\ UNCHANGED <<card, ui, step, ring, flight, last, settled, scan>>

-----------------------------------------------------------------------------
(* MeshCoreClient::poll, from the hub, from the thread's loop() and from     *)
(* onSendComplete.  A poll that notices the loss does nothing else.          *)

Checking == screen = "hub" \/ step \in {"poll", "sendPoll"}
Draining == screen = "hub" \/ step \in {"drain", "sendDrain"}
Polled   == IF screen = "hub" THEN "loop"
            ELSE IF step \in {"poll", "drain"} THEN "popup" ELSE "send"

(* Mutant: the store is not told of the end of a delivery. *)
SettleUnstored == /\ Quiet
                  /\ files' = files
                  /\ settled' = (settled \cup {flight.msg}) \ {0}
                  /\ flight' = NoFlight

SettleFlight == /\ Quiet
                /\ files' = WithStatus(flight.id, "FINAL")
                /\ settled' = (settled \cup {flight.msg}) \ {0}
                /\ flight' = NoFlight

PollLoses ==
  /\ Checking /\ link = "lost" /\ link' = "down"
  /\ SettleFlight
  /\ step' = Polled
  /\ UNCHANGED <<meta, ui, ring, last, scan>>

(* handleMessage *)
PollStores ==
  /\ Draining /\ ring # <<>> /\ Quiet
  /\ AppendRecord(<<Head(ring), "FINAL">>)
  /\ ring' = Tail(ring) /\ settled' = settled \cup {Head(ring)}
  /\ UNCHANGED <<ui, step, link, flight, last, scan>>

(* handleDelivery: an ACK, or the last attempt given up *)
PollSettles ==
  /\ Draining /\ link # "down" /\ flight # NoFlight
  /\ SettleFlight
  /\ UNCHANGED <<meta, ui, net, step, last, scan>>

PollGoesOn ==
  /\ step \in {"poll", "sendPoll"} /\ link # "lost"
  /\ step' = IF step = "poll" THEN "drain" ELSE "sendDrain"
  /\ UNCHANGED <<card, ui, net, flight, last, settled, scan>>

PollEnds ==
  /\ step \in {"drain", "sendDrain"} /\ ring = <<>>
  /\ step' = Polled
  /\ UNCHANGED <<card, ui, net, flight, last, settled, scan>>

-----------------------------------------------------------------------------
(* The thread activity *)

(* The render task will rebuild the heights of a thread that is not empty.   *)
ScanOf(w) == [id |-> w.start, rec |-> Lost]

(* onEnter; the body font may have changed since the thread was last open.    *)
Enter ==
  /\ screen = "hub" /\ screen' = "thread" /\ step' = "loop"
  /\ view' = meta /\ popup' = FALSE /\ armed' = (link # "down")
  /\ scan' \in {NoScan, ScanOf(meta)}
  /\ UNCHANGED <<card, net, flight, last, settled>>

(* onExit saves the position.  ActivityManager::loop() calls it right after  *)
(* the thread's own loop(), whether the thread finished or the home gesture   *)
(* or sleep replaced it, and waits for a rendering in progress.               *)
Exit ==
  /\ scan = NoScan
  /\ screen' = "hub" /\ step' = "loop" /\ meta' = Saved(view)
  /\ UNCHANGED <<files, view, popup, armed, net, flight, last, settled, scan>>

(* The whole stack is left while the keyboard is on top.                      *)
SwitchAway == screen = "keyboard" /\ step = "loop" /\ Exit

StartLoop == /\ screen = "thread" /\ step = "loop" /\ step' = "poll"
             /\ UNCHANGED <<card, ui, net, flight, last, settled, scan>>

(* MeshCoreDisconnectPopup::update and the popup's own input: while it is    *)
(* shown, loop() goes no further.                                            *)
UpdatePopup ==
  /\ step = "popup"
  /\ popup' = (popup \/ (armed /\ link = "down"))
  /\ armed' = (armed \/ link # "down")
  /\ step' = IF popup' THEN "modal" ELSE "detect"
  /\ UNCHANGED <<card, view, screen, net, flight, last, settled, scan>>

StayPopup == /\ step = "modal" /\ step' = "loop"
             /\ UNCHANGED <<card, ui, net, flight, last, settled, scan>>

ClosePopup == step = "modal" /\ Exit

(* Mutant: a new message is noticed by the count. *)
OutdatedByCount == meta.count # view.count

(* _loopDetectNewMessages; its own savePosition writes what it just read.    *)
Outdated == meta.end > view.end \/ meta.start > view.start

DetectNewMessages ==
  /\ step = "detect" /\ step' = "input"
  /\ view' = IF Outdated THEN meta ELSE view
  /\ UNCHANGED <<card, screen, popup, armed, net, flight, last, settled, scan>>

NoInput == /\ step = "input" /\ step' = "loop"
           /\ UNCHANGED <<card, ui, net, flight, last, settled, scan>>

(* Any scroll: ThreadScroller::savePos *)
Scroll == /\ step = "input" /\ step' = "loop"
          /\ meta' = Saved(view)
          /\ UNCHANGED <<files, ui, net, flight, last, settled, scan>>

Leave == step = "input" /\ Exit

(* Mutant: _meta keeps the window of the cleared conversation. *)
ClearKeepsView ==
  /\ step = "input" /\ step' = "loop" /\ Quiet
  /\ "clear" \in Risks \/ flight = NoFlight
  /\ meta' = Zero /\ files' = [i \in {} |-> Lost] /\ view' = view
  /\ UNCHANGED <<screen, popup, armed, net, flight, last, settled, scan>>

(* clearConversation *)
Clear ==
  /\ step = "input" /\ step' = "loop" /\ Quiet
  /\ "clear" \in Risks \/ flight = NoFlight
  /\ meta' = Zero /\ files' = [i \in {} |-> Lost] /\ view' = Zero
  /\ UNCHANGED <<screen, popup, armed, net, flight, last, settled, scan>>

-----------------------------------------------------------------------------
(* The keyboard on top of the thread, and ThreadMessenger::onSendComplete    *)

(* Pushing an activity waits for a rendering in progress, as Exit does.      *)
Type == /\ step = "input" /\ step' = "loop" /\ scan = NoScan /\ screen' = "keyboard"
        /\ UNCHANGED <<card, view, popup, armed, net, flight, last, settled, scan>>

Cancel == /\ screen = "keyboard" /\ step = "loop" /\ screen' = "thread"
          /\ UNCHANGED <<card, view, popup, armed, step, net, flight, last, settled, scan>>

Submit == /\ screen = "keyboard" /\ step = "loop" /\ last + 1 \in Msgs
          /\ screen' = "thread" /\ step' = "sendPoll"
          /\ UNCHANGED <<card, view, popup, armed, net, flight, last, settled, scan>>

(* Mutant: the failed message is not adopted before the popup is shown. *)
SendUnconnectedStale ==
  /\ step = "send" /\ link = "down" /\ step' = "loop" /\ Quiet
  /\ last' = last + 1
  /\ AppendRecord(<<last', "FINAL">>) /\ settled' = settled \cup {last'}
  /\ view' = view /\ popup' = TRUE
  /\ UNCHANGED <<screen, armed, net, flight, scan>>

SendUnconnected ==
  /\ step = "send" /\ link = "down" /\ step' = "loop" /\ Quiet
  /\ last' = last + 1
  /\ AppendRecord(<<last', "FINAL">>) /\ settled' = settled \cup {last'}
  /\ view' = meta' /\ popup' = TRUE
  /\ UNCHANGED <<screen, armed, net, flight, scan>>

(* sendDirectMessage, after the append, gives up the message before it if    *)
(* that one is still on its way: its status is written by its id.            *)
Supersede(r) ==
  LET id   == NewId(Kept)
      left == DOMAIN files \ (IF Full THEN {meta.start} ELSE {})
      Rec(i) == IF i = id THEN r ELSE files[i]
  IN  /\ meta' = Appended(Kept)
      /\ files' = [i \in left \cup {id} |->
                    IF i = flight.id THEN <<Rec(i)[1], "FINAL">> ELSE Rec(i)]

SendMessage ==
  /\ step = "send" /\ link # "down" /\ step' = "loop" /\ Quiet
  /\ last' = last + 1
  /\ Supersede(<<last', "SENT">>)
  /\ flight' = [id |-> NewId(Kept), msg |-> last']
  /\ settled' = (settled \cup {flight.msg}) \ {0}
  /\ view' = meta'
  /\ UNCHANGED <<screen, popup, armed, net, scan>>

(* The queue is full: the record is stored, then marked FAILED, nothing is    *)
(* tracked any more, and _meta is left for _loopDetectNewMessages.           *)
SendRefused ==
  /\ link = "lost" => "unseen" \in Risks
  /\ step = "send" /\ link # "down" /\ step' = "loop" /\ Quiet
  /\ last' = last + 1
  /\ Supersede(<<last', "FINAL">>)
  /\ flight' = NoFlight
  /\ settled' = (settled \cup {flight.msg, last'}) \ {0}
  /\ UNCHANGED <<ui, net, scan>>

-----------------------------------------------------------------------------
(* _rebuildMessageHeights on the render task.  The message loaded for an id  *)
(* is the first that can be read from there on.                              *)

(* The settings toggle of the thread's menu *)
ToggleFont ==
  /\ step = "input" /\ step' = "loop" /\ scan = NoScan
  /\ scan' = ScanOf(view)
  /\ UNCHANGED <<card, ui, net, flight, last, settled>>

LoadNext ==
  /\ scan.id \in Window(view) /\ scan.rec = Lost
  /\ LET readable == {i \in DOMAIN files : scan.id <= i /\ i <= meta.end}
     IN  scan' = IF readable = {} THEN [scan EXCEPT !.id = @ + 1]
                 ELSE [scan EXCEPT !.rec = files[CHOOSE i \in readable :
                                                   \A j \in readable : i <= j]]
  /\ UNCHANGED <<card, ui, step, net, flight, last, settled>>

RewriteRecord ==
  /\ scan.rec # Lost
  /\ files' = IF files = [i \in {} |-> Lost] THEN files
              ELSE [i \in DOMAIN files \cup {scan.id} |->
                     IF i = scan.id THEN scan.rec ELSE files[i]]
  /\ scan' = [id |-> scan.id + 1, rec |-> Lost]
  /\ UNCHANGED <<meta, ui, step, net, flight, last, settled>>

RebuildSaves ==
  /\ scan.id > 0 /\ scan.rec = Lost /\ scan.id \notin Window(view)
  /\ meta' = Saved(view) /\ scan' = NoScan
  /\ UNCHANGED <<files, ui, step, net, flight, last, settled>>

-----------------------------------------------------------------------------
MainStep ==
  \/ PollLoses \/ PollGoesOn \/ PollStores \/ PollEnds
  \/ StartLoop \/ UpdatePopup \/ StayPopup \/ DetectNewMessages \/ NoInput
  \/ SendUnconnected \/ SendMessage \/ SendRefused

RenderStep == LoadNext \/ RewriteRecord \/ RebuildSaves

User == \/ Enter \/ SwitchAway \/ ClosePopup \/ Scroll \/ Leave \/ Clear
        \/ Type \/ Cancel \/ Submit \/ ToggleFont

Radio == Frame \/ LinkLoss \/ LinkBack \/ PollSettles

Next == MainStep \/ RenderStep \/ User \/ Radio

Spec == Init /\ [][Next]_vars

(* The main task keeps going round its loop and the render task keeps        *)
(* rendering; nothing is assumed of the user or of the radio.                *)
FairSpec == Spec /\ WF_vars(MainStep) /\ WF_vars(RenderStep)

-----------------------------------------------------------------------------
ViewTypeOK ==
  /\ meta \in Windows /\ view \in Windows /\ meta.end \in Ids \cup {0}
  /\ DOMAIN files \subseteq Ids /\ \A i \in DOMAIN files : files[i] \in Record
  /\ screen \in {"hub", "thread", "keyboard"}
  /\ step \in {"loop", "poll", "drain", "popup", "modal", "detect", "input",
              "sendPoll", "sendDrain", "send"}
  /\ popup \in BOOLEAN /\ armed \in BOOLEAN /\ link \in {"up", "lost", "down"}
  /\ ring \in Seq(Msgs) /\ Len(ring) <= RxSlots
  /\ flight \in [id : Ids, msg : Msgs] \cup {NoFlight}
  /\ last \in Msgs \cup {0} /\ settled \subseteq Msgs
  /\ scan \in [id : Ids \cup {0, MaxId + 1}, rec : Record \cup {Lost}]

(* "Compare endId (monotonically increasing), NOT count": whoever writes the *)
(* window, the last id never goes back, so that a message that was stored    *)
(* stays in the window and its id is not given to another.                   *)
EndGrows == [][Clear \/ meta'.end >= meta.end]_vars

(* "persists the store meta INCLUDING this failed message instead of         *)
(* clobbering it": no write of the view's window, no rewrite of a record and *)
(* no append takes a message out of the conversation, except the oldest of a *)
(* full one, or puts another body under its id.                              *)
KeepsLog ==
  [][Clear \/ \A id \in Window(meta) :
                \/ Full /\ id = meta.start
                \/ id \in Window(meta') /\ files'[id][1] = files[id][1]]_vars

(* "Always persist delivery status to the store": a record on the card reads *)
(* as settled exactly when the delivery of its own message is over, so no     *)
(* acknowledgement lands on another message and none is undone by a rewrite. *)
StatusTrue ==
  \A id \in Window(meta) :
    /\ id \in DOMAIN files
    /\ files[id][2] = "FINAL" <=> files[id][1] \in settled

(* What an input handler saves is the window the card has: every append made *)
(* since the last loop has been adopted before the user's keys are looked at.*)
ViewCurrent == screen = "thread" /\ step = "input" => view = meta

(* A thread that stays on screen with its link up keeps catching up with the *)
(* card, also at capacity, where the count of messages no longer changes.    *)
ViewFollows == <>[](screen = "thread" /\ ~popup) => []<>(view = meta)
=============================================================================
