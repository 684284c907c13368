--------------------------- MODULE ActivityManager ---------------------------
(***************************************************************************)
(* ActivityManager: the stack of activities (screens) the main task runs,    *)
(* the render task that draws the current one, and the three ways the main   *)
(* task asks for a drawing: at the end of the loop, at once, at once and wait.*)
(*                                                                          *)
(* The render task's place in renderTaskLoop is rpc: "wait" (for a           *)
(* notification), "lock" (for the rendering mutex), "draw" (in render()),    *)
(* "wake" (about to wake the waiter) and "unlock".  The main task's is pc:   *)
(* "boot" and "setup" (in setup()), "top" (of loop()), "run" (in the code of *)
(* the current activity, where says which), "changed" (that code changed     *)
(* something shown and has to ask for a drawing), "blocked" (in              *)
(* requestUpdateAndWait), "apply" (the pending actions) and "asleep".  The   *)
(* main task holds the mutex within a step only.                             *)
(***************************************************************************)
EXTENDS Sequences, Naturals

CONSTANTS
  Acts,       \* activity objects; one that was destroyed may be made again
  Sleep,      \* the SleepActivity
  Exclusive,  \* the activities that need the card for themselves (UsbDriveActivity)
  None,       \* a null pointer, an empty handler
  Lost,       \* a child that never came on: not allocated, or dropped while pending
  MaxDepth    \* bound: activities on the stack

ASSUME ActivityAssumption ==
  /\ Sleep \in Acts /\ Exclusive \subseteq Acts \ {Sleep}
  /\ None \notin Acts /\ Lost \notin Acts /\ None # Lost
  /\ MaxDepth \in Nat

VARIABLES
  cur,        \* currentActivity
  stack,      \* stackActivities
  pend,       \* pendingActivity
  action,     \* pendingAction
  handler,    \* resultHandler of each activity, as the child it was set for
  requested,  \* requestedUpdate
  notified,   \* the render task's notification is pending
  waiting,    \* waitingTaskHandle is set
  token,      \* the main task's notification is pending
  rpc, drawing,  \* the render task, and the activity it is in
  pc, where,     \* the main task
  due,        \* a change the screen does not show: made under the lock or not
  sleeping    \* goToSleep was called; "spoilt" if something came in between

nav    == <<cur, stack, pend, action, handler>>
render == <<rpc, drawing>>
main   == <<pc, where, sleeping>>
vars   == <<nav, requested, notified, waiting, token, render, main, due>>

ActivityTypeOK ==
  /\ cur \in Acts \cup {None} /\ pend \in Acts \cup {None}
  /\ stack \in Seq(Acts)
  /\ action \in {"none", "push", "pop", "replace"}
  /\ handler \in [Acts -> Acts \cup {None, Lost}]
  /\ requested \in BOOLEAN /\ notified \in BOOLEAN
  /\ waiting \in BOOLEAN /\ token \in BOOLEAN
  /\ rpc \in {"wait", "lock", "draw", "wake", "unlock"}
  /\ drawing \in Acts \cup {None}
  /\ pc \in {"boot", "setup", "top", "run", "changed", "blocked", "apply", "asleep"}
  /\ where \in {"boot", "setup", "loop", "exclusive", "enter", "handler"}
  /\ due \in {"no", "locked", "unlocked"}
  /\ sleeping \in {"no", "yes", "spoilt"}

Init ==
  /\ cur = None /\ stack = <<>> /\ pend = None /\ action = "none"
  /\ handler = [a \in Acts |-> None]
  /\ requested = FALSE /\ notified = FALSE /\ waiting = FALSE /\ token = FALSE
  /\ rpc = "wait" /\ drawing = None
  /\ pc = "boot" /\ where = "boot"
  /\ due = "no" /\ sleeping = "no"

-----------------------------------------------------------------------------
Elems(s) == {s[i] : i \in DOMAIN s}
Live     == {cur, pend} \cup Elems(stack)

(* An activity that can be allocated. *)
Fresh == Acts \ (Live \cup {drawing, Sleep})

(* Mutant: the main task goes on without the rendering mutex. *)
MutexIgnored == TRUE

(* A RenderLock can be had. *)
MutexFree == rpc \in {"wait", "lock"}

(* The pending activity makes way for another: a handler set for it stays.   *)
Dropped ==
  [a \in Acts |-> IF pend # None /\ handler[a] = pend THEN Lost ELSE handler[a]]

Forget(gone) == [a \in Acts |-> IF a \in gone THEN None ELSE handler[a]]

(* loop() returns: to the main loop or, for goToSleep, to enterDeepSleep. *)
Returned == IF sleeping = "no" THEN "top" ELSE "asleep"

Spoilt == IF sleeping = "yes" THEN "spoilt" ELSE sleeping

-----------------------------------------------------------------------------
(* setup(): the first activity is launched at once, and its onEnter, run     *)
(* here, may already start or ask for another: the hub does without a known  *)
(* companion.  The splash of goToBoot starts nothing and is followed by the  *)
(* real activity, which has to wait for loop(); a silent restart waits for   *)
(* the first drawing.                                                        *)
BootShow ==
  /\ pc = "boot"
  /\ \/ \E a \in Fresh \ Exclusive : cur' = a /\ pc' = "run" /\ due' = "unlocked"
     \/ cur' = None /\ pc' = "setup" /\ UNCHANGED due
  /\ UNCHANGED <<stack, pend, action, handler, requested, notified, waiting, token,
                 render, where, sleeping>>

SetupGo == \E a \in Fresh \ Exclusive :
  /\ pc = "setup" /\ cur # None /\ action = "none" /\ handler[cur] = None
  /\ pend' = a /\ action' = "replace"
  /\ pc' = "top"
  /\ UNCHANGED <<cur, stack, handler, requested, notified, waiting, token, render,
                 where, due, sleeping>>

SetupDone ==
  /\ pc = "setup"
  /\ pc' = "top"
  /\ UNCHANGED <<nav, requested, notified, waiting, token, render, where, due, sleeping>>

(* Mutant: the waiter does not notify the render task. *)
WaitUnnotified ==
  /\ waiting' = TRUE
  /\ pc' = "blocked"
  /\ UNCHANGED <<nav, requested, notified, token, render, due, sleeping>>

(* requestUpdateAndWait. *)
Wait ==
  /\ waiting' = TRUE
  /\ notified' = TRUE
  /\ pc' = "blocked"
  /\ UNCHANGED <<nav, requested, token, render, due, sleeping>>

SetupWait == pc = "setup" /\ Wait /\ where' = "setup"

Wake ==
  /\ pc = "blocked" /\ token
  /\ token' = FALSE
  /\ pc' = IF where = "setup" THEN "top" ELSE "run"
  /\ UNCHANGED <<nav, requested, notified, waiting, render, where, due, sleeping>>

-----------------------------------------------------------------------------
(* loop(): nothing when a suppressed release is consumed or the activity     *)
(* handles the home gesture itself; that matters to goToSleep alone.         *)
LoopSkip ==
  /\ pc = "top" /\ sleeping = "yes"
  /\ pc' = "asleep" /\ sleeping' = "spoilt"
  /\ UNCHANGED <<nav, requested, notified, waiting, token, render, where, due>>

(* Mutant: a gesture is served when no activity is on. *)
GestureUnchecked == \E a \in Fresh \ Exclusive, next \in {"replace", "push"} :
  /\ pc = "top" /\ cur \notin Exclusive
  /\ next = "push" => Len(stack) < MaxDepth
  /\ pend' = a /\ action' = next /\ handler' = Dropped
  /\ pc' = Returned /\ sleeping' = Spoilt
  /\ UNCHANGED <<cur, stack, requested, notified, waiting, token, render, where, due>>

(* The home gesture, and the gesture for the light panel.  The pass of       *)
(* loop() ends here, so the activity runs once more before what is pending.  *)
LoopGesture == \E a \in Fresh \ Exclusive, next \in {"replace", "push"} :
  /\ pc = "top" /\ cur \notin Exclusive \cup {None}
  /\ next = "push" => Len(stack) < MaxDepth
  /\ pend' = a /\ action' = next /\ handler' = Dropped
  /\ pc' = Returned /\ sleeping' = Spoilt
  /\ UNCHANGED <<cur, stack, requested, notified, waiting, token, render, where, due>>

LoopActivity ==
  /\ pc = "top"
  /\ IF cur = None THEN pc' = "apply" /\ UNCHANGED where
     ELSE pc' = "run" /\ where' = IF cur \in Exclusive THEN "exclusive" ELSE "loop"
  /\ UNCHANGED <<nav, requested, notified, waiting, token, render, due, sleeping>>

(* Mutant: what is already pending goes before the sleep screen. *)
GoToSleepLater ==
  /\ pc = "top" /\ sleeping = "no" /\ cur \notin Exclusive /\ cur # None
  /\ IF action = "none" THEN pend' = Sleep /\ action' = "replace"
                        ELSE UNCHANGED <<pend, action>>
  /\ sleeping' = "yes"
  /\ UNCHANGED <<cur, stack, handler, requested, notified, waiting, token, render, pc,
                 where, due>>

(* goToSleep, from the main loop; not while the card is the host's. *)
GoToSleep ==
  /\ pc = "top" /\ sleeping = "no" /\ cur \notin Exclusive
  /\ IF cur # None
     THEN /\ \/ /\ pend' = Sleep /\ action' = "replace" /\ handler' = Dropped
                /\ sleeping' = "yes"
             \/ UNCHANGED <<pend, action, handler>> /\ sleeping' = "spoilt"
          /\ UNCHANGED <<cur, pc, where, due>>
     ELSE /\ cur' = Sleep /\ pc' = "run" /\ where' = "enter" /\ due' = "unlocked"
          /\ sleeping' = "yes" /\ UNCHANGED <<pend, action, handler>>
  /\ UNCHANGED <<stack, requested, notified, waiting, token, render>>

(* "effectively a chip reset" *)
WakeUp == pc = "asleep" /\
  /\ cur' = None /\ stack' = <<>> /\ pend' = None /\ action' = "none"
  /\ handler' = [a \in Acts |-> None]
  /\ requested' = FALSE /\ notified' = FALSE /\ waiting' = FALSE /\ token' = FALSE
  /\ rpc' = "wait" /\ drawing' = None
  /\ pc' = "boot" /\ where' = "boot"
  /\ due' = "no" /\ sleeping' = "no"

-----------------------------------------------------------------------------
(* The code of the current activity: loop(), onEnter(), a result handler.    *)
Runs(w) == pc = "run" /\ where \in w /\ cur # Sleep
Anywhere  == {"boot", "loop", "exclusive", "enter", "handler"}
Navigates == Runs({"boot", "loop", "enter", "handler"}) /\ cur \notin Exclusive

(* It changes what it shows, under a RenderLock or not, *)
Change ==
  /\ Runs(Anywhere)
  /\ \/ MutexFree /\ due' = IF due = "unlocked" THEN due ELSE "locked"
     \/ due' = "unlocked"
  /\ pc' = "changed"
  /\ UNCHANGED <<nav, requested, notified, waiting, token, render, where, sleeping>>

(* and asks for a drawing. *)
Ask ==
  /\ pc = "changed"
  /\ \/ requested' = TRUE /\ UNCHANGED notified
     \/ notified' = TRUE /\ UNCHANGED requested
  /\ pc' = "run"
  /\ UNCHANGED <<nav, waiting, token, render, where, due, sleeping>>

AskAndWait == pc = "changed" /\ Wait /\ UNCHANGED where

(* startActivityForResult; the child may not have been allocated, but for   *)
(* the children of the first activity (-fno-exceptions: new would abort).    *)
Launch ==
  /\ Navigates
  /\ \/ \E a \in Fresh \ Exclusive :
          /\ Len(stack) < MaxDepth
          /\ handler' = [handler EXCEPT ![cur] = a]
          /\ pend' = a /\ action' = "push"
          /\ sleeping' = Spoilt
     \/ /\ where # "boot"
        /\ handler' = [handler EXCEPT ![cur] = Lost]
        /\ UNCHANGED <<pend, action, sleeping>>
  /\ UNCHANGED <<cur, stack, requested, notified, waiting, token, render, pc, where, due>>

(* Mutant: finish() leaves the pending activity in place. *)
FinishKeepsPending ==
  /\ Navigates
  /\ action' = "pop"
  /\ sleeping' = Spoilt
  /\ UNCHANGED <<cur, stack, pend, handler, requested, notified, waiting, token, render,
                 pc, where, due>>

(* finish *)
Finish ==
  /\ Navigates
  /\ pend' = None /\ action' = "pop" /\ handler' = Dropped
  /\ sleeping' = Spoilt
  /\ UNCHANGED <<cur, stack, requested, notified, waiting, token, render, pc, where, due>>

(* goHome, goToReader and the other replaceActivity calls. *)
Go == \E a \in Fresh :
  /\ Navigates
  /\ pend' = a /\ action' = "replace" /\ handler' = Dropped
  /\ sleeping' = Spoilt
  /\ UNCHANGED <<cur, stack, requested, notified, waiting, token, render, pc, where, due>>

(* It returns.  onEnter has asked for a first drawing, unless it has asked   *)
(* for another activity, and but for the sleep screen, which it drew itself; *)
(* after a result handler the manager asks.                                  *)
Return ==
  /\ pc = "run"
  /\ \/ /\ where \in {"enter", "boot"} /\ cur # Sleep
        /\ requested' = TRUE \/ (action # "none" /\ requested' = requested)
        /\ UNCHANGED <<notified, due>>
     \/ /\ where = "enter" /\ cur = Sleep
        /\ due' = "no" /\ UNCHANGED <<requested, notified>>
     \/ /\ where = "handler"
        /\ requested' = (requested \/ action = "none") /\ UNCHANGED <<notified, due>>
     \/ /\ where = "exclusive"
        /\ requested' = FALSE /\ notified' = (notified \/ requested) /\ UNCHANGED due
     \/ /\ where = "loop" /\ UNCHANGED <<requested, notified, due>>
  /\ pc' = CASE where = "boot"      -> "setup"
             [] where = "exclusive" -> "top"
             [] OTHER               -> "apply"
  /\ UNCHANGED <<nav, waiting, token, render, where, sleeping>>

-----------------------------------------------------------------------------
(* The rest of loop(): the pending actions, then the update asked for. *)
ApplyNone ==
  /\ pc = "apply" /\ action = "none"
  /\ requested' = FALSE /\ notified' = (notified \/ requested)
  /\ pc' = Returned
  /\ UNCHANGED <<nav, waiting, token, render, where, due, sleeping>>

(* Pop of the last activity: it is destroyed and goHome launches another. *)
PopLast ==
  /\ pc = "apply" /\ action = "pop" /\ stack = <<>> /\ MutexFree
  /\ action' = "none" /\ handler' = Forget({cur})
  /\ \/ \E a \in Fresh \ Exclusive : cur' = a /\ pc' = "run" /\ where' = "enter"
     \/ cur' = None /\ UNCHANGED <<pc, where>>
  /\ due' = "unlocked"
  /\ UNCHANGED <<stack, pend, requested, notified, waiting, token, render, sleeping>>

Below == stack[Len(stack)]

(* Mutant: the handler stays set after it was called. *)
PopBackKeepsHandler ==
  /\ pc = "apply" /\ action = "pop" /\ stack # <<>> /\ MutexFree
  /\ action' = "none" /\ handler' = Forget({cur})
  /\ cur' = Below /\ stack' = SubSeq(stack, 1, Len(stack) - 1)
  /\ IF handler[Below] # None
     THEN pc' = "run" /\ where' = "handler" /\ UNCHANGED requested
     ELSE requested' = TRUE /\ UNCHANGED <<pc, where>>
  /\ due' = "locked"
  /\ UNCHANGED <<pend, notified, waiting, token, render, sleeping>>

(* Mutant: the activity come back to is not drawn. *)
PopBackSilently ==
  /\ pc = "apply" /\ action = "pop" /\ stack # <<>> /\ MutexFree
  /\ action' = "none" /\ handler' = Forget({cur, Below})
  /\ cur' = Below /\ stack' = SubSeq(stack, 1, Len(stack) - 1)
  /\ IF handler[Below] # None THEN pc' = "run" /\ where' = "handler" ELSE UNCHANGED <<pc, where>>
  /\ due' = "locked"
  /\ UNCHANGED <<pend, requested, notified, waiting, token, render, sleeping>>

PopBack ==
  /\ pc = "apply" /\ action = "pop" /\ stack # <<>> /\ MutexFree
  /\ action' = "none" /\ handler' = Forget({cur, Below})
  /\ cur' = Below /\ stack' = SubSeq(stack, 1, Len(stack) - 1)
  /\ IF handler[Below] # None
     THEN pc' = "run" /\ where' = "handler" /\ UNCHANGED requested
     ELSE requested' = TRUE /\ UNCHANGED <<pc, where>>
  /\ due' = "locked"
  /\ UNCHANGED <<pend, notified, waiting, token, render, sleeping>>

Enter ==
  /\ pc = "apply" /\ pend # None /\ MutexFree
  /\ \/ /\ action = "replace"
        /\ stack' = <<>> /\ handler' = Forget(Elems(stack) \cup {cur})
     \/ /\ action = "push"
        /\ stack' = Append(stack, cur) /\ UNCHANGED handler
  /\ cur' = pend /\ pend' = None /\ action' = "none"
  /\ pc' = "run" /\ where' = "enter"
  /\ due' = "locked"
  /\ UNCHANGED <<requested, notified, waiting, token, render, sleeping>>

-----------------------------------------------------------------------------
(* The render task. *)
On == pc # "asleep"

RenderTake ==
  /\ On /\ rpc = "wait" /\ notified
  /\ notified' = FALSE /\ rpc' = "lock"
  /\ UNCHANGED <<nav, requested, waiting, token, drawing, main, due>>

RenderLock ==
  /\ On /\ rpc = "lock"
  /\ IF cur # None THEN rpc' = "draw" /\ drawing' = cur /\ due' = "no"
                   ELSE rpc' = "wake" /\ UNCHANGED <<drawing, due>>
  /\ UNCHANGED <<nav, requested, notified, waiting, token, main>>

(* A render() may ask for another. *)
RenderAsks ==
  /\ On /\ rpc = "draw"
  /\ requested' = TRUE
  /\ UNCHANGED <<nav, notified, waiting, token, render, main, due>>

RenderDone ==
  /\ On /\ rpc = "draw"
  /\ rpc' = "wake" /\ drawing' = None
  /\ UNCHANGED <<nav, requested, notified, waiting, token, main, due>>

RenderWakes ==
  /\ On /\ rpc = "wake"
  /\ waiting' = FALSE /\ token' = (token \/ waiting)
  /\ rpc' = "unlock"
  /\ UNCHANGED <<nav, requested, notified, drawing, main, due>>

RenderUnlock ==
  /\ On /\ rpc = "unlock"
  /\ rpc' = "wait"
  /\ UNCHANGED <<nav, requested, notified, waiting, token, drawing, main, due>>

(* The BLE worker's callback changes what is shown and asks for a drawing.   *)
WorkerAsks ==
  /\ On /\ cur # None
  /\ due' = "unlocked" /\ requested' = TRUE
  /\ UNCHANGED <<nav, notified, waiting, token, render, main>>

-----------------------------------------------------------------------------
Setup    == BootShow \/ SetupGo \/ SetupDone \/ SetupWait
Loop     == LoopSkip \/ LoopGesture \/ LoopActivity \/ GoToSleep \/ WakeUp
Activity == Change \/ Ask \/ AskAndWait \/ Wake \/ Launch \/ Finish \/ Go \/ Return
Apply    == ApplyNone \/ PopLast \/ PopBack \/ Enter
Render   == RenderTake \/ RenderLock \/ RenderAsks \/ RenderDone \/ RenderWakes \/ RenderUnlock

Next == Setup \/ Loop \/ Activity \/ Apply \/ Render \/ WorkerAsks

Spec == Init /\ [][Next]_vars

(* Both tasks run, loop() is called again and again, an activity's code      *)
(* returns, and activities do not start one another for ever on the way.     *)
FairSpec ==
  /\ Spec
  /\ WF_vars(BootShow) /\ WF_vars(SetupDone) /\ WF_vars(LoopActivity)
  /\ WF_vars(Ask) /\ WF_vars(Wake) /\ SF_vars(Return /\ action = "none")
  /\ SF_vars(Return) /\ WF_vars(Apply)
  /\ WF_vars(RenderTake) /\ WF_vars(RenderLock) /\ WF_vars(RenderDone)
  /\ WF_vars(RenderWakes) /\ WF_vars(RenderUnlock)

-----------------------------------------------------------------------------
(* The render task is never inside an activity that was destroyed or is no   *)
(* longer the current one: what the rendering mutex is for.                  *)
DrawsCurrent == rpc = "draw" => drawing = cur /\ drawing # None

(* requestUpdateAndWait is called by one task at a time (its assertion), and *)
(* the waiter cannot be forgotten: it has been woken, or a drawing that will *)
(* wake it is under way or asked for.                                        *)
WaiterServed ==
  /\ (waiting \/ token) => (pc = "blocked" /\ ~(waiting /\ token))
  /\ pc = "blocked" =>
       token \/ (waiting /\ (notified \/ rpc \in {"lock", "draw", "wake"}))

(* The loop over the pending actions cannot spin: a push or a replace has an *)
(* activity to launch, and an activity to leave.                             *)
Launchable ==
  /\ action \in {"push", "replace"} <=> pend # None
  /\ action # "none" => cur # None

(* The device goes to sleep with the sleep screen on, whatever was pending,  *)
(* unless the outgoing activity or a gesture asks for something else in the  *)
(* very pass of loop() that goToSleep runs.                                  *)
SleepShown == pc = "asleep" /\ sleeping = "yes" => cur = Sleep /\ due # "locked"

(* While an activity has the card for itself nothing is waiting to replace   *)
(* it, and nothing lies above it.                                            *)
ExclusiveAlone == pc = "run" /\ where = "exclusive" => action = "none" /\ cur \in Exclusive

(* A result handler gets the result of the activity it was registered for.   *)
(* It does not: its child may never come on, by startActivityForResult       *)
(* without an activity, or by the gesture that finds it still pending, and   *)
(* the handler stays for the next.                                           *)
ResultIsOwn ==
  [][where' = "handler" /\ pc = "apply" /\ pc' = "run" => handler[cur'] = cur]_vars

(* A child that came on is answered to by its own handler: the one called    *)
(* was set for the activity that leaves, or for one that never came on.      *)
ResultsNotCrossed ==
  [][where' = "handler" /\ pc = "apply" /\ pc' = "run"
     => handler[cur'] \in {cur, Lost}]_vars

(* What was changed under a RenderLock, or by showing another activity, is   *)
(* on the screen when requestUpdateAndWait returns: a drawing that was under *)
(* way already does not count.                                               *)
WaitShows == [][pc = "blocked" /\ pc' # "blocked" => due # "locked"]_vars

(* The screen catches up with every change it was asked to show, unless the  *)
(* device sleeps or nothing could be allocated to show.                      *)
ScreenCatchesUp == due # "no" ~> (due = "no" \/ cur = None \/ pc = "asleep")
=============================================================================
