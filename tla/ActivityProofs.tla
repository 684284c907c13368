---------------------------- MODULE ActivityProofs ----------------------------
(***************************************************************************)
(* Proofs about ActivityManager, for any set of activities: the invariants   *)
(* and action properties of its run.                                         *)
(***************************************************************************)
EXTENDS ActivityManager, SequenceTheorems, TLAPS

(* Where the main task is in the code of an activity, there is one; what may  *)
(* be pending when loop() is first called belongs to an activity; the one     *)
(* that has the card does not navigate, and setup() does not launch it.       *)
Running == pc \in {"run", "changed"} \/ (pc = "blocked" /\ where # "setup")

Control ==
  /\ Launchable
  /\ Running => cur # None /\ where # "setup"
  /\ pc = "boot" => cur = None /\ where = "boot"
  /\ pc \in {"boot", "setup"} \/ (pc = "blocked" /\ where = "setup")
     \/ (Running /\ where = "boot") => cur \notin Exclusive
  /\ cur \in Exclusive => action = "none"
  /\ Running /\ where = "exclusive" => cur \in Exclusive

(* A change made under the lock waits for a drawing that has not begun.       *)
DueInv == /\ due = "locked" => cur # None /\ MutexFree
          /\ token => due # "locked"

Drawing == DrawsCurrent /\ WaiterServed /\ DueInv

(* From goToSleep on the sleep screen is what is pending, then what is shown. *)
SleepNext == action = "replace" /\ pend = Sleep
SleepNow  == action = "none" /\ cur = Sleep

Sleeping ==
  sleeping = "yes" =>
    /\ pc \notin {"boot", "setup"}
    /\ pc = "top" => SleepNext
    /\ Running => \/ where = "loop" /\ SleepNext
                  \/ where = "enter" /\ SleepNow /\ pc = "run"
    /\ pc = "blocked" => where # "setup"
    /\ pc = "apply" => SleepNext \/ (SleepNow /\ due # "locked")
    /\ pc = "asleep" => SleepNow /\ due # "locked"

(* Every activity is one object in one place; the sleep screen is there only  *)
(* when the device goes to sleep, and starts nothing;                         *)
OwnedOnce ==
  /\ \A i, j \in DOMAIN stack : stack[i] = stack[j] => i = j
  /\ \A i \in DOMAIN stack : stack[i] \notin {cur, pend, Sleep}
  /\ pend # None => pend # cur
  /\ cur = Sleep => sleeping = "yes" /\ action = "none"
  /\ pend = Sleep => sleeping = "yes" \/ (sleeping = "spoilt" /\ pc = "asleep")

(* the handler of each is for the activity above it.                          *)
Above(i) == IF i = Len(stack) THEN cur ELSE stack[i + 1]

Handlers ==
  /\ \A i \in DOMAIN stack : handler[stack[i]] \in {None, Lost, Above(i)}
  /\ cur # None => \/ handler[cur] \in {None, Lost}
                   \/ action = "push" /\ handler[cur] = pend
  /\ stack # <<>> => cur # None
  /\ \A a \in Acts : a # cur /\ a \notin Elems(stack) => handler[a] = None

IInv == ActivityTypeOK /\ Control /\ Drawing /\ Sleeping /\ OwnedOnce /\ Handlers

-----------------------------------------------------------------------------
(* Sequences.                                                                *)
LEMMA Popped ==
  ASSUME NEW S, NEW s \in Seq(S), s # <<>>, NEW t, t = SubSeq(s, 1, Len(s) - 1)
  PROVE  /\ t \in Seq(S)
         /\ Len(s) \in Nat \ {0} /\ Len(t) = Len(s) - 1
         /\ DOMAIN s = 1 .. Len(s) /\ DOMAIN t = 1 .. Len(s) - 1
         /\ \A i \in DOMAIN t : t[i] = s[i]
         /\ s[Len(s)] \in S
<1>1. /\ Len(s) \in Nat \ {0} /\ DOMAIN s = 1 .. Len(s)
      /\ \A i \in 1 .. Len(s) : s[i] \in S
  BY EmptySeq, LenProperties
<1>2. \A i \in 1 .. Len(s) - 1 : s[i] \in S
  BY <1>1
<1>3. /\ t \in Seq(S)
      /\ Len(t) = IF 1 <= Len(s) - 1 THEN Len(s) - 1 - 1 + 1 ELSE 0
      /\ \A i \in 1 .. Len(s) - 1 - 1 + 1 : t[i] = s[1 + i - 1]
  BY <1>1, <1>2, SubSeqProperties, SMT
<1>4. Len(t) = Len(s) - 1 /\ DOMAIN t = 1 .. Len(t)
  BY <1>1, <1>3, LenProperties
<1>5. \A i \in DOMAIN t : t[i] = s[i]
  BY <1>1, <1>3, <1>4
<1>q. QED
  BY <1>1, <1>3, <1>4, <1>5

LEMMA Pushed ==
  ASSUME NEW S, NEW s \in Seq(S), NEW e \in S, NEW t, t = Append(s, e)
  PROVE  /\ t \in Seq(S) /\ t # <<>>
         /\ Len(s) \in Nat /\ Len(t) = Len(s) + 1
         /\ DOMAIN s = 1 .. Len(s) /\ DOMAIN t = 1 .. Len(s) + 1
         /\ \A i \in DOMAIN s : t[i] = s[i]
         /\ t[Len(s) + 1] = e
  BY AppendProperties, LenProperties

LEMMA NoElement == /\ \A S : <<>> \in Seq(S) 
                   /\ Len(<<>>) = 0 /\ DOMAIN <<>> = {}
  BY EmptySeq
-----------------------------------------------------------------------------
(* The types. *)
LEMMA BitsKept == ActivityTypeOK /\ Next =>
  (/\ requested \in BOOLEAN /\ notified \in BOOLEAN
   /\ waiting \in BOOLEAN /\ token \in BOOLEAN)'
<1> SUFFICES ASSUME ActivityTypeOK, Next
    PROVE (/\ requested \in BOOLEAN /\ notified \in BOOLEAN
   /\ waiting \in BOOLEAN /\ token \in BOOLEAN)'
  OBVIOUS
<1> USE ActivityAssumption DEF ActivityTypeOK, nav, render, main
<1>1. CASE BootShow
  BY <1>1, Zenon DEF BootShow, Fresh
<1>2. CASE SetupGo
  BY <1>2, Zenon DEF SetupGo, Fresh
<1>3. CASE SetupDone
  BY <1>3, Zenon DEF SetupDone
<1>4. CASE SetupWait
  BY <1>4, Zenon DEF SetupWait, Wait
<1>5. CASE LoopSkip
  BY <1>5, Zenon DEF LoopSkip
<1>6. CASE LoopGesture
  BY <1>6, Zenon DEF LoopGesture, Dropped, Returned, Spoilt, Fresh
<1>7. CASE LoopActivity
  BY <1>7, Zenon DEF LoopActivity
<1>8. CASE GoToSleep
  BY <1>8, Zenon DEF GoToSleep, Dropped
<1>9. CASE WakeUp
  BY <1>9, Zenon DEF WakeUp
<1>10. CASE Change
  BY <1>10, Zenon DEF Change, Runs, MutexFree
<1>11. CASE Ask
  BY <1>11, Zenon DEF Ask
<1>12. CASE AskAndWait
  BY <1>12, Zenon DEF AskAndWait, Wait
<1>13. CASE Wake
  BY <1>13, Zenon DEF Wake
<1>14. CASE Launch
  BY <1>14, Zenon DEF Launch, Runs, Navigates, Spoilt, Fresh
<1>15. CASE Finish
  BY <1>15, Zenon DEF Finish, Dropped, Runs, Navigates, Spoilt
<1>16. CASE Go
  BY <1>16, Zenon DEF Go, Dropped, Runs, Navigates, Spoilt, Fresh
<1>17. CASE Return
  BY <1>17, Zenon DEF Return
<1>18. CASE ApplyNone
  BY <1>18, Zenon DEF ApplyNone, Returned
<1>19. CASE PopLast
  BY <1>19, Zenon DEF PopLast, MutexFree, Fresh, Forget
<1>20. CASE PopBack
  BY <1>20, Zenon DEF PopBack, MutexFree, Forget, Below
<1>21. CASE Enter
  BY <1>21, Zenon DEF Enter, MutexFree, Forget
<1>22. CASE RenderTake
  BY <1>22, Zenon DEF RenderTake, On
<1>23. CASE RenderLock
  BY <1>23, Zenon DEF RenderLock, On
<1>24. CASE RenderAsks
  BY <1>24, Zenon DEF RenderAsks, On
<1>25. CASE RenderDone
  BY <1>25, Zenon DEF RenderDone, On
<1>26. CASE RenderWakes
  BY <1>26, Zenon DEF RenderWakes, On
<1>27. CASE RenderUnlock
  BY <1>27, Zenon DEF RenderUnlock, On
<1>28. CASE WorkerAsks
  BY <1>28, Zenon DEF WorkerAsks, On
<1>q. QED
  BY <1>1, <1>2, <1>3, <1>4, <1>5, <1>6, <1>7, <1>8, <1>9, <1>10, <1>11, <1>12,
      <1>13, <1>14, <1>15, <1>16, <1>17, <1>18, <1>19, <1>20, <1>21, <1>22, <1>23,
          <1>24, <1>25, <1>26, <1>27, <1>28 DEF Next, Setup, Loop, Activity, Apply,
              Render

LEMMA TypesKept == IInv /\ Next => ActivityTypeOK'
<1> SUFFICES ASSUME IInv, Next PROVE ActivityTypeOK'
  OBVIOUS
<1> ActivityTypeOK /\ Control
  BY DEF IInv
<1>b. (/\ requested \in BOOLEAN /\ notified \in BOOLEAN
   /\ waiting \in BOOLEAN /\ token \in BOOLEAN)'
  BY BitsKept
<1> USE ActivityAssumption DEF ActivityTypeOK, Control, Launchable, Running, nav,
          render, main
<1>1. CASE BootShow
  BY <1>b, <1>1 DEF BootShow, Fresh
<1>2. CASE SetupGo
  BY <1>b, <1>2 DEF SetupGo, Fresh
<1>3. CASE SetupDone
  BY <1>b, <1>3 DEF SetupDone
<1>4. CASE SetupWait
  BY <1>b, <1>4 DEF SetupWait, Wait
<1>5. CASE LoopSkip
  BY <1>b, <1>5 DEF LoopSkip
<1>6. CASE LoopGesture
  BY <1>b, <1>6 DEF LoopGesture, Dropped, Returned, Spoilt, Fresh
<1>7. CASE LoopActivity
  BY <1>b, <1>7 DEF LoopActivity
<1>8. CASE GoToSleep
  BY <1>b, <1>8 DEF GoToSleep, Dropped
<1>9. CASE WakeUp
  BY <1>b, <1>9, NoElement DEF WakeUp
<1>10. CASE Change
  BY <1>b, <1>10 DEF Change, Runs, MutexFree
<1>11. CASE Ask
  BY <1>b, <1>11 DEF Ask
<1>12. CASE AskAndWait
  BY <1>b, <1>12 DEF AskAndWait, Wait
<1>13. CASE Wake
  BY <1>b, <1>13 DEF Wake
<1>14. CASE Launch
  BY <1>b, <1>14 DEF Launch, Runs, Navigates, Spoilt, Fresh
<1>15. CASE Finish
  BY <1>b, <1>15 DEF Finish, Dropped, Runs, Navigates, Spoilt
<1>16. CASE Go
  BY <1>b, <1>16 DEF Go, Dropped, Runs, Navigates, Spoilt, Fresh
<1>17. CASE Return
  BY <1>b, <1>17 DEF Return
<1>18. CASE ApplyNone
  BY <1>b, <1>18 DEF ApplyNone, Returned
<1>19. CASE PopLast
  BY <1>b, <1>19 DEF PopLast, MutexFree, Fresh, Forget
<1>20. CASE PopBack
  <2>1. stack' \in Seq(Acts) /\ Below \in Acts
    BY <1>20, Popped DEF PopBack, Below
  <2>q. QED
    BY <1>b, <1>20, <2>1 DEF PopBack, Forget
<1>21. CASE Enter
  <2>1. cur # None
    BY <1>21 DEF Enter
  <2>2. stack' \in Seq(Acts)
    <3>1. CASE stack' = <<>>
      BY <3>1, NoElement
    <3>2. CASE stack' = Append(stack, cur)
      BY <2>1, <3>2, Pushed
    <3>q. QED
      BY <1>21, <3>1, <3>2 DEF Enter
  <2>q. QED
    BY <1>b, <1>21, <2>2 DEF Enter, Forget
<1>22. CASE RenderTake
  BY <1>b, <1>22 DEF RenderTake, On
<1>23. CASE RenderLock
  BY <1>b, <1>23 DEF RenderLock, On
<1>24. CASE RenderAsks
  BY <1>b, <1>24 DEF RenderAsks, On
<1>25. CASE RenderDone
  BY <1>b, <1>25 DEF RenderDone, On
<1>26. CASE RenderWakes
  BY <1>b, <1>26 DEF RenderWakes, On
<1>27. CASE RenderUnlock
  BY <1>b, <1>27 DEF RenderUnlock, On
<1>28. CASE WorkerAsks
  BY <1>b, <1>28 DEF WorkerAsks, On
<1>q. QED
  BY <1>1, <1>2, <1>3, <1>4, <1>5, <1>6, <1>7, <1>8, <1>9, <1>10, <1>11, <1>12,
      <1>13, <1>14, <1>15, <1>16, <1>17, <1>18, <1>19, <1>20, <1>21, <1>22, <1>23,
          <1>24, <1>25, <1>26, <1>27, <1>28 DEF Next, Setup, Loop, Activity, Apply,
              Render
-----------------------------------------------------------------------------
(* The invariant is kept by every action: one part, one lemma.                *)
LEMMA ControlKept == IInv /\ Next => Control'
<1> SUFFICES ASSUME IInv, Next PROVE Control'
  OBVIOUS
<1> ActivityTypeOK /\ Control
  BY DEF IInv
<1> USE ActivityAssumption DEF ActivityTypeOK, Control, Launchable, Running, nav,
          render, main
<1>1. CASE BootShow
  BY <1>1 DEF BootShow, Fresh
<1>2. CASE SetupGo
  BY <1>2 DEF SetupGo, Fresh
<1>3. CASE SetupDone
  BY <1>3 DEF SetupDone
<1>4. CASE SetupWait
  BY <1>4 DEF SetupWait, Wait
<1>5. CASE LoopSkip
  BY <1>5 DEF LoopSkip
<1>6. CASE LoopGesture
  BY <1>6 DEF LoopGesture, Dropped, Returned, Spoilt, Fresh
<1>7. CASE LoopActivity
  BY <1>7 DEF LoopActivity
<1>8. CASE GoToSleep
  BY <1>8 DEF GoToSleep, Dropped
<1>9. CASE WakeUp
  BY <1>9 DEF WakeUp
<1>10. CASE Change
  BY <1>10 DEF Change, Runs, MutexFree
<1>11. CASE Ask
  BY <1>11 DEF Ask
<1>12. CASE AskAndWait
  BY <1>12 DEF AskAndWait, Wait
<1>13. CASE Wake
  BY <1>13 DEF Wake
<1>14. CASE Launch
  BY <1>14 DEF Launch, Runs, Navigates, Spoilt, Fresh
<1>15. CASE Finish
  BY <1>15 DEF Finish, Dropped, Runs, Navigates, Spoilt
<1>16. CASE Go
  BY <1>16 DEF Go, Dropped, Runs, Navigates, Spoilt, Fresh
<1>17. CASE Return
  BY <1>17 DEF Return
<1>18. CASE ApplyNone
  BY <1>18 DEF ApplyNone, Returned
<1>19. CASE PopLast
  BY <1>19 DEF PopLast, MutexFree, Fresh, Forget
<1>20. CASE PopBack
  BY <1>20 DEF PopBack, MutexFree, Forget, Below
<1>21. CASE Enter
  BY <1>21 DEF Enter, MutexFree, Forget
<1>22. CASE RenderTake
  BY <1>22 DEF RenderTake, On
<1>23. CASE RenderLock
  BY <1>23 DEF RenderLock, On
<1>24. CASE RenderAsks
  BY <1>24 DEF RenderAsks, On
<1>25. CASE RenderDone
  BY <1>25 DEF RenderDone, On
<1>26. CASE RenderWakes
  BY <1>26 DEF RenderWakes, On
<1>27. CASE RenderUnlock
  BY <1>27 DEF RenderUnlock, On
<1>28. CASE WorkerAsks
  BY <1>28 DEF WorkerAsks, On
<1>q. QED
  BY <1>1, <1>2, <1>3, <1>4, <1>5, <1>6, <1>7, <1>8, <1>9, <1>10, <1>11, <1>12,
      <1>13, <1>14, <1>15, <1>16, <1>17, <1>18, <1>19, <1>20, <1>21, <1>22, <1>23,
          <1>24, <1>25, <1>26, <1>27, <1>28 DEF Next, Setup, Loop, Activity, Apply,
              Render

LEMMA DrawingKept == IInv /\ Next => Drawing'
<1> SUFFICES ASSUME IInv, Next PROVE Drawing'
  OBVIOUS
<1> ActivityTypeOK /\ Control /\ Drawing
  BY DEF IInv
<1> USE ActivityAssumption DEF ActivityTypeOK, Control, Launchable, Running, Drawing,
               DrawsCurrent, WaiterServed, DueInv, MutexFree, nav, render, main
<1>1. CASE BootShow
  BY <1>1 DEF BootShow, Fresh
<1>2. CASE SetupGo
  BY <1>2 DEF SetupGo, Fresh
<1>3. CASE SetupDone
  BY <1>3 DEF SetupDone
<1>4. CASE SetupWait
  BY <1>4 DEF SetupWait, Wait
<1>5. CASE LoopSkip
  BY <1>5 DEF LoopSkip
<1>6. CASE LoopGesture
  BY <1>6 DEF LoopGesture, Dropped, Returned, Spoilt, Fresh
<1>7. CASE LoopActivity
  BY <1>7 DEF LoopActivity
<1>8. CASE GoToSleep
  BY <1>8 DEF GoToSleep, Dropped
<1>9. CASE WakeUp
  BY <1>9 DEF WakeUp
<1>10. CASE Change
  BY <1>10 DEF Change, Runs, MutexFree
<1>11. CASE Ask
  BY <1>11 DEF Ask
<1>12. CASE AskAndWait
  BY <1>12 DEF AskAndWait, Wait
<1>13. CASE Wake
  BY <1>13 DEF Wake
<1>14. CASE Launch
  BY <1>14 DEF Launch, Runs, Navigates, Spoilt, Fresh
<1>15. CASE Finish
  BY <1>15 DEF Finish, Dropped, Runs, Navigates, Spoilt
<1>16. CASE Go
  BY <1>16 DEF Go, Dropped, Runs, Navigates, Spoilt, Fresh
<1>17. CASE Return
  BY <1>17 DEF Return
<1>18. CASE ApplyNone
  BY <1>18 DEF ApplyNone, Returned
<1>19. CASE PopLast
  BY <1>19 DEF PopLast, MutexFree, Fresh, Forget
<1>20. CASE PopBack
  BY <1>20 DEF PopBack, MutexFree, Forget, Below
<1>21. CASE Enter
  BY <1>21 DEF Enter, MutexFree, Forget
<1>22. CASE RenderTake
  BY <1>22 DEF RenderTake, On
<1>23. CASE RenderLock
  BY <1>23 DEF RenderLock, On
<1>24. CASE RenderAsks
  BY <1>24 DEF RenderAsks, On
<1>25. CASE RenderDone
  BY <1>25 DEF RenderDone, On
<1>26. CASE RenderWakes
  BY <1>26 DEF RenderWakes, On
<1>27. CASE RenderUnlock
  BY <1>27 DEF RenderUnlock, On
<1>28. CASE WorkerAsks
  BY <1>28 DEF WorkerAsks, On
<1>q. QED
  BY <1>1, <1>2, <1>3, <1>4, <1>5, <1>6, <1>7, <1>8, <1>9, <1>10, <1>11, <1>12,
      <1>13, <1>14, <1>15, <1>16, <1>17, <1>18, <1>19, <1>20, <1>21, <1>22, <1>23,
          <1>24, <1>25, <1>26, <1>27, <1>28 DEF Next, Setup, Loop, Activity, Apply,
              Render

LEMMA SleepingKept == IInv /\ Next => Sleeping'
<1> SUFFICES ASSUME IInv, Next PROVE Sleeping'
  OBVIOUS
<1> ActivityTypeOK /\ Control /\ Sleeping
  BY DEF IInv
<1> USE ActivityAssumption DEF ActivityTypeOK, Control, Launchable, Running, Sleeping,
               SleepNext, SleepNow, nav, render, main
<1>1. CASE BootShow
  BY <1>1 DEF BootShow, Fresh
<1>2. CASE SetupGo
  BY <1>2 DEF SetupGo, Fresh
<1>3. CASE SetupDone
  BY <1>3 DEF SetupDone
<1>4. CASE SetupWait
  BY <1>4 DEF SetupWait, Wait
<1>5. CASE LoopSkip
  BY <1>5 DEF LoopSkip
<1>6. CASE LoopGesture
  BY <1>6 DEF LoopGesture, Dropped, Returned, Spoilt, Fresh
<1>7. CASE LoopActivity
  BY <1>7 DEF LoopActivity
<1>8. CASE GoToSleep
  BY <1>8 DEF GoToSleep, Dropped
<1>9. CASE WakeUp
  BY <1>9 DEF WakeUp
<1>10. CASE Change
  BY <1>10 DEF Change, Runs, MutexFree
<1>11. CASE Ask
  BY <1>11 DEF Ask
<1>12. CASE AskAndWait
  BY <1>12 DEF AskAndWait, Wait
<1>13. CASE Wake
  BY <1>13 DEF Wake
<1>14. CASE Launch
  BY <1>14 DEF Launch, Runs, Navigates, Spoilt, Fresh
<1>15. CASE Finish
  BY <1>15 DEF Finish, Dropped, Runs, Navigates, Spoilt
<1>16. CASE Go
  BY <1>16 DEF Go, Dropped, Runs, Navigates, Spoilt, Fresh
<1>17. CASE Return
  BY <1>17 DEF Return
<1>18. CASE ApplyNone
  BY <1>18 DEF ApplyNone, Returned
<1>19. CASE PopLast
  BY <1>19 DEF PopLast, MutexFree, Fresh, Forget
<1>20. CASE PopBack
  BY <1>20 DEF PopBack, MutexFree, Forget, Below
<1>21. CASE Enter
  BY <1>21 DEF Enter, MutexFree, Forget
<1>22. CASE RenderTake
  BY <1>22 DEF RenderTake, On
<1>23. CASE RenderLock
  BY <1>23 DEF RenderLock, On
<1>24. CASE RenderAsks
  BY <1>24 DEF RenderAsks, On
<1>25. CASE RenderDone
  BY <1>25 DEF RenderDone, On
<1>26. CASE RenderWakes
  BY <1>26 DEF RenderWakes, On
<1>27. CASE RenderUnlock
  BY <1>27 DEF RenderUnlock, On
<1>28. CASE WorkerAsks
  BY <1>28 DEF WorkerAsks, On
<1>q. QED
  BY <1>1, <1>2, <1>3, <1>4, <1>5, <1>6, <1>7, <1>8, <1>9, <1>10, <1>11, <1>12,
      <1>13, <1>14, <1>15, <1>16, <1>17, <1>18, <1>19, <1>20, <1>21, <1>22, <1>23,
          <1>24, <1>25, <1>26, <1>27, <1>28 DEF Next, Setup, Loop, Activity, Apply,
              Render

LEMMA OwnedKept == IInv /\ Next => OwnedOnce'
<1> SUFFICES ASSUME IInv, Next PROVE OwnedOnce'
  OBVIOUS
<1> ActivityTypeOK /\ Control /\ Drawing /\ Sleeping /\ OwnedOnce /\ Handlers
  BY DEF IInv
<1> USE ActivityAssumption DEF ActivityTypeOK, Control, Launchable, Running,
          OwnedOnce, Live, Elems, Drawing, DrawsCurrent, MutexFree, Sleeping,
              SleepNext, SleepNow, Handlers, nav, render, main
<1>1. CASE BootShow
  BY <1>1 DEF BootShow, Fresh
<1>2. CASE SetupGo
  BY <1>2 DEF SetupGo, Fresh
<1>3. CASE SetupDone
  BY <1>3 DEF SetupDone
<1>4. CASE SetupWait
  BY <1>4 DEF SetupWait, Wait
<1>5. CASE LoopSkip
  BY <1>5 DEF LoopSkip
<1>6. CASE LoopGesture
  BY <1>6 DEF LoopGesture, Dropped, Returned, Spoilt, Fresh
<1>7. CASE LoopActivity
  BY <1>7 DEF LoopActivity
<1>8. CASE GoToSleep
  BY <1>8 DEF GoToSleep, Dropped
<1>9. CASE WakeUp
  BY <1>9 DEF WakeUp
<1>10. CASE Change
  BY <1>10 DEF Change, Runs, MutexFree
<1>11. CASE Ask
  BY <1>11 DEF Ask
<1>12. CASE AskAndWait
  BY <1>12 DEF AskAndWait, Wait
<1>13. CASE Wake
  BY <1>13 DEF Wake
<1>14. CASE Launch
  BY <1>14 DEF Launch, Runs, Navigates, Spoilt, Fresh
<1>15. CASE Finish
  BY <1>15 DEF Finish, Dropped, Runs, Navigates, Spoilt
<1>16. CASE Go
  BY <1>16 DEF Go, Dropped, Runs, Navigates, Spoilt, Fresh
<1>17. CASE Return
  BY <1>17 DEF Return
<1>18. CASE ApplyNone
  BY <1>18 DEF ApplyNone, Returned
<1>19. CASE PopLast
  BY <1>19 DEF PopLast, MutexFree, Fresh, Forget
<1>20. CASE PopBack
  <2>1. /\ Len(stack) \in Nat \ {0}
        /\ DOMAIN stack = 1 .. Len(stack) /\ DOMAIN stack' = 1 .. Len(stack) - 1
        /\ \A i \in DOMAIN stack' : stack'[i] = stack[i]
        /\ stack[Len(stack)] \in Acts
    BY <1>20, Popped DEF PopBack
  <2>2. \A i \in DOMAIN stack' : i \in DOMAIN stack /\ i # Len(stack)
    BY <2>1
  <2>3. Len(stack) \in DOMAIN stack
    BY <2>1
  <2>q. QED
    BY <1>20, <2>1, <2>2, <2>3 DEF PopBack, Below
<1>21. CASE Enter
  <2>1. CASE action = "replace"
    BY <1>21, <2>1, NoElement DEF Enter
  <2>2. CASE action = "push"
    <3>1. cur \in Acts /\ stack' = Append(stack, cur)
      BY <1>21, <2>2 DEF Enter
    <3>2. /\ Len(stack) \in Nat
          /\ DOMAIN stack = 1 .. Len(stack) /\ DOMAIN stack' = 1 .. Len(stack) + 1
          /\ \A i \in DOMAIN stack : stack'[i] = stack[i]
          /\ stack'[Len(stack) + 1] = cur
      BY <3>1, Pushed
    <3>3. \A i \in DOMAIN stack' :
            \/ i \in DOMAIN stack /\ stack'[i] = stack[i]
            \/ i = Len(stack) + 1 /\ stack'[i] = cur
      BY <3>2
    <3>4. \A i, j \in DOMAIN stack' : stack'[i] = stack'[j] => i = j
      BY <3>2, <3>3
    <3>5. \A i \in DOMAIN stack' : stack'[i] \notin {pend, None, Sleep}
      BY <3>1, <3>3, <2>2, <1>21, LenProperties DEF Enter
    <3>q. QED
      BY <1>21, <2>2, <3>4, <3>5 DEF Enter
  <2>q. QED
    BY <1>21, <2>1, <2>2 DEF Enter
<1>22. CASE RenderTake
  BY <1>22 DEF RenderTake, On
<1>23. CASE RenderLock
  BY <1>23 DEF RenderLock, On
<1>24. CASE RenderAsks
  BY <1>24 DEF RenderAsks, On
<1>25. CASE RenderDone
  BY <1>25 DEF RenderDone, On
<1>26. CASE RenderWakes
  BY <1>26 DEF RenderWakes, On
<1>27. CASE RenderUnlock
  BY <1>27 DEF RenderUnlock, On
<1>28. CASE WorkerAsks
  BY <1>28 DEF WorkerAsks, On
<1>q. QED
  BY <1>1, <1>2, <1>3, <1>4, <1>5, <1>6, <1>7, <1>8, <1>9, <1>10, <1>11, <1>12,
      <1>13, <1>14, <1>15, <1>16, <1>17, <1>18, <1>19, <1>20, <1>21, <1>22, <1>23,
          <1>24, <1>25, <1>26, <1>27, <1>28 DEF Next, Setup, Loop, Activity, Apply,
              Render

LEMMA HandlersKept == IInv /\ Next => Handlers'
<1> SUFFICES ASSUME IInv, Next PROVE Handlers'
  OBVIOUS
<1> ActivityTypeOK /\ Control /\ OwnedOnce /\ Handlers
  BY DEF IInv
<1> USE ActivityAssumption DEF ActivityTypeOK, Control, Launchable, Running,
          OwnedOnce, Handlers, Above, Live, Elems, nav, render, main
<1>1. CASE BootShow
  BY <1>1 DEF BootShow, Fresh
<1>2. CASE SetupGo
  BY <1>2 DEF SetupGo, Fresh
<1>3. CASE SetupDone
  BY <1>3 DEF SetupDone
<1>4. CASE SetupWait
  BY <1>4 DEF SetupWait, Wait
<1>5. CASE LoopSkip
  BY <1>5 DEF LoopSkip
<1>6. CASE LoopGesture
  BY <1>6 DEF LoopGesture, Dropped, Returned, Spoilt, Fresh
<1>7. CASE LoopActivity
  BY <1>7 DEF LoopActivity
<1>8. CASE GoToSleep
  BY <1>8 DEF GoToSleep, Dropped
<1>9. CASE WakeUp
  BY <1>9 DEF WakeUp
<1>10. CASE Change
  BY <1>10 DEF Change, Runs, MutexFree
<1>11. CASE Ask
  BY <1>11 DEF Ask
<1>12. CASE AskAndWait
  BY <1>12 DEF AskAndWait, Wait
<1>13. CASE Wake
  BY <1>13 DEF Wake
<1>14. CASE Launch
  BY <1>14 DEF Launch, Runs, Navigates, Spoilt, Fresh
<1>15. CASE Finish
  BY <1>15 DEF Finish, Dropped, Runs, Navigates, Spoilt
<1>16. CASE Go
  BY <1>16 DEF Go, Dropped, Runs, Navigates, Spoilt, Fresh
<1>17. CASE Return
  BY <1>17 DEF Return
<1>18. CASE ApplyNone
  BY <1>18 DEF ApplyNone, Returned
<1>19. CASE PopLast
  BY <1>19 DEF PopLast, MutexFree, Fresh, Forget
<1>20. CASE PopBack
  <2>1. /\ Len(stack) \in Nat \ {0} /\ Len(stack') = Len(stack) - 1
        /\ DOMAIN stack = 1 .. Len(stack) /\ DOMAIN stack' = 1 .. Len(stack) - 1
        /\ \A i \in DOMAIN stack' : stack'[i] = stack[i]
        /\ stack[Len(stack)] \in Acts
    <3>1. stack \in Seq(Acts) /\ stack # <<>> /\ stack' = SubSeq(stack, 1,
        Len(stack) - 1)
      BY <1>20 DEF PopBack
    <3>2. Len(stack) \in Nat \ {0} /\ stack[Len(stack)] \in Acts
      BY <3>1, Popped
    <3>3. DOMAIN stack' = 1 .. Len(stack) - 1 /\ stack' \in Seq(Acts)
      BY <3>1, Popped
    <3>5. Len(stack') = Len(stack) - 1
      BY <3>2, <3>3, LenProperties
    <3>4. DOMAIN stack = 1 .. Len(stack) /\ \A i \in DOMAIN stack' : stack'[i] = stack[i]
      BY <3>1, Popped
    <3>q. QED
      BY <3>2, <3>3, <3>4, <3>5
  <2>2. \A i \in DOMAIN stack' :
          i \in DOMAIN stack /\ i # Len(stack) /\ i + 1 \in DOMAIN stack
    BY <2>1
  <2>3. cur' = stack[Len(stack)] /\ Len(stack) \in DOMAIN stack
    BY <1>20, <2>1 DEF PopBack, Below
  <2>4. \A i \in DOMAIN stack' : stack'[i] \in Acts \ {cur, cur'}
    BY <2>1, <2>2, <2>3, LenProperties
  <2>5. \A a \in Acts : handler'[a] = IF a \in {cur, cur'} THEN None ELSE handler[a]
    BY <1>20, <2>3 DEF PopBack, Below, Forget
  <2>6. \A i \in DOMAIN stack' : Above(i)' = stack[i + 1]
    BY <2>1, <2>2, <2>3, SMT
  <2>7. \A i \in DOMAIN stack' : handler'[stack'[i]] \in {None, Lost, Above(i)'}
    BY <2>1, <2>2, <2>4, <2>5, <2>6
  <2>8. \A a \in Acts : a # cur' /\ a \notin Elems(stack') => handler'[a] = None
    <3> SUFFICES ASSUME NEW a \in Acts, a # cur', a \notin Elems(stack'), a # cur
                 PROVE  handler[a] = None
      BY <2>5
    <3>1. a \notin Elems(stack)
      BY <2>1, <2>3 DEF Elems
    <3>q. QED
      BY <3>1
  <2>9. cur' # None /\ handler'[cur'] = None /\ pc' # "top"
    <3>1. cur' \in Acts
      BY <2>1, <2>3
    <3>2. handler'[cur'] = None
      BY <2>5, <3>1
    <3>3. pc' # "top"
      BY <1>20 DEF PopBack
    <3>q. QED
      BY <3>1, <3>2, <3>3
  <2>q. QED
    BY <2>7, <2>8, <2>9 DEF Elems
<1>21. CASE Enter
  <2>0. cur # None /\ cur' = pend /\ pend \in Acts /\ pc' = "run" /\ pend \notin Elems(stack)
    BY <1>21 DEF Enter
  <2>1. CASE action = "replace"
    <3>1. stack' = <<>> /\ \A a \in Acts : handler'[a] = None
      BY <1>21, <2>1 DEF Enter, Forget
    <3>q. QED
      BY <3>1, <2>0, NoElement
  <2>2. CASE action = "push"
    <3>1. cur \in Acts /\ stack' = Append(stack, cur) /\ handler' = handler
      BY <1>21, <2>2, <2>0 DEF Enter
    <3>2. /\ Len(stack) \in Nat /\ Len(stack') = Len(stack) + 1 /\ stack' # <<>>
          /\ DOMAIN stack = 1 .. Len(stack) /\ DOMAIN stack' = 1 .. Len(stack) + 1
          /\ \A i \in DOMAIN stack : stack'[i] = stack[i]
          /\ stack'[Len(stack) + 1] = cur
      BY <3>1, Pushed
    <3>3. \A i \in DOMAIN stack : handler'[stack'[i]] \in {None, Lost, Above(i)'}
      <4> SUFFICES ASSUME NEW i \in DOMAIN stack
                   PROVE  handler'[stack'[i]] \in {None, Lost, Above(i)'}
        OBVIOUS
      <4>1. stack'[i] = stack[i] /\ Above(i)' = stack'[i + 1]
        BY <3>2 DEF Above
      <4>2. Above(i) = stack'[i + 1]
        BY <3>2 DEF Above
      <4>q. QED
        BY <3>1, <4>1, <4>2
    <3>n. PICK n : n = Len(stack) + 1
      OBVIOUS
    <3>4. Above(n)' = pend
      BY <3>2, <3>n, <2>0 DEF Above
    <3>5. handler'[cur] \in {None, Lost, pend}
      BY <3>1, <2>2, <2>0
    <3>6. \A i \in DOMAIN stack' : handler'[stack'[i]] \in {None, Lost, Above(i)'}
      <4> SUFFICES ASSUME NEW i \in DOMAIN stack'
                   PROVE  handler'[stack'[i]] \in {None, Lost, Above(i)'}
        OBVIOUS
      <4>1. CASE i \in DOMAIN stack
        BY <4>1, <3>3
      <4>2. CASE i = n
        BY <4>2, <3>n, <3>2, <3>4, <3>5
      <4>q. QED
        BY <4>1, <4>2, <3>n, <3>2
    <3>7. \A a \in Acts : a \notin Elems(stack') => a # cur /\ a \notin Elems(stack)
      <4>1. Elems(stack) \subseteq Elems(stack')
        BY <3>2 DEF Elems
      <4>2. cur \in Elems(stack')
        BY <3>2 DEF Elems
      <4>q. QED
        BY <4>1, <4>2
    <3>8. handler'[cur'] = None
      BY <2>0, <3>1
    <3>q. QED
      BY <2>0, <3>1, <3>6, <3>7, <3>8 DEF Elems
  <2>q. QED
    BY <1>21, <2>1, <2>2 DEF Enter
<1>22. CASE RenderTake
  BY <1>22 DEF RenderTake, On
<1>23. CASE RenderLock
  BY <1>23 DEF RenderLock, On
<1>24. CASE RenderAsks
  BY <1>24 DEF RenderAsks, On
<1>25. CASE RenderDone
  BY <1>25 DEF RenderDone, On
<1>26. CASE RenderWakes
  BY <1>26 DEF RenderWakes, On
<1>27. CASE RenderUnlock
  BY <1>27 DEF RenderUnlock, On
<1>28. CASE WorkerAsks
  BY <1>28 DEF WorkerAsks, On
<1>q. QED
  BY <1>1, <1>2, <1>3, <1>4, <1>5, <1>6, <1>7, <1>8, <1>9, <1>10, <1>11, <1>12,
      <1>13, <1>14, <1>15, <1>16, <1>17, <1>18, <1>19, <1>20, <1>21, <1>22, <1>23,
          <1>24, <1>25, <1>26, <1>27, <1>28 DEF Next, Setup, Loop, Activity, Apply,
              Render

-----------------------------------------------------------------------------
LEMMA InitInv == Init => IInv
<1> SUFFICES ASSUME Init PROVE IInv
  OBVIOUS
<1>1. ActivityTypeOK
  BY NoElement DEF Init, ActivityTypeOK
<1>2. Control /\ Drawing /\ Sleeping
  BY ActivityAssumption
  DEF Init, Control, Launchable, Running, Drawing, DrawsCurrent, WaiterServed, DueInv,
      Sleeping
<1>3. OwnedOnce /\ Handlers
  BY ActivityAssumption, NoElement DEF Init, OwnedOnce, Handlers
<1>q. QED
  BY <1>1, <1>2, <1>3 DEF IInv

LEMMA StutterKept == IInv /\ UNCHANGED vars => IInv'
<1> SUFFICES ASSUME IInv, UNCHANGED vars PROVE IInv'
  OBVIOUS
<1> USE DEF IInv, vars, nav, render, main
<1>1. ActivityTypeOK' /\ Control'
  BY DEF ActivityTypeOK, Control, Launchable, Running
<1>2. Drawing' /\ Sleeping'
  BY DEF Drawing, DrawsCurrent, WaiterServed, DueInv, MutexFree, Sleeping, SleepNext,
         SleepNow, Running
<1>3. OwnedOnce' /\ Handlers'
  BY DEF OwnedOnce, Handlers, Above, Elems
<1>q. QED
  BY <1>1, <1>2, <1>3

(* The inductive invariant holds in every reachable state.                   *)
THEOREM ActivityInvariant == Spec => []IInv
<1>1. IInv /\ [Next]_vars => IInv'
  BY TypesKept, ControlKept, DrawingKept, SleepingKept, OwnedKept, HandlersKept,
     StutterKept DEF IInv
<1>q. QED
  BY InitInv, <1>1, PTL DEF Spec

(* Every variable of the activity manager keeps its type.                    *)
THEOREM ActivityTypes == Spec => []ActivityTypeOK
<1>1. IInv => ActivityTypeOK
  BY DEF IInv
<1>q. QED
  BY ActivityInvariant, <1>1, PTL

(* RenderLock and the waits of ActivityManager: the render task is never      *)
(* inside an activity that was destroyed.                                    *)
THEOREM RenderingIsSafe == Spec => []DrawsCurrent
<1>1. IInv => DrawsCurrent
  BY DEF IInv, Drawing
<1>q. QED
  BY ActivityInvariant, <1>1, PTL

(* The waiter of requestUpdateAndWait is never forgotten: while it is         *)
(* blocked, its notification is pending or the render task will give it.     *)
THEOREM WaitersAreServed == Spec => []WaiterServed
<1>1. IInv => WaiterServed
  BY DEF IInv, Drawing
<1>q. QED
  BY ActivityInvariant, <1>1, PTL

(* loop() never spins on a pending action that has nothing to launch.        *)
THEOREM LaunchesEnd == Spec => []Launchable
<1>1. IInv => Launchable
  BY DEF IInv, Control
<1>q. QED
  BY ActivityInvariant, <1>1, PTL

(* Asleep means the sleep screen is on, if nothing came in between; an       *)
(* activity that has the card is not about to be replaced.                   *)
THEOREM SleepsOnItsScreen == Spec => [](SleepShown /\ ExclusiveAlone)
<1>1. IInv => SleepShown /\ ExclusiveAlone
  BY DEF IInv, Sleeping, SleepNow, Control, Running, SleepShown, ExclusiveAlone
<1>q. QED
  BY ActivityInvariant, <1>1, PTL

(* A result handler that is called was set for the activity that leaves, or  *)
(* for one that never came on, because it could not be allocated or was      *)
(* dropped while it was pending.                                             *)
THEOREM ResultsReachTheirHandler == Spec => ResultsNotCrossed
<1> DEFINE Own == where' = "handler" /\ pc = "apply" /\ pc' = "run"
                  => handler[cur'] \in {cur, Lost}
<1>1. IInv /\ [Next]_vars => [Own]_vars
  <2> SUFFICES ASSUME IInv, Next, where' = "handler", pc = "apply", pc' = "run"
               PROVE  handler[cur'] \in {cur, Lost}
    OBVIOUS
  <2>a. CASE Setup \/ Loop \/ Activity
    BY <2>a DEF Setup, Loop, Activity, BootShow, SetupGo, SetupDone, SetupWait,
        LoopSkip,
                LoopGesture, LoopActivity, GoToSleep, WakeUp, Change, Ask,
                    AskAndWait, Wait,
                Wake, Launch, Finish, Go, Return, Runs, Navigates
  <2>b. CASE Render \/ WorkerAsks
    BY <2>b DEF Render, RenderTake, RenderLock, RenderAsks, RenderDone, RenderWakes,
                RenderUnlock, WorkerAsks, main
  <2>c. CASE ApplyNone \/ PopLast \/ Enter
    BY <2>c DEF ApplyNone, Returned, PopLast, Enter
  <2>d. CASE PopBack
    <3>1. stack \in Seq(Acts) /\ stack # <<>> /\ cur' = stack[Len(stack)]
      BY <2>d DEF PopBack, Below, IInv, ActivityTypeOK
    <3>2. Len(stack) \in DOMAIN stack
      BY <3>1, EmptySeq, LenProperties
    <3>3. handler[Below] # None
      BY <2>d DEF PopBack
    <3>4. handler[Below] \in {None, Lost, cur}
      BY <3>2 DEF IInv, Handlers, Above, Below
    <3>q. QED
      BY <3>1, <3>3, <3>4 DEF Below
  <2>q. QED
    BY <2>a, <2>b, <2>c, <2>d DEF Next, Apply
<1>q. QED
  BY ActivityInvariant, <1>1, PTL DEF Spec, ResultsNotCrossed

(* What was changed under the lock is drawn when requestUpdateAndWait        *)
(* returns.                                                                  *)
THEOREM WaitedIsDrawn == Spec => WaitShows
<1> DEFINE Shows == pc = "blocked" /\ pc' # "blocked" => due # "locked"
<1>1. IInv /\ [Next]_vars => [Shows]_vars
  <2> SUFFICES ASSUME IInv, Next, pc = "blocked", pc' # "blocked"
               PROVE  due # "locked"
    OBVIOUS
  <2>1. Wake
    BY DEF Next, Setup, Loop, Activity, Apply, Render, BootShow, SetupGo, SetupDone,
           SetupWait, LoopSkip, LoopGesture, LoopActivity, GoToSleep, WakeUp, Change,
           Ask, AskAndWait, Wait, Launch, Finish, Go, Return, Runs, Navigates,
           ApplyNone, PopLast, PopBack, Enter, RenderTake, RenderLock, RenderAsks,
           RenderDone, RenderWakes, RenderUnlock, WorkerAsks, main, nav
  <2>q. QED
    BY <2>1 DEF Wake, IInv, Drawing, DueInv
<1>q. QED
  BY ActivityInvariant, <1>1, PTL DEF Spec, WaitShows
=============================================================================
