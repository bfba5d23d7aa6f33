------------------------ MODULE PseudoThreads_proofs ------------------------
(***************************************************************************)
(* Theorems about PseudoThreads for every value of its constants.          *)
(*                                                                         *)
(* Every action changes the slots in one of three ways: it rewrites the    *)
(* top slot, pushes one, or pops one.  A lemma for each way shows that it  *)
(* preserves what concerns the slots; the theorem about a step then goes   *)
(* through the actions and says which way each of them takes.              *)
(*                                                                         *)
(* The parts that follow: critical threads, whose duration cannot run out, *)
(* and over which nothing is launched that the message filter and the timer*)
(* check hold back; OnExit threads; the shapes of steps, and what follows  *)
(* from them of priorities, timers, paused threads and ThreadStack.        *)
(***************************************************************************)
EXTENDS PseudoThreads, FiniteSetTheorems, TLAPS

\* Slot 0, and no other, is the auto-execute thread's.
SlotZero ==
  \A i \in Slots : g_array[i].by = "auto" <=> i = 0

\* The slots above the running one are not in use, and no other is free.
AboveUnused ==
  \A i \in Slots : IF i > g THEN g_array[i] = Unused ELSE g_array[i].by # "none"

SlotsTyped ==
  /\ g_array \in [Slots -> Slot]
  /\ g \in Slots
  /\ g_nThreads \in Int

SlotsInv == SlotsTyped /\ SlotsInBounds /\ SlotZero /\ AboveUnused

OtherTypes ==
  /\ g_nPausedThreads \in Int
  /\ g_AllowInterruption \in BOOLEAN /\ g_OnExitIsRunning \in BOOLEAN
  /\ mAutoExecSectionIsRunning \in BOOLEAN
  /\ mUninterruptibleTime \in Grace /\ mUninterruptedLineCountMax \in Grace
  /\ queue \in Seq(Event)
  /\ alive \in BOOLEAN

\* The inductive invariant: TypeOK, SlotsInBounds and what they rest on.
IInv == SlotsInv /\ OtherTypes

----------------------------------------------------------------------------
(* The ways in which an action changes the slots. *)

\* The unused slot's record is well typed.
LEMMA UnusedType == Unused \in Slot /\ Unused.by = "none"
<1>1. 0 \in Prios
  BY ConstantsAssumption DEF Prios
<1>2. <<>> \in Seq(Saved)
  OBVIOUS
<1>3. QED
  BY <1>1, <1>2 DEF Unused, Slot, Launchers, Steps, Pumps, Filters

\* InitNewThread yields a slot of the given launcher and priority.
LEMMA InitNewThreadType ==
  ASSUME SlotsTyped, NEW by \in Launchers, NEW prio \in Prios,
         NEW skip \in BOOLEAN, NEW crit \in BOOLEAN
  PROVE  /\ InitNewThread(by, prio, skip, crit) \in Slot
         /\ InitNewThread(by, prio, skip, crit).by = by
<1>1. Unused \in Slot
  BY UnusedType
<1>2. 0 \in Slots
  BY ConstantsAssumption DEF Slots, Additional
<1>3. g_array[0] \in Slot
  BY <1>2 DEF SlotsTyped
<1>4. g_array[0].critical \in BOOLEAN /\ g_array[0].timers \in BOOLEAN
  BY <1>3 DEF Slot
<1>5. "line" \in Steps
  BY DEF Steps
<1>6. QED
  BY <1>1, <1>4, <1>5, ZenonT(60) DEF InitNewThread, Slot

\* Rewriting the top slot, its launcher staying the auto-execute thread or not.
LEMMA SetTopKeeps ==
  ASSUME SlotsInv, NEW rec \in Slot,
         rec.by # "none", rec.by = "auto" <=> Top.by = "auto",
         SetTop(rec),
         mAutoExecSectionIsRunning' = mAutoExecSectionIsRunning,
         g_OnExitIsRunning' = g_OnExitIsRunning
  PROVE  SlotsInv'
<1>1. g_array' \in [Slots -> Slot] /\ g' = g /\ g_nThreads' = g_nThreads
  BY DEF SlotsInv, SlotsTyped, SetTop
<1>2. \A i \in Slots : g_array'[i] = IF i = g THEN rec ELSE g_array[i]
  BY DEF SlotsInv, SlotsTyped, SetTop
<1>3. g \in Slots /\ Slots \subseteq Int
  BY ConstantsAssumption DEF SlotsInv, SlotsTyped, Slots, Additional
<1>4. SlotsTyped'
  BY <1>1 DEF SlotsInv, SlotsTyped
<1>5. SlotsInBounds'
  BY <1>1 DEF SlotsInv, SlotsInBounds
<1>6. SlotZero'
  BY <1>1, <1>2, <1>3 DEF SlotsInv, SlotZero, Top
<1>7. AboveUnused'
  BY <1>1, <1>2, <1>3 DEF SlotsInv, AboveUnused
<1>8. QED
  BY <1>4, <1>5, <1>6, <1>7 DEF SlotsInv

\* The top slot is rewritten by its own launcher's subroutine or pump.
SetsTop(rec) ==
  /\ rec \in Slot /\ rec.by = Top.by
  /\ SetTop(rec)
  /\ UNCHANGED <<mAutoExecSectionIsRunning, g_OnExitIsRunning>>

\* A step that rewrites the top slot and leaves the counters alone preserves
\* the invariant.
LEMMA SetsTopKeeps ==
  ASSUME SlotsInv, NEW rec, SetsTop(rec)
  PROVE  SlotsInv'
<1>1. g \in Slots /\ Slots \subseteq Int
  BY ConstantsAssumption DEF SlotsInv, SlotsTyped, Slots, Additional
<1>2. Top.by # "none"
  BY <1>1 DEF SlotsInv, AboveUnused, Top
<1>3. QED
  BY <1>2, SetTopKeeps DEF SetsTop

\* Pushing a slot, below the limit or for OnExit.
LEMMA PushOverKeeps ==
  ASSUME SlotsInv, NEW under \in Slot, NEW rec \in Slot,
         under.by = Top.by, rec.by \notin {"none", "auto"},
         PushOver(under, rec),
         mAutoExecSectionIsRunning \in BOOLEAN,
         mAutoExecSectionIsRunning' = mAutoExecSectionIsRunning,
         \/ /\ g_nThreads < MaxThreads
            /\ g_OnExitIsRunning' = g_OnExitIsRunning
         \/ g_OnExitIsRunning = FALSE /\ g_OnExitIsRunning' = TRUE
  PROVE  SlotsInv'
<1>1. MaxThreads \in Nat /\ Slots = 0 .. (MaxThreads + 1)
  BY ConstantsAssumption DEF Slots, Additional
<1>2. g \in Slots /\ g_nThreads \in Int
  BY DEF SlotsInv, SlotsTyped
<1>3. g' = g + 1 /\ g_nThreads' = g_nThreads + 1
  BY DEF PushOver
<1>4. g + 1 \in Slots
  BY <1>1, <1>2 DEF SlotsInv, SlotsInBounds
<1>5. g_array' \in [Slots -> Slot]
  BY DEF SlotsInv, SlotsTyped, PushOver
<1>6. \A i \in Slots : g_array'[i] = IF i = g + 1 THEN rec
                                     ELSE IF i = g THEN under ELSE g_array[i]
  BY <1>1, <1>2, <1>4 DEF SlotsInv, SlotsTyped, PushOver
<1>7. SlotsTyped'
  BY <1>2, <1>3, <1>4, <1>5 DEF SlotsTyped
<1>8. SlotsInBounds'
  BY <1>1, <1>2, <1>3 DEF SlotsInv, SlotsInBounds, Additional
<1>9. SlotZero'
  <2>1. g + 1 # 0
    BY <1>1, <1>2
  <2>2. QED
    BY <1>2, <1>4, <1>6, <2>1 DEF SlotsInv, SlotZero, Top
<1>10. AboveUnused'
  <2>1. Top.by # "none"
    BY <1>1, <1>2 DEF SlotsInv, AboveUnused, Top
  <2>2. QED
    BY <1>1, <1>2, <1>3, <1>4, <1>6, <2>1 DEF SlotsInv, AboveUnused
<1>11. QED
  BY <1>7, <1>8, <1>9, <1>10 DEF SlotsInv

\* Popping a slot that is not the auto-execute thread's.
LEMMA ResumeKeeps ==
  ASSUME SlotsInv, Top.by # "auto", ResumeUnderlyingThread,
         mAutoExecSectionIsRunning \in BOOLEAN,
         mAutoExecSectionIsRunning' = mAutoExecSectionIsRunning,
         g_OnExitIsRunning \in BOOLEAN,
         g_OnExitIsRunning' \in {FALSE, g_OnExitIsRunning}
  PROVE  SlotsInv' /\ g > 0
<1>1. MaxThreads \in Nat /\ Slots = 0 .. (MaxThreads + 1)
  BY ConstantsAssumption DEF Slots, Additional
<1>2. g \in Slots /\ g_nThreads \in Int
  BY DEF SlotsInv, SlotsTyped
<1>3. g' = g - 1 /\ g_nThreads' = g_nThreads - 1
  BY DEF ResumeUnderlyingThread
<1>4. g > 0
  BY <1>1, <1>2 DEF SlotsInv, SlotZero, Top
<1>5. \A i \in Slots : g_array'[i] = IF i = g THEN Unused ELSE g_array[i]
  BY <1>2 DEF SlotsInv, SlotsTyped, ResumeUnderlyingThread
<1>6. SlotsTyped'
  BY <1>1, <1>2, <1>3, <1>4, UnusedType
     DEF SlotsInv, SlotsTyped, ResumeUnderlyingThread
<1>7. SlotsInBounds'
  BY <1>1, <1>2, <1>3 DEF SlotsInv, SlotsInBounds, Additional
<1>8. SlotZero'
  BY <1>2, <1>4, <1>5, UnusedType DEF SlotsInv, SlotZero
<1>9. AboveUnused'
  BY <1>1, <1>2, <1>3, <1>4, <1>5 DEF SlotsInv, AboveUnused
<1>10. QED
  BY <1>4, <1>6, <1>7, <1>8, <1>9 DEF SlotsInv

----------------------------------------------------------------------------
(* The records the actions store. *)

\* The top slot is in use and well typed.
LEMMA TopType ==
  ASSUME SlotsInv
  PROVE  Top \in Slot /\ Top.by # "none" /\ g \in Slots
<1>1. g \in Slots /\ Slots \subseteq Int
  BY ConstantsAssumption DEF SlotsInv, SlotsTyped, Slots, Additional
<1>2. QED
  BY <1>1 DEF SlotsInv, SlotsTyped, AboveUnused, Top

\* The types of a slot's fields.
LEMMA SlotFields ==
  ASSUME NEW s \in Slot
  PROVE  /\ s.by \in Launchers /\ s.prio \in Prios /\ s.critical \in BOOLEAN
         /\ s.allow \in BOOLEAN /\ s.expires \in BOOLEAN /\ s.lines \in BOOLEAN
         /\ s.timers \in BOOLEAN /\ s.paused \in BOOLEAN /\ s.pc \in Steps
         /\ s.filter \in Filters /\ s.prev \in BOOLEAN /\ s.held \in Prios
         /\ s.fast \in Seq(Saved)
BY DEF Slot

\* IsInterruptible leaves the slot well typed and its launcher as it is.
LEMMA RefreshedType ==
  ASSUME SlotsInv, NEW elapsed \in BOOLEAN
  PROVE  /\ Refreshed(elapsed) \in Slot
         /\ Refreshed(elapsed).by = Top.by
<1>1. Top \in Slot
  BY TopType
<1>2. QED
  BY <1>1 DEF Refreshed, Slot

\* So does counting a line.
LEMMA CountLineType ==
  ASSUME NEW s \in Slot, NEW many \in BOOLEAN,
         mUninterruptedLineCountMax \in Grace
  PROVE  /\ CountLine(s, many) \in Slot
         /\ CountLine(s, many).by = s.by
<1>1. LineCountReached([s EXCEPT !.lines = TRUE], many) \in BOOLEAN
  BY DEF LineCountReached, Grace, Slot
<1>2. LineCountReached(s, many) \in BOOLEAN
  BY DEF LineCountReached, Grace, Slot
<1>3. QED
  BY <1>1, <1>2 DEF CountLine, Slot

\* And so does taking a message below WM_HOTKEY.
LEMMA AfterLowType ==
  ASSUME SlotsInv, NEW sent \in BOOLEAN
  PROVE  AfterLow(sent) \in Slot /\ AfterLow(sent).by = Top.by
<1>1. Top \in Slot
  BY TopType
<1>2. QED
  BY <1>1 DEF AfterLow, Slot, Filters

----------------------------------------------------------------------------
(* Type correctness and the bounds. *)

\* ExitApp either ends the program or launches the one OnExit thread.
LEMMA ExitAppKeeps ==
  ASSUME SlotsInv, OtherTypes, NEW under \in Slot, under.by = Top.by,
         ExitApp(under), UNCHANGED <<g_nPausedThreads, settings, queue>>
  PROVE  SlotsInv' /\ OtherTypes'
<1>1. CASE ~HasOnExit \/ g_OnExitIsRunning
  BY <1>1 DEF ExitApp, ExitsAtOnce, SlotsInv, SlotsTyped, SlotsInBounds, SlotZero,
              AboveUnused, OtherTypes, settings
<1>2. CASE ~(~HasOnExit \/ g_OnExitIsRunning)
  <2> DEFINE rec == [InitNewThread("exit", 0, TRUE, FALSE) EXCEPT
                       !.prev = g_AllowInterruption]
  <2>1. /\ PushOver(under, rec)
        /\ g_AllowInterruption' = FALSE
        /\ g_OnExitIsRunning' = TRUE
        /\ UNCHANGED <<mAutoExecSectionIsRunning, alive>>
    BY <1>2 DEF ExitApp, ExitsAtOnce
  <2>2. "exit" \in Launchers /\ 0 \in Prios
    BY ConstantsAssumption DEF Launchers, Prios
  <2>3. /\ InitNewThread("exit", 0, TRUE, FALSE) \in Slot
        /\ InitNewThread("exit", 0, TRUE, FALSE).by = "exit"
    BY <2>2, InitNewThreadType DEF SlotsInv
  <2>4. rec \in Slot /\ rec.by = "exit"
    BY <2>3 DEF Slot, OtherTypes
  <2>5. g_OnExitIsRunning = FALSE
    BY <1>2 DEF OtherTypes
  <2> HIDE DEF rec
  <2>6. SlotsInv'
    BY <2>1, <2>4, <2>5, PushOverKeeps DEF OtherTypes
  <2>7. QED
    BY <2>1, <2>6 DEF OtherTypes, settings
<1>3. QED
  BY <1>1, <1>2

\* A step of the running script preserves the invariant.
LEMMA ScriptStep ==
  ASSUME IInv, Script
  PROVE  SlotsInv' /\ OtherTypes'
<1>0. SlotsInv /\ OtherTypes
  BY DEF IInv
<1>1. Top \in Slot /\ Top.by # "none" /\ g \in Slots
  BY <1>0, TopType
<1>2. ASSUME NEW rec, SetsTop(rec) PROVE SlotsInv'
  BY <1>0, <1>2, SetsTopKeeps
<1>3. CASE Peek
  <2>1. SetsTop([Top EXCEPT !.pc = "peek"])
    BY <1>1, <1>3 DEF Peek, SetsTop, Slot, Steps, Pumps, program
  <2>2. QED
    BY <1>0, <1>2, <1>3, <2>1 DEF Peek, OtherTypes, program, settings
<1>4. CASE RunLine
  <2>1. PICK many \in BOOLEAN, next \in {"expr", "end"} :
          SetTop([CountLine(Top, many) EXCEPT
                    !.pc = IF Top.paused THEN "unpause" ELSE next])
    BY <1>4 DEF RunLine
  <2>2. CountLine(Top, many) \in Slot /\ CountLine(Top, many).by = Top.by
    BY <1>0, <1>1, CountLineType DEF OtherTypes
  <2>3. SetsTop([CountLine(Top, many) EXCEPT
                   !.pc = IF Top.paused THEN "unpause" ELSE next])
    BY <1>1, <1>4, <2>1, <2>2
       DEF RunLine, SetsTop, Slot, Steps, Pumps, program
  <2>4. QED
    BY <1>0, <1>2, <1>4, <2>3 DEF RunLine, OtherTypes, program, settings
<1>5. CASE NextLine
  <2>1. SetsTop([Top EXCEPT !.pc = "line"])
    BY <1>1, <1>5 DEF NextLine, SetsTop, Slot, Steps, program
  <2>2. QED
    BY <1>0, <1>2, <1>5, <2>1 DEF NextLine, OtherTypes, program, settings
<1>6. CASE ReturnExpr
  <2>1. SetsTop([Top EXCEPT !.pc = "end"])
    BY <1>1, <1>6 DEF ReturnExpr, SetsTop, Slot, Steps, program
  <2>2. QED
    BY <1>0, <1>2, <1>6, <2>1 DEF ReturnExpr, OtherTypes, program, settings
<1>7. CASE Sleep
  <2>1. SetsTop([Top EXCEPT !.pc = "sleep"])
    BY <1>1, <1>7 DEF Sleep, SetsTop, Slot, Steps, Pumps, program
  <2>2. QED
    BY <1>0, <1>2, <1>7, <2>1 DEF Sleep, OtherTypes, program, settings
<1>8. CASE Send
  <2>1. SetsTop([Top EXCEPT !.pc = "send"])
    BY <1>1, <1>8 DEF Send, SetsTop, Slot, Steps, Pumps
  <2>2. QED
    BY <1>0, <1>2, <1>8, <2>1 DEF Send, OtherTypes, settings
<1>9. ASSUME NEW on \in BOOLEAN, Critical(on) PROVE SlotsInv' /\ OtherTypes'
  <2> DEFINE rec == IF on THEN MadeCritical
                    ELSE [Top EXCEPT !.critical = FALSE, !.allow = TRUE]
  <2>1. SetsTop(rec)
    BY <1>1, <1>9 DEF Critical, MadeCritical, SetsTop, Slot, program
  <2>2. QED
    BY <1>0, <1>2, <1>9, <2>1 DEF Critical, OtherTypes, program, settings
<1>10. ASSUME NEW p \in Priorities, ThreadPriority(p) PROVE SlotsInv' /\ OtherTypes'
  <2>1. SetsTop([Top EXCEPT !.prio = p])
    BY <1>1, <1>10 DEF ThreadPriority, SetsTop, Slot, Prios, program
  <2>2. QED
    BY <1>0, <1>2, <1>10, <2>1
       DEF ThreadPriority, OtherTypes, program, settings
<1>11. ASSUME NEW allowed \in BOOLEAN, ThreadNoTimers(allowed) PROVE SlotsInv' /\ OtherTypes'
  <2>1. SetsTop([Top EXCEPT !.timers = allowed])
    BY <1>1, <1>11 DEF ThreadNoTimers, SetsTop, Slot, program
  <2>2. QED
    BY <1>0, <1>2, <1>11, <2>1
       DEF ThreadNoTimers, OtherTypes, program, settings
<1>12. ASSUME NEW time \in Grace, NEW lines \in Grace,
              ThreadInterrupt(time, lines)
       PROVE  SlotsInv' /\ OtherTypes'
  <2>1. SlotsInv'
    BY <1>0, <1>12 DEF ThreadInterrupt, SlotsInv, SlotsTyped, SlotsInBounds,
                       SlotZero, AboveUnused, program
  <2>2. QED
    BY <1>0, <1>12, <2>1 DEF ThreadInterrupt, OtherTypes, program
<1>13. CASE PauseCurrentThread
  <2>1. SetsTop([Top EXCEPT !.paused = TRUE, !.pc = "unpause"])
    BY <1>1, <1>13 DEF PauseCurrentThread, SetsTop, Slot, Steps, Pumps, program
  <2>2. QED
    BY <1>0, <1>2, <1>13, <2>1
       DEF PauseCurrentThread, OtherTypes, program, settings
<1>14. ASSUME NEW on \in BOOLEAN, PauseUnderlyingThread(on) PROVE SlotsInv' /\ OtherTypes'
  <2>1. g - 1 \in Slots /\ g_array[g - 1] \in Slot
    BY <1>0, <1>1, <1>14, ConstantsAssumption
       DEF PauseUnderlyingThread, Slots, Additional, SlotsInv, SlotsTyped
  <2>2. \A i \in Slots : g_array'[i] = IF i = g - 1
                                       THEN [g_array[i] EXCEPT !.paused = on]
                                       ELSE g_array[i]
    BY <1>0, <1>14, <2>1 DEF PauseUnderlyingThread, SlotsInv, SlotsTyped
  <2>3. g_array' \in [Slots -> Slot]
    BY <1>0, <1>14, <2>1 DEF PauseUnderlyingThread, SlotsInv, SlotsTyped, Slot
  <2>4. \A i \in Slots : g_array'[i].by = g_array[i].by
    BY <1>0, <2>1, <2>2 DEF SlotsInv, SlotsTyped, Slot
  <2>5. g - 1 < g /\ Slots \subseteq Int /\ g \in Int
    BY <1>1, ConstantsAssumption DEF Slots, Additional
  <2>6. SlotsInv'
    BY <1>0, <1>14, <2>2, <2>3, <2>4, <2>5
       DEF PauseUnderlyingThread, SlotsInv, SlotsTyped, SlotsInBounds,
           SlotZero, AboveUnused, program
  <2>7. QED
    BY <1>0, <1>14, <2>6
       DEF PauseUnderlyingThread, OtherTypes, program, settings
<1>15. CASE CallExitApp
  <2>1. [Top EXCEPT !.pc = "end"] \in Slot
    BY <1>1 DEF Slot, Steps
  <2>2. [Top EXCEPT !.pc = "end"].by = Top.by
    BY <1>1 DEF Slot
  <2>3. QED
    BY <1>0, <1>15, <2>1, <2>2, ExitAppKeeps DEF CallExitApp
<1>16. QED
  BY <1>3, <1>4, <1>5, <1>6, <1>7, <1>8, <1>9, <1>10, <1>11, <1>12, <1>13,
     <1>14, <1>15
     DEF Script

\* A slot is launched over the top one, below the limit.
Launches(under, rec) ==
  /\ under \in Slot /\ under.by = Top.by
  /\ rec \in Slot /\ rec.by \notin {"none", "auto"}
  /\ PushOver(under, rec)
  /\ ~ThreadLimitReached
  /\ UNCHANGED <<mAutoExecSectionIsRunning, g_OnExitIsRunning>>

\* A step that launches a thread below the limit preserves the invariant.
LEMMA LaunchKeeps ==
  ASSUME SlotsInv, OtherTypes, NEW under, NEW rec, Launches(under, rec)
  PROVE  SlotsInv'
<1>1. g_nThreads < MaxThreads
  BY ConstantsAssumption
     DEF Launches, ThreadLimitReached, SlotsInv, SlotsTyped
<1>2. QED
  BY <1>1, PushOverKeeps DEF Launches, OtherTypes

\* A step of the pump of the running slot preserves the invariant.
LEMMA PumpStep ==
  ASSUME IInv, Pump
  PROVE  SlotsInv' /\ OtherTypes'
<1>0. SlotsInv /\ OtherTypes
  BY DEF IInv
<1>1. Top \in Slot /\ Top.by # "none" /\ g \in Slots
  BY <1>0, TopType
<1>2. ASSUME NEW rec, SetsTop(rec) PROVE SlotsInv'
  BY <1>0, <1>2, SetsTopKeeps
<1>3. ASSUME NEW under, NEW rec, Launches(under, rec) PROVE SlotsInv'
  BY <1>0, <1>3, LaunchKeeps
<1>4. ASSUME NEW by \in Launchers \ {"none", "auto"}, NEW prio \in Prios,
             NEW skip \in BOOLEAN, NEW crit \in BOOLEAN
      PROVE  /\ InitNewThread(by, prio, skip, crit) \in Slot
             /\ InitNewThread(by, prio, skip, crit).by = by
             /\ by \notin {"none", "auto"}
  BY <1>0, <1>4, InitNewThreadType DEF SlotsInv
<1>5. 0 \in Prios /\ Priorities \subseteq Prios
  BY ConstantsAssumption DEF Prios
<1>6. CASE EvaluateFilter
  <2>1. PICK elapsed \in BOOLEAN :
          SetTop([Refreshed(elapsed) EXCEPT
                    !.filter = IF IsInterruptible(elapsed)
                               THEN "all" ELSE "low"])
    BY <1>6 DEF EvaluateFilter
  <2>2. Refreshed(elapsed) \in Slot /\ Refreshed(elapsed).by = Top.by
    BY <1>0, RefreshedType
  <2>3. SetsTop([Refreshed(elapsed) EXCEPT
                   !.filter = IF IsInterruptible(elapsed)
                              THEN "all" ELSE "low"])
    BY <1>6, <2>1, <2>2 DEF EvaluateFilter, SetsTop, Slot, Filters, program
  <2>4. QED
    BY <1>0, <1>2, <1>6, <2>3
       DEF EvaluateFilter, OtherTypes, program, settings
<1>7. CASE TakeEvent
  <2> DEFINE e     == Head(queue)
             under == [Top EXCEPT !.filter = "none"]
             crit  == [InitNewThread("criterion", 0, FALSE, TRUE) EXCEPT
                         !.held = e.prio]
             event == InitNewThread("event", e.prio, FALSE, FALSE)
  <2>1. e \in Event /\ queue' \in Seq(Event)
    BY <1>0, <1>7 DEF TakeEvent, OtherTypes
  <2>2. under \in Slot /\ under.by = Top.by
    BY <1>1 DEF Slot, Filters
  <2>3. e.prio \in Prios
    BY <1>5, <2>1 DEF Event
  <2>4. crit \in Slot /\ crit.by = "criterion"
    <3>1. "criterion" \in Launchers \ {"none", "auto"}
      BY DEF Launchers
    <3>2. /\ InitNewThread("criterion", 0, FALSE, TRUE) \in Slot
          /\ InitNewThread("criterion", 0, FALSE, TRUE).by = "criterion"
      BY <1>4, <1>5, <3>1
    <3>3. QED
      BY <2>3, <3>2 DEF Slot
  <2>5. event \in Slot /\ event.by = "event"
    <3>1. "event" \in Launchers \ {"none", "auto"}
      BY DEF Launchers
    <3>2. QED
      BY <1>4, <2>3, <3>1
  <2>6. /\ \/ SetTop(under)
           \/ ~ThreadLimitReached /\ PushOver(under, crit)
           \/ Accepted(e.prio) /\ PushOver(under, event)
        /\ UNCHANGED <<g_nPausedThreads, program, settings>>
    BY <1>7 DEF TakeEvent
  <2> HIDE DEF e, under, crit, event
  <2>7. SetsTop(under) \/ Launches(under, crit) \/ Launches(under, event)
    BY <2>2, <2>4, <2>5, <2>6
       DEF SetsTop, Launches, Accepted, program
  <2>8. QED
    BY <1>0, <1>2, <1>3, <2>1, <2>6, <2>7 DEF OtherTypes, program, settings
<1>8. ASSUME NEW p \in Priorities, TimerTick(p)
      PROVE  SlotsInv' /\ OtherTypes'
  <2>1. PICK elapsed \in BOOLEAN :
          /\ TimersAllowed(elapsed)
          /\ PushOver([Refreshed(elapsed) EXCEPT !.filter = "none"],
                      InitNewThread("timer", p, FALSE, FALSE))
    BY <1>8 DEF TimerTick
  <2>2. Refreshed(elapsed) \in Slot /\ Refreshed(elapsed).by = Top.by
    BY <1>0, RefreshedType
  <2>3. "timer" \in Launchers \ {"none", "auto"}
    BY DEF Launchers
  <2>4. /\ InitNewThread("timer", p, FALSE, FALSE) \in Slot
        /\ InitNewThread("timer", p, FALSE, FALSE).by = "timer"
    BY <1>4, <1>5, <2>3
  <2>5. Launches([Refreshed(elapsed) EXCEPT !.filter = "none"],
                 InitNewThread("timer", p, FALSE, FALSE))
    BY <1>8, <2>1, <2>2, <2>4
       DEF TimerTick, TimersAllowed, Launches, Slot, Filters, program
  <2>6. QED
    BY <1>0, <1>3, <1>8, <2>5 DEF TimerTick, OtherTypes, program, settings
<1>9. ASSUME NEW sent \in BOOLEAN, MonitorMessage(sent)
      PROVE  SlotsInv' /\ OtherTypes'
  <2>1. AfterLow(sent) \in Slot /\ AfterLow(sent).by = Top.by
    BY <1>0, AfterLowType
  <2>2. "monitor" \in Launchers \ {"none", "auto"}
    BY DEF Launchers
  <2>3. /\ InitNewThread("monitor", 0, FALSE, FALSE) \in Slot
        /\ InitNewThread("monitor", 0, FALSE, FALSE).by = "monitor"
    BY <1>4, <1>5, <2>2
  <2>4. Launches(AfterLow(sent), InitNewThread("monitor", 0, FALSE, FALSE))
    BY <1>9, <2>1, <2>3 DEF MonitorMessage, Launches, program
  <2>5. QED
    BY <1>0, <1>3, <1>9, <2>4
       DEF MonitorMessage, OtherTypes, program, settings
<1>10. CASE CallbackInNewThread
  <2>1. "callback" \in Launchers \ {"none", "auto"}
    BY DEF Launchers
  <2>2. /\ InitNewThread("callback", 0, FALSE, FALSE) \in Slot
        /\ InitNewThread("callback", 0, FALSE, FALSE).by = "callback"
    BY <1>4, <1>5, <2>1
  <2>3. [g_array EXCEPT ![g] = Top] = g_array
    BY <1>0, <1>1 DEF SlotsInv, SlotsTyped, Top
  <2>4. PushOver(Top, InitNewThread("callback", 0, FALSE, FALSE))
    BY <1>10, <2>3 DEF CallbackInNewThread, Push, PushOver
  <2>5. Launches(Top, InitNewThread("callback", 0, FALSE, FALSE))
    BY <1>1, <1>10, <2>2, <2>4 DEF CallbackInNewThread, Launches, program
  <2>6. QED
    BY <1>0, <1>3, <1>10, <2>5
       DEF CallbackInNewThread, OtherTypes, program, settings
<1>11. CASE FastCallback
  <2>1. Interrupted \in Saved
    BY <1>1, <1>11 DEF FastCallback, CallbackPoint, Pumping, Running,
                       Interrupted, Saved, Slot
  <2>2. Append(Top.fast, Interrupted) \in Seq(Saved)
    BY <1>1, <2>1, SlotFields
  <2>3. SetsTop(FastSlot)
    BY <1>1, <1>11, <2>2
       DEF FastCallback, FastSlot, SetsTop, Slot, Steps, Filters, program
  <2>4. g_nPausedThreads' \in Int
    BY <1>0, <1>11 DEF FastCallback, OtherTypes
  <2>5. QED
    BY <1>0, <1>2, <1>11, <2>3, <2>4
       DEF FastCallback, OtherTypes, program, settings
<1>12. CASE TrayPause
  <2>1. AfterLow(FALSE) \in Slot /\ AfterLow(FALSE).by = Top.by
    BY <1>0, AfterLowType
  <2>2. SetsTop([AfterLow(FALSE) EXCEPT !.paused = ~@])
    BY <1>12, <2>1 DEF TrayPause, SetsTop, Slot, program
  <2>3. g_nPausedThreads' \in Int
    BY <1>0, <1>12 DEF TrayPause, OtherTypes
  <2>4. QED
    BY <1>0, <1>2, <1>12, <2>2, <2>3
       DEF TrayPause, OtherTypes, program, settings
<1>13. CASE ExitMessage
  <2>1. AfterLow(FALSE) \in Slot /\ AfterLow(FALSE).by = Top.by
    BY <1>0, AfterLowType
  <2>2. QED
    BY <1>0, <1>13, <2>1, ExitAppKeeps DEF ExitMessage
<1>14. CASE NothingToLaunch
  <2>1. AfterLow(FALSE) \in Slot /\ AfterLow(FALSE).by = Top.by
    BY <1>0, AfterLowType
  <2>2. SetsTop(AfterLow(FALSE))
    BY <1>14, <2>1 DEF NothingToLaunch, SetsTop, program
  <2>3. QED
    BY <1>0, <1>2, <1>14, <2>2
       DEF NothingToLaunch, OtherTypes, program, settings
<1>15. CASE PumpReturns
  <2>1. SetsTop([Top EXCEPT !.pc = IF Top.pc = "peek" THEN "check" ELSE "expr"])
    BY <1>1, <1>15 DEF PumpReturns, SetsTop, Slot, Steps
  <2>2. QED
    BY <1>0, <1>2, <1>15, <2>1 DEF PumpReturns, OtherTypes, settings
<1>16. QED
  BY <1>6, <1>7, <1>8, <1>9, <1>10, <1>11, <1>12, <1>13, <1>14, <1>15
     DEF Pump

\* A step that ends a subroutine preserves the invariant.
LEMMA EpilogueStep ==
  ASSUME IInv, Epilogue
  PROVE  SlotsInv' /\ OtherTypes'
<1>0. SlotsInv /\ OtherTypes
  BY DEF IInv
<1>1. Top \in Slot /\ Top.by # "none" /\ g \in Slots
  BY <1>0, TopType
<1>2. 0 \in Prios /\ Priorities \subseteq Prios /\ PriorityMinimum \in Prios
  BY ConstantsAssumption DEF Prios
<1>3. ASSUME Top.by # "auto", ResumeUnderlyingThread,
             UNCHANGED <<mAutoExecSectionIsRunning>>,
             g_OnExitIsRunning' \in {FALSE, g_OnExitIsRunning}
      PROVE  SlotsInv'
  BY <1>0, <1>3, ResumeKeeps DEF OtherTypes
<1>4. CASE EndThread
  <2>1. SlotsInv'
    BY <1>3, <1>4 DEF EndThread, Ended, program
  <2>2. QED
    BY <1>0, <1>4, <2>1 DEF EndThread, OtherTypes, program, settings
<1>5. CASE EndCriterion
  <2>1. Top.by = "criterion" /\ Top.held \in Prios
    BY <1>1, <1>5, SlotFields DEF EndCriterion, Ended
  <2>2. CASE ResumeUnderlyingThread
    <3>1. SlotsInv'
      BY <1>3, <1>5, <2>1, <2>2 DEF EndCriterion, program
    <3>2. QED
      BY <1>0, <1>5, <3>1 DEF EndCriterion, OtherTypes, program, settings
  <2>3. CASE SetTop(InitNewThread("event", Top.held, FALSE, FALSE))
    <3>1. "event" \in Launchers
      BY DEF Launchers
    <3>2. /\ InitNewThread("event", Top.held, FALSE, FALSE) \in Slot
          /\ InitNewThread("event", Top.held, FALSE, FALSE).by = "event"
      BY <1>0, <2>1, <3>1, InitNewThreadType DEF SlotsInv
    <3>3. SlotsInv'
      BY <1>0, <1>5, <2>1, <2>3, <3>2, SetTopKeeps DEF EndCriterion, program
    <3>4. QED
      BY <1>0, <1>5, <3>3 DEF EndCriterion, OtherTypes, program, settings
  <2>4. QED
    BY <1>5, <2>2, <2>3 DEF EndCriterion
<1>6. CASE EndTimers
  <2>1. SlotsInv'
    BY <1>3, <1>6 DEF EndTimers, Ended, program
  <2>2. QED
    BY <1>0, <1>6, <2>1 DEF EndTimers, OtherTypes, program, settings
<1>7. CASE EndAutoExec
  <2> DEFINE rec == [Top EXCEPT !.pc = "idle", !.prio = PriorityMinimum]
  <2>1. g = 0
    BY <1>0, <1>1, <1>7 DEF EndAutoExec, Ended, SlotsInv, SlotZero, Top
  <2>2. MaxThreads \in Nat /\ 0 \in Slots
    BY ConstantsAssumption DEF Slots, Additional
  <2>3. g_array' = [g_array EXCEPT ![0] = rec]
    BY <1>0, <1>7, <2>1, <2>2 DEF EndAutoExec, SlotsInv, SlotsTyped, Top
  <2>4. rec \in Slot /\ rec.by = Top.by
    BY <1>1, <1>2 DEF Slot, Steps, Pumps
  <2> HIDE DEF rec
  <2>5. SlotsTyped'
    <3>1. g_array' \in [Slots -> Slot]
      BY <1>0, <2>3, <2>4 DEF SlotsInv, SlotsTyped
    <3>2. g' = g /\ g_nThreads' = g_nThreads - 1
      BY <1>7 DEF EndAutoExec
    <3>3. QED
      BY <1>0, <3>1, <3>2 DEF SlotsInv, SlotsTyped
  <2>6. SlotsInBounds'
    BY <1>0, <1>7, <2>1, <2>2
       DEF EndAutoExec, SlotsInv, SlotsTyped, SlotsInBounds, OtherTypes
  <2>7. \A i \in Slots : g_array'[i].by = g_array[i].by
    BY <1>0, <2>1, <2>3, <2>4 DEF SlotsInv, SlotsTyped, Top
  <2>8. SlotZero' /\ AboveUnused'
    <3>1. \A i \in Slots : i > 0 => g_array'[i] = g_array[i]
      BY <1>0, <2>3 DEF SlotsInv, SlotsTyped
    <3>2. QED
      BY <1>0, <1>7, <2>1, <2>7, <3>1
         DEF EndAutoExec, SlotsInv, SlotZero, AboveUnused
  <2>9. QED
    BY <1>0, <1>7, <2>5, <2>6, <2>8
       DEF EndAutoExec, SlotsInv, OtherTypes, settings
<1>8. CASE EndFastCallback
  <2> DEFINE s    == Top.fast[Len(Top.fast)]
             rest == SubSeq(Top.fast, 1, Len(Top.fast) - 1)
             prio == IF g = 0 /\ ~mAutoExecSectionIsRunning
                     THEN PriorityMinimum ELSE Top.prio
             rec  == [Top EXCEPT !.fast = rest, !.pc = s.pc,
                                 !.filter = s.filter,
                                 !.paused = @ \/ s.repause, !.prio = prio]
  <2>1. Top.fast \in Seq(Saved) /\ Top.fast # <<>>
    BY <1>1, <1>8, SlotFields DEF EndFastCallback
  <2>2. s \in Saved /\ rest \in Seq(Saved)
    BY <2>1
  <2>3. s.pc \in Steps /\ s.filter \in Filters /\ s.repause \in BOOLEAN
    BY <2>2 DEF Saved, Steps
  <2>4. prio \in Prios
    BY <1>1, <1>2, SlotFields
  <2>5. SetTop(rec) /\ g_nPausedThreads' = g_nPausedThreads
                                           + (IF s.repause THEN 1 ELSE 0)
    BY <1>8 DEF EndFastCallback
  <2> HIDE DEF s, rest, prio
  <2>6. rec \in Slot /\ rec.by = Top.by
    BY <1>1, <2>2, <2>3, <2>4 DEF Slot
  <2> HIDE DEF rec
  <2>7. SetsTop(rec)
    BY <1>8, <2>5, <2>6 DEF EndFastCallback, SetsTop, program
  <2>8. SlotsInv'
    BY <1>0, <2>7, SetsTopKeeps
  <2>9. g_nPausedThreads' \in Int
    BY <1>0, <2>5 DEF OtherTypes
  <2>10. QED
    BY <1>0, <1>8, <2>8, <2>9
       DEF EndFastCallback, OtherTypes, program, settings
<1>9. CASE NextExitHandler
  <2> DEFINE rec == [InitNewThread("exit", 0, TRUE, FALSE)
                       EXCEPT !.prev = Top.prev]
  <2>1. "exit" \in Launchers
    BY DEF Launchers
  <2>2. /\ InitNewThread("exit", 0, TRUE, FALSE) \in Slot
        /\ InitNewThread("exit", 0, TRUE, FALSE).by = "exit"
    BY <1>0, <1>2, <2>1, InitNewThreadType DEF SlotsInv
  <2>3. rec \in Slot /\ rec.by = "exit"
    BY <1>1, <2>2, SlotFields DEF Slot
  <2>4. SetsTop(rec)
    BY <1>9, <2>3 DEF NextExitHandler, Ended, SetsTop, program
  <2>5. SlotsInv'
    BY <1>0, <2>4, SetsTopKeeps
  <2>6. QED
    BY <1>0, <1>9, <2>5 DEF NextExitHandler, OtherTypes, program, settings
<1>10. CASE ExitRefused
  <2>1. SlotsInv'
    BY <1>0, <1>3, <1>10 DEF ExitRefused, Ended
  <2>2. Top.prev \in BOOLEAN
    BY <1>1, SlotFields
  <2>3. QED
    BY <1>0, <1>10, <2>1, <2>2 DEF ExitRefused, OtherTypes, settings
<1>11. CASE ExitGranted
  BY <1>0, <1>11 DEF ExitGranted, SlotsInv, SlotsTyped, SlotsInBounds,
                     SlotZero, AboveUnused, OtherTypes, settings
<1>12. ASSUME NEW p \in Priorities, NextTimer(p)
       PROVE  SlotsInv' /\ OtherTypes'
  <2>1. "timer" \in Launchers
    BY DEF Launchers
  <2>2. /\ InitNewThread("timer", p, FALSE, FALSE) \in Slot
        /\ InitNewThread("timer", p, FALSE, FALSE).by = "timer"
    BY <1>0, <1>2, <2>1, InitNewThreadType DEF SlotsInv
  <2>3. SetsTop(InitNewThread("timer", p, FALSE, FALSE))
    BY <1>12, <2>2 DEF NextTimer, Ended, SetsTop, program
  <2>4. SlotsInv'
    BY <1>0, <2>3, SetsTopKeeps
  <2>5. QED
    BY <1>0, <1>12, <2>4 DEF NextTimer, OtherTypes, program, settings
<1>13. QED
  BY <1>4, <1>5, <1>6, <1>7, <1>8, <1>9, <1>10, <1>11, <1>12 DEF Epilogue

----------------------------------------------------------------------------
(* The theorems. *)

\* The initial state satisfies the invariant.
LEMMA InitInv == Init => IInv
<1> SUFFICES ASSUME Init PROVE IInv
  OBVIOUS
<1>1. MaxThreads \in Nat \ {0} /\ Slots = 0 .. (MaxThreads + 1)
  BY ConstantsAssumption DEF Slots, Additional
<1>2. Unused \in Slot /\ Unused.by = "none"
  BY UnusedType
<1> DEFINE first == [Unused EXCEPT !.by = "auto", !.allow = FALSE,
                                   !.pc = "line"]
<1>3. first \in Slot /\ first.by = "auto"
  BY <1>2 DEF Slot, Launchers, Steps
<1>4. g_array = [i \in Slots |-> IF i = 0 THEN first ELSE Unused]
  BY DEF Init
<1> HIDE DEF first
<1>5. SlotsTyped
  BY <1>1, <1>2, <1>3, <1>4 DEF Init, SlotsTyped
<1>6. SlotsInBounds
  BY <1>1 DEF Init, SlotsInBounds, Additional
<1>7. SlotZero /\ AboveUnused
  BY <1>1, <1>2, <1>3, <1>4 DEF Init, SlotZero, AboveUnused
<1>8. OtherTypes
  <2>1. <<>> \in Seq(Event)
    OBVIOUS
  <2>2. "some" \in Grace
    BY DEF Grace
  <2>3. /\ g_nPausedThreads \in Int /\ queue \in Seq(Event)
        /\ mUninterruptibleTime \in Grace
        /\ mUninterruptedLineCountMax \in Grace
    BY <2>1, <2>2 DEF Init
  <2>4. /\ g_AllowInterruption \in BOOLEAN /\ g_OnExitIsRunning \in BOOLEAN
        /\ mAutoExecSectionIsRunning \in BOOLEAN /\ alive \in BOOLEAN
    BY Zenon DEF Init
  <2>5. QED
    BY <2>3, <2>4 DEF OtherTypes
<1>9. QED
  BY <1>5, <1>6, <1>7, <1>8 DEF IInv, SlotsInv

\* Every step preserves the invariant.
LEMMA NextInv == IInv /\ [Next]_vars => IInv'
<1> SUFFICES ASSUME IInv, [Next]_vars PROVE SlotsInv' /\ OtherTypes'
  BY DEF IInv
<1>1. ASSUME UNCHANGED <<g_array, g, g_nThreads, mAutoExecSectionIsRunning,
                         g_OnExitIsRunning>>
      PROVE  SlotsInv'
  BY <1>1 DEF IInv, SlotsInv, SlotsTyped, SlotsInBounds, SlotZero, AboveUnused
<1>2. CASE PostEvent
  <2>1. queue' \in Seq(Event)
    BY <1>2 DEF PostEvent, IInv, OtherTypes
  <2>2. QED
    BY <1>1, <1>2, <2>1 DEF PostEvent, IInv, OtherTypes, program, settings
<1>3. CASE Script
  BY <1>3, ScriptStep
<1>4. CASE Pump
  BY <1>4, PumpStep
<1>5. CASE Epilogue
  BY <1>5, EpilogueStep
<1>6. CASE UNCHANGED vars
  BY <1>1, <1>6 DEF vars, IInv, OtherTypes
<1>7. QED
  BY <1>2, <1>3, <1>4, <1>5, <1>6 DEF Next, Terminated

\* The invariant holds in every reachable state.
LEMMA Invariance == Spec => []IInv
BY InitInv, NextInv, PTL DEF Spec

\* Every variable keeps its type, for every thread limit, set of priorities
\* and mix of built-ins and arrivals.
THEOREM TypeCorrect == Spec => []TypeOK
<1>1. IInv => TypeOK
  BY DEF IInv, OtherTypes, SlotsInv, SlotsTyped, TypeOK
<1>2. QED
  BY <1>1, Invariance, PTL

\* g_array (MsgSleep, InitNewThread, ResumeUnderlyingThread, ExitApp) is never
\* indexed past its end, and g_nThreads agrees with the running slot's index.
THEOREM SlotsNeverOverflow == Spec => []SlotsInBounds
<1>1. IInv => SlotsInBounds
  BY DEF IInv, SlotsInv
<1>2. QED
  BY <1>1, Invariance, PTL


----------------------------------------------------------------------------
(* Critical threads *)

\* A slot's uninterruptible duration cannot run out while it is critical.
Untimed(s) == s.critical /\ ~s.allow => ~s.expires \/ ~s.lines

\* The inductive form of CriticalNeverTimesOut: of every slot of g_array, and
\* by itself, since no slot's record depends on another's.
AllUntimed == \A i \in Slots : Untimed(g_array[i])

\* The ways a step may store records: rewrite the top slot, or one more on
\* top; a slot that is not in use is untimed.
LEMMA StoreUntimed ==
  ASSUME SlotsInv, AllUntimed, NEW under, NEW rec, Untimed(rec),
         \/ SetTop(rec)
         \/ Push(rec)
         \/ PushOver(under, rec) /\ Untimed(under)
         \/ ResumeUnderlyingThread
  PROVE  AllUntimed'
<1>1. g_array \in [Slots -> Slot] /\ Untimed(Unused)
  BY DEF SlotsInv, SlotsTyped, Untimed, Unused
<1>2. CASE SetTop(rec)
  BY <1>1, <1>2 DEF AllUntimed, SetTop
<1>3. CASE Push(rec)
  BY <1>1, <1>3 DEF AllUntimed, Push
<1>4. CASE PushOver(under, rec) /\ Untimed(under)
  BY <1>1, <1>4 DEF AllUntimed, PushOver
<1>5. CASE ResumeUnderlyingThread
  BY <1>1, <1>5 DEF AllUntimed, ResumeUnderlyingThread
<1>6. QED
  BY <1>2, <1>3, <1>4, <1>5

\* A new thread has counted no line, and a change of the fields that
\* IsInterruptible does not read leaves a slot untimed.
LEMMA NewUntimed ==
  ASSUME NEW by, NEW prio, NEW skip, NEW crit
  PROVE  InitNewThread(by, prio, skip, crit).lines = FALSE
BY DEF InitNewThread, Unused

\* Two records agree on what IsInterruptible and ExecUntil time a slot by.
SameTiming(s, t) ==
  /\ s.critical = t.critical /\ s.allow = t.allow
  /\ s.expires = t.expires /\ s.lines = t.lines

\* A slot is untimed after the updates of IsInterruptible and ExecUntil.
LEMMA UpdatesUntimed ==
  ASSUME SlotsInv, AllUntimed, mUninterruptedLineCountMax \in Grace
  PROVE  /\ Untimed(Top)
         /\ \A elapsed \in BOOLEAN : Untimed(Refreshed(elapsed))
         /\ \A many \in BOOLEAN : Untimed(CountLine(Top, many))
         /\ \A sent \in BOOLEAN : SameTiming(AfterLow(sent), Top)
<1>1. Top \in Slot /\ g \in Slots
  BY TopType
<1>2. Untimed(Top)
  BY <1>1 DEF AllUntimed, Top
<1>3. ASSUME NEW elapsed \in BOOLEAN PROVE Untimed(Refreshed(elapsed))
  BY <1>1, <1>2 DEF Refreshed, Untimed, Slot
<1>4. ASSUME NEW many \in BOOLEAN PROVE Untimed(CountLine(Top, many))
  BY <1>1, <1>2 DEF CountLine, Untimed, Slot
<1>5. ASSUME NEW sent \in BOOLEAN PROVE SameTiming(AfterLow(sent), Top)
  BY <1>1 DEF AfterLow, SameTiming, Slot
<1>6. QED
  BY <1>2, <1>3, <1>4, <1>5

\* ExitApp leaves every slot untimed.
LEMMA ExitAppUntimed ==
  ASSUME IInv, AllUntimed, NEW under, SameTiming(under, Top), ExitApp(under)
  PROVE  AllUntimed'
<1>1. SlotsInv /\ mUninterruptedLineCountMax \in Grace
  BY DEF IInv, OtherTypes
<1>2. Untimed(under)
  BY <1>1, UpdatesUntimed DEF Untimed, SameTiming
<1>3. CASE ExitsAtOnce
  BY <1>3 DEF ExitApp, AllUntimed
<1>4. CASE ~ExitsAtOnce
  <2> DEFINE new == InitNewThread("exit", 0, TRUE, FALSE)
             rec == [new EXCEPT !.prev = g_AllowInterruption]
  <2>1. PushOver(under, rec)
    BY <1>4 DEF ExitApp
  <2>2. rec.lines = FALSE
    BY DEF InitNewThread, Unused
  <2>3. Untimed(rec)
    BY <2>2 DEF Untimed
  <2>4. QED
    BY <1>1, <1>2, <2>1, <2>3, StoreUntimed
<1>5. QED
  BY <1>3, <1>4

\* A step of the running script leaves every slot untimed.
LEMMA ScriptUntimed ==
  ASSUME IInv, AllUntimed, Script
  PROVE  AllUntimed'
<1>1. SlotsInv /\ mUninterruptedLineCountMax \in Grace
  BY DEF IInv, OtherTypes
<1>2. Top \in Slot /\ g \in Slots /\ Untimed(Top)
  BY <1>1, TopType, UpdatesUntimed
<1>3. ASSUME NEW rec, SetTop(rec), Untimed(rec) PROVE AllUntimed'
  BY <1>1, <1>3, StoreUntimed
<1>4. CASE Peek
  BY <1>2, <1>3, <1>4 DEF Peek, Untimed, Slot
<1>5. CASE RunLine
  <2>1. PICK many \in BOOLEAN, next \in {"expr", "end"} :
          SetTop([CountLine(Top, many) EXCEPT
                    !.pc = IF Top.paused THEN "unpause" ELSE next])
    BY <1>5 DEF RunLine
  <2>2. Untimed(CountLine(Top, many)) /\ CountLine(Top, many) \in Slot
    BY <1>1, <1>2, UpdatesUntimed, CountLineType
  <2>3. Untimed([CountLine(Top, many) EXCEPT
                   !.pc = IF Top.paused THEN "unpause" ELSE next])
    BY <2>2 DEF Untimed, Slot
  <2>4. QED
    BY <1>3, <2>1, <2>3
<1>6. CASE NextLine \/ ReturnExpr
  BY <1>2, <1>3, <1>6 DEF NextLine, ReturnExpr, Untimed, Slot
<1>7. CASE Sleep \/ Send
  BY <1>2, <1>3, <1>7 DEF Sleep, Send, Untimed, Slot
<1>8. CASE PauseCurrentThread
  BY <1>2, <1>3, <1>8 DEF PauseCurrentThread, Untimed, Slot
<1>9. ASSUME NEW on \in BOOLEAN, Critical(on) PROVE AllUntimed'
  <2>1. Untimed(MadeCritical)
    BY <1>2 DEF MadeCritical, Untimed, Slot
  <2>2. Untimed([Top EXCEPT !.critical = FALSE, !.allow = TRUE])
    BY <1>2 DEF Untimed, Slot
  <2>3. QED
    BY <1>3, <1>9, <2>1, <2>2 DEF Critical
<1>10. ASSUME NEW p \in Priorities, ThreadPriority(p) PROVE AllUntimed'
  BY <1>2, <1>3, <1>10 DEF ThreadPriority, Untimed, Slot
<1>11. ASSUME NEW allowed \in BOOLEAN, ThreadNoTimers(allowed)
       PROVE  AllUntimed'
  BY <1>2, <1>3, <1>11 DEF ThreadNoTimers, Untimed, Slot
<1>12. ASSUME NEW time \in Grace, NEW lines \in Grace,
              ThreadInterrupt(time, lines)
       PROVE  AllUntimed'
  BY <1>12 DEF ThreadInterrupt, AllUntimed
<1>13. ASSUME NEW on \in BOOLEAN, PauseUnderlyingThread(on)
       PROVE  AllUntimed'
  <2>1. g_array \in [Slots -> Slot]
    BY <1>1 DEF SlotsInv, SlotsTyped
  <2>2. g_array' = [g_array EXCEPT ![g - 1].paused = on]
    BY <1>13 DEF PauseUnderlyingThread
  <2>3. ASSUME NEW i \in Slots PROVE SameTiming(g_array'[i], g_array[i])
    BY <2>1, <2>2 DEF SameTiming, Slot
  <2>4. QED
    BY <2>3 DEF SameTiming, AllUntimed, Untimed
<1>14. CASE CallExitApp
  BY <1>1, <1>2, <1>14, ExitAppUntimed DEF CallExitApp, SameTiming, Slot
<1>15. QED
  BY <1>4, <1>5, <1>6, <1>7, <1>8, <1>9, <1>10, <1>11, <1>12, <1>13, <1>14
     DEF Script

\* A step of the pump leaves every slot untimed.
LEMMA PumpUntimed ==
  ASSUME IInv, AllUntimed, Pump
  PROVE  AllUntimed'
<1>1. SlotsInv /\ mUninterruptedLineCountMax \in Grace
  BY DEF IInv, OtherTypes
<1>2. Top \in Slot /\ g \in Slots /\ Untimed(Top)
  BY <1>1, TopType, UpdatesUntimed
<1>3. ASSUME NEW rec, SetTop(rec), Untimed(rec) PROVE AllUntimed'
  BY <1>1, <1>3, StoreUntimed
<1>4. ASSUME NEW under, NEW rec, PushOver(under, rec), Untimed(under),
             rec.lines = FALSE
      PROVE  AllUntimed'
  BY <1>1, <1>4, StoreUntimed DEF Untimed
<1>5. ASSUME NEW elapsed \in BOOLEAN, NEW filter \in Filters
      PROVE  Untimed([Refreshed(elapsed) EXCEPT !.filter = filter])
  <2>1. Untimed(Refreshed(elapsed)) /\ Refreshed(elapsed) \in Slot
    BY <1>1, UpdatesUntimed, RefreshedType
  <2>2. QED
    BY <2>1 DEF Untimed, Slot
<1>6. \A sent \in BOOLEAN : /\ SameTiming(AfterLow(sent), Top)
                            /\ Untimed(AfterLow(sent))
                            /\ AfterLow(sent) \in Slot
  BY <1>1, <1>2, UpdatesUntimed, AfterLowType DEF Untimed, SameTiming
<1>7. CASE EvaluateFilter
  <2>1. PICK elapsed \in BOOLEAN :
          SetTop([Refreshed(elapsed) EXCEPT
                    !.filter = IF IsInterruptible(elapsed)
                               THEN "all" ELSE "low"])
    BY <1>7 DEF EvaluateFilter
  <2>2. (IF IsInterruptible(elapsed) THEN "all" ELSE "low") \in Filters
    BY DEF Filters
  <2>3. QED
    BY <1>3, <1>5, <2>1, <2>2
<1>8. CASE TakeEvent
  <2> DEFINE e     == Head(queue)
             under == [Top EXCEPT !.filter = "none"]
             crit  == [InitNewThread("criterion", 0, FALSE, TRUE) EXCEPT
                         !.held = e.prio]
             event == InitNewThread("event", e.prio, FALSE, FALSE)
  <2>1. \/ SetTop(under)
        \/ PushOver(under, crit)
        \/ PushOver(under, event)
    BY <1>8 DEF TakeEvent
  <2>2. Untimed(under)
    BY <1>2 DEF Untimed, Slot
  <2>3. crit.lines = FALSE /\ event.lines = FALSE
    BY DEF InitNewThread, Unused
  <2> HIDE DEF under, crit, event
  <2>4. QED
    BY <1>3, <1>4, <2>1, <2>2, <2>3
<1>9. ASSUME NEW p \in Priorities, TimerTick(p) PROVE AllUntimed'
  <2>1. PICK elapsed \in BOOLEAN :
          PushOver([Refreshed(elapsed) EXCEPT !.filter = "none"],
                   InitNewThread("timer", p, FALSE, FALSE))
    BY <1>9 DEF TimerTick
  <2>2. "none" \in Filters
    BY DEF Filters
  <2>3. QED
    BY <1>4, <1>5, <2>1, <2>2, NewUntimed
<1>10. ASSUME NEW sent \in BOOLEAN, MonitorMessage(sent) PROVE AllUntimed'
  BY <1>4, <1>6, <1>10, NewUntimed DEF MonitorMessage
<1>11. CASE CallbackInNewThread
  <2>1. Untimed(InitNewThread("callback", 0, FALSE, FALSE))
    BY NewUntimed DEF Untimed
  <2>2. QED
    BY <1>1, <1>11, <2>1, StoreUntimed DEF CallbackInNewThread
<1>12. CASE FastCallback
  <2>1. Untimed(FastSlot)
    BY <1>2 DEF FastSlot, Untimed, Slot
  <2>2. QED
    BY <1>3, <1>12, <2>1 DEF FastCallback
<1>13. CASE TrayPause
  <2>1. Untimed([AfterLow(FALSE) EXCEPT !.paused = ~@])
    BY <1>6 DEF Untimed, Slot
  <2>2. QED
    BY <1>3, <1>13, <2>1 DEF TrayPause
<1>14. CASE ExitMessage
  BY <1>6, <1>14, ExitAppUntimed DEF ExitMessage
<1>15. CASE NothingToLaunch
  BY <1>3, <1>6, <1>15 DEF NothingToLaunch
<1>16. CASE PumpReturns
  BY <1>2, <1>3, <1>16 DEF PumpReturns, Untimed, Slot
<1>17. QED
  BY <1>7, <1>8, <1>9, <1>10, <1>11, <1>12, <1>13, <1>14, <1>15, <1>16
     DEF Pump

\* A step that ends a subroutine leaves every slot untimed.
LEMMA EpilogueUntimed ==
  ASSUME IInv, AllUntimed, Epilogue
  PROVE  AllUntimed'
<1>1. SlotsInv /\ mUninterruptedLineCountMax \in Grace
  BY DEF IInv, OtherTypes
<1>2. Top \in Slot /\ g \in Slots /\ Untimed(Top)
  BY <1>1, TopType, UpdatesUntimed
<1>3. ASSUME NEW rec, SetTop(rec), Untimed(rec) PROVE AllUntimed'
  BY <1>1, <1>3, StoreUntimed
<1>4. ASSUME ResumeUnderlyingThread PROVE AllUntimed'
  BY <1>1, <1>2, <1>4, StoreUntimed
<1>5. ASSUME NEW by, NEW prio, SetTop(InitNewThread(by, prio, FALSE, FALSE))
      PROVE  AllUntimed'
  BY <1>3, <1>5, NewUntimed DEF Untimed
<1>6. CASE EndThread \/ EndTimers \/ ExitRefused
  BY <1>4, <1>6 DEF EndThread, EndTimers, ExitRefused
<1>7. CASE EndCriterion
  BY <1>4, <1>5, <1>7 DEF EndCriterion
<1>8. ASSUME NEW p \in Priorities, NextTimer(p) PROVE AllUntimed'
  BY <1>5, <1>8 DEF NextTimer
<1>9. CASE EndAutoExec
  <2>1. g_array \in [Slots -> Slot] /\ 0 \in Slots
    BY <1>1, ConstantsAssumption
       DEF SlotsInv, SlotsTyped, Slots, Additional
  <2>2. g_array' = [g_array EXCEPT ![0].pc = "idle",
                                   ![0].prio = PriorityMinimum]
    BY <1>9 DEF EndAutoExec
  <2>3. ASSUME NEW i \in Slots PROVE SameTiming(g_array'[i], g_array[i])
    BY <2>1, <2>2 DEF SameTiming, Slot
  <2>4. QED
    BY <2>3 DEF SameTiming, AllUntimed, Untimed
<1>10. CASE EndFastCallback
  <2>1. PICK fast, pc, filter, paused, prio :
          SetTop([Top EXCEPT !.fast = fast, !.pc = pc, !.filter = filter,
                             !.paused = paused, !.prio = prio])
    BY <1>10 DEF EndFastCallback
  <2>2. Untimed([Top EXCEPT !.fast = fast, !.pc = pc, !.filter = filter,
                            !.paused = paused, !.prio = prio])
    BY <1>2 DEF Untimed, Slot
  <2>3. QED
    BY <1>3, <2>1, <2>2
<1>11. CASE NextExitHandler
  <2> DEFINE rec == [InitNewThread("exit", 0, TRUE, FALSE)
                       EXCEPT !.prev = Top.prev]
  <2>1. rec.lines = FALSE
    BY DEF InitNewThread, Unused
  <2>2. SetTop(rec)
    BY <1>11 DEF NextExitHandler
  <2>3. QED
    BY <1>3, <2>1, <2>2 DEF Untimed
<1>12. CASE ExitGranted
  BY <1>12 DEF ExitGranted, AllUntimed
<1>13. QED
  BY <1>6, <1>7, <1>8, <1>9, <1>10, <1>11, <1>12 DEF Epilogue

\* A thread made critical by Critical (or InitNewThread) is never made
\* interruptible by IsInterruptible because its time is up, whatever threads,
\* callbacks and changes of Thread "Interrupt" come between: the duration it
\* had before is void, and ExecUntil counts no line of it.
THEOREM CriticalStaysCritical == Spec => []CriticalNeverTimesOut
<1>1. Init => AllUntimed
  BY DEF Init, AllUntimed, Untimed, Unused
<1>2. IInv /\ AllUntimed /\ [Next]_vars => AllUntimed'
  <2> SUFFICES ASSUME IInv, AllUntimed, [Next]_vars PROVE AllUntimed'
    OBVIOUS
  <2>1. CASE UNCHANGED g_array
    BY <2>1 DEF AllUntimed
  <2>2. CASE Script \/ Pump \/ Epilogue
    BY <2>2, ScriptUntimed, PumpUntimed, EpilogueUntimed
  <2>3. QED
    BY <2>1, <2>2 DEF Next, PostEvent, Terminated, vars
<1>3. IInv /\ AllUntimed => CriticalNeverTimesOut
  <2> SUFFICES ASSUME IInv, AllUntimed PROVE CriticalNeverTimesOut
    OBVIOUS
  <2>1. Live \subseteq Slots
    BY ConstantsAssumption
       DEF IInv, SlotsInv, SlotsTyped, Live, Slots, Additional
  <2>2. QED
    BY <2>1 DEF AllUntimed, Untimed, CriticalNeverTimesOut
<1>4. QED
  BY <1>1, <1>2, <1>3, Invariance, PTL DEF Spec

----------------------------------------------------------------------------
(* Critical threads are not disturbed. *)

\* What runs in slot 0 once the auto-execute thread has ended is nothing.
Idle(i) == i = 0 /\ ~mAutoExecSectionIsRunning

\* A slot whose pump was told to retrieve every message still waits in that
\* pump and is interruptible: nothing can make it critical in between, unless
\* a fast-mode callback runs in it.
FilterSafe(i, s) ==
  /\ s.filter = "all" => s.pc \in Pumps /\ (s.allow \/ Idle(i))
  /\ s.fast = <<>>

\* What the filter and the timer check hold back; a criterion launches the
\* event it is evaluated for in its own slot.
HeldBack == {"event", "timer", "criterion"}

Disturbable(i, s) == (s.critical => s.allow) \/ Idle(i)

AllFiltersSafe == \A i \in Slots : FilterSafe(i, g_array[i])

AllUndisturbed ==
  \A i \in 0 .. g - 1 :
    g_array[i + 1].by \in HeldBack => Disturbable(i, g_array[i])

\* The inductive form of CriticalUndisturbed.
CInv == AllFiltersSafe /\ AllUndisturbed

\* The top slot may be rewritten by a record.
Rewrites(rec) ==
  /\ SetTop(rec) /\ FilterSafe(g, rec)
  /\ rec.by \in HeldBack => Top.by \in HeldBack

\* A record may be pushed over the top slot, updated to under.
Covers(under, rec) ==
  /\ PushOver(under, rec) /\ g + 1 \in Slots
  /\ FilterSafe(g, under) /\ FilterSafe(g + 1, rec)
  /\ under.by \in HeldBack => Top.by \in HeldBack
  /\ rec.by \in HeldBack => Disturbable(g, under)

\* The three ways in which a step changes the slots preserve the invariant.
LEMMA StoreCInv ==
  ASSUME SlotsInv, CInv, NEW under, NEW rec,
         mAutoExecSectionIsRunning' = mAutoExecSectionIsRunning,
         Rewrites(rec) \/ Covers(under, rec) \/ ResumeUnderlyingThread
  PROVE  CInv'
<1>1. /\ g_array \in [Slots -> Slot] /\ g \in Slots
      /\ MaxThreads \in Nat /\ Slots = 0 .. (MaxThreads + 1)
  BY ConstantsAssumption DEF SlotsInv, SlotsTyped, Slots, Additional
<1>2. \A i : Idle(i)' <=> Idle(i)
  BY DEF Idle
<1>3. ASSUME NEW i \in Slots PROVE FilterSafe(i, Unused)
  BY DEF FilterSafe, Unused
<1>4. CASE Rewrites(rec)
  <2>1. g' = g /\ \A i \in Slots :
          g_array'[i] = IF i = g THEN rec ELSE g_array[i]
    BY <1>1, <1>4 DEF Rewrites, SetTop
  <2>2. AllFiltersSafe'
    BY <1>2, <1>4, <2>1 DEF CInv, AllFiltersSafe, FilterSafe, Rewrites
  <2>3. AllUndisturbed'
    BY <1>1, <1>2, <1>4, <2>1
       DEF CInv, AllUndisturbed, Disturbable, Rewrites, Top
  <2>4. QED
    BY <2>2, <2>3 DEF CInv
<1>5. CASE Covers(under, rec)
  <2>1. g' = g + 1 /\ \A i \in Slots :
          g_array'[i] = IF i = g + 1 THEN rec
                        ELSE IF i = g THEN under ELSE g_array[i]
    BY <1>1, <1>5 DEF Covers, PushOver
  <2>2. AllFiltersSafe'
    BY <1>2, <1>5, <2>1 DEF CInv, AllFiltersSafe, FilterSafe, Covers
  <2>3. ASSUME NEW i \in 0 .. g, g_array'[i + 1].by \in HeldBack
        PROVE  Disturbable(i, g_array'[i])
    <3>1. i \in Slots /\ i # g + 1
      BY <1>1
    <3>2. g + 1 \in Slots
      BY <1>5 DEF Covers
    <3>3. CASE i = g
      BY <1>1, <1>5, <2>1, <2>3, <3>1, <3>2, <3>3 DEF Covers
    <3>4. CASE i = g - 1
      BY <1>1, <1>5, <2>1, <2>3, <3>1, <3>4
         DEF CInv, AllUndisturbed, Disturbable, Covers, Top
    <3>5. CASE i < g - 1
      BY <1>1, <2>1, <2>3, <3>1, <3>5 DEF CInv, AllUndisturbed
    <3>6. QED
      BY <1>1, <3>3, <3>4, <3>5
  <2>4. AllUndisturbed'
    BY <1>1, <1>2, <2>1, <2>3 DEF AllUndisturbed, Disturbable
  <2>5. QED
    BY <2>2, <2>4 DEF CInv
<1>6. CASE ResumeUnderlyingThread
  <2>1. g' = g - 1 /\ \A i \in Slots :
          g_array'[i] = IF i = g THEN Unused ELSE g_array[i]
    BY <1>1, <1>6 DEF ResumeUnderlyingThread
  <2>2. AllFiltersSafe'
    BY <1>2, <1>3, <2>1 DEF CInv, AllFiltersSafe, FilterSafe
  <2>3. AllUndisturbed'
    BY <1>1, <1>2, <2>1 DEF CInv, AllUndisturbed, Disturbable
  <2>4. QED
    BY <2>2, <2>3 DEF CInv
<1>7. QED
  BY <1>4, <1>5, <1>6

\* What the invariant says of the top slot.
LEMMA TopCInv ==
  ASSUME SlotsInv, CInv
  PROVE  /\ Top \in Slot /\ FilterSafe(g, Top)
         /\ Top.pc \notin Pumps => Top.filter # "all"
         /\ "line" \notin Pumps /\ "check" \notin Pumps
         /\ "expr" \notin Pumps /\ "end" \notin Pumps
<1>1. Top \in Slot /\ g \in Slots
  BY TopType
<1>2. FilterSafe(g, Top)
  BY <1>1 DEF CInv, AllFiltersSafe, Top
<1>3. QED
  BY <1>1, <1>2 DEF FilterSafe, Pumps

\* The slots have room for one more below the thread limit, and outside of
\* OnExit.
LEMMA RoomAbove ==
  ASSUME SlotsInv, OtherTypes, g_nThreads < MaxThreads \/ ~g_OnExitIsRunning
  PROVE  g + 1 \in Slots
BY ConstantsAssumption
   DEF SlotsInv, SlotsTyped, SlotsInBounds, OtherTypes, Slots, Additional

\* With no thread counted, slot 0 is idle.
LEMMA NoThreadIdle ==
  ASSUME SlotsInv, OtherTypes, g_nThreads = 0
  PROVE  Idle(g)
BY ConstantsAssumption
   DEF SlotsInv, SlotsTyped, SlotsInBounds, OtherTypes, Slots, Additional,
       Idle

\* A new thread has evaluated no filter and interrupted nothing.
LEMMA NewFilterSafe ==
  ASSUME NEW by, NEW prio, NEW skip, NEW crit, NEW i
  PROVE  FilterSafe(i, InitNewThread(by, prio, skip, crit))
BY DEF InitNewThread, Unused, FilterSafe

\* ExitApp preserves the invariant.
LEMMA ExitAppCInv ==
  ASSUME IInv, CInv, NEW under, FilterSafe(g, under), under.by = Top.by,
         ExitApp(under)
  PROVE  CInv'
<1>1. SlotsInv /\ OtherTypes
  BY DEF IInv
<1>2. CASE ExitsAtOnce
  BY <1>2 DEF ExitApp, CInv, AllFiltersSafe, FilterSafe, AllUndisturbed,
              Disturbable, Idle
<1>3. CASE ~ExitsAtOnce
  <2> DEFINE new == InitNewThread("exit", 0, TRUE, FALSE)
             rec == [new EXCEPT !.prev = g_AllowInterruption]
  <2>1. /\ PushOver(under, rec)
        /\ mAutoExecSectionIsRunning' = mAutoExecSectionIsRunning
    BY <1>3 DEF ExitApp
  <2>2. rec.by \notin HeldBack /\ FilterSafe(g + 1, rec)
    BY DEF InitNewThread, Unused, FilterSafe, HeldBack
  <2> HIDE DEF rec
  <2>3. g + 1 \in Slots
    BY <1>1, <1>3, RoomAbove DEF ExitsAtOnce
  <2>4. Covers(under, rec)
    BY <2>1, <2>2, <2>3 DEF Covers
  <2>5. QED
    BY <1>1, <2>1, <2>4, StoreCInv
<1>4. QED
  BY <1>2, <1>3

\* A step of the running script preserves the invariant.
LEMMA ScriptCInv ==
  ASSUME IInv, CInv, Script
  PROVE  CInv'
<1>1. SlotsInv /\ OtherTypes
  BY DEF IInv
<1>2. /\ Top \in Slot /\ FilterSafe(g, Top)
      /\ Top.pc \notin Pumps => Top.filter # "all"
      /\ "line" \notin Pumps /\ "check" \notin Pumps
      /\ "expr" \notin Pumps /\ "end" \notin Pumps
  BY <1>1, TopCInv
<1>3. ASSUME NEW rec, SetTop(rec), rec.by = Top.by, rec.fast = Top.fast,
             rec.filter = Top.filter, Running({"line", "check", "expr"}),
             mAutoExecSectionIsRunning' = mAutoExecSectionIsRunning
      PROVE  CInv'
  <2>1. Rewrites(rec)
    BY <1>2, <1>3 DEF Running, Rewrites, FilterSafe
  <2>2. QED
    BY <1>1, <1>3, <2>1, StoreCInv
<1>4. CASE Peek
  BY <1>2, <1>3, <1>4 DEF Peek, Running, program, Slot
<1>5. CASE RunLine
  <2>1. PICK many \in BOOLEAN, next \in {"expr", "end"} :
          SetTop([CountLine(Top, many) EXCEPT
                    !.pc = IF Top.paused THEN "unpause" ELSE next])
    BY <1>5 DEF RunLine
  <2> DEFINE rec == [CountLine(Top, many) EXCEPT
                       !.pc = IF Top.paused THEN "unpause" ELSE next]
  <2>2. /\ rec.by = Top.by /\ rec.fast = Top.fast
        /\ rec.filter = Top.filter
    BY <1>2 DEF CountLine, Slot
  <2> HIDE DEF rec
  <2>3. SetTop(rec)
    BY <2>1 DEF rec
  <2>4. QED
    BY <1>3, <1>5, <2>2, <2>3 DEF RunLine, Running, program
<1>6. CASE NextLine \/ ReturnExpr \/ Sleep
  BY <1>2, <1>3, <1>6 DEF NextLine, ReturnExpr, Sleep, Running, program, Slot
<1>7. CASE Send
  BY <1>2, <1>3, <1>7 DEF Send, Running, Slot
<1>8. CASE PauseCurrentThread
  BY <1>2, <1>3, <1>8 DEF PauseCurrentThread, Running, program, Slot
<1>9. ASSUME NEW on \in BOOLEAN, Critical(on) PROVE CInv'
  <2>1. CASE on
    BY <1>2, <1>3, <1>9, <2>1
       DEF Critical, MadeCritical, Running, program, Slot
  <2>2. CASE ~on
    BY <1>2, <1>3, <1>9, <2>2 DEF Critical, Running, program, Slot
  <2>3. QED
    BY <2>1, <2>2
<1>10. ASSUME NEW p \in Priorities, ThreadPriority(p) PROVE CInv'
  BY <1>2, <1>3, <1>10 DEF ThreadPriority, Running, program, Slot
<1>11. ASSUME NEW b \in BOOLEAN, ThreadNoTimers(b) PROVE CInv'
  BY <1>2, <1>3, <1>11 DEF ThreadNoTimers, Running, program, Slot
<1>12. ASSUME NEW time \in Grace, NEW lines \in Grace,
              ThreadInterrupt(time, lines)
       PROVE  CInv'
  BY <1>12 DEF ThreadInterrupt, program, CInv, AllFiltersSafe, FilterSafe,
               AllUndisturbed, Disturbable, Idle
<1>13. ASSUME NEW on \in BOOLEAN, PauseUnderlyingThread(on) PROVE CInv'
  <2>1. g_array \in [Slots -> Slot] /\ g \in Slots
    BY <1>1 DEF SlotsInv, SlotsTyped
  <2>2. /\ g_array' = [g_array EXCEPT ![g - 1].paused = on] /\ g' = g
        /\ mAutoExecSectionIsRunning' = mAutoExecSectionIsRunning
    BY <1>13 DEF PauseUnderlyingThread, program
  <2>3. ASSUME NEW i \in Slots
        PROVE  /\ SameTiming(g_array'[i], g_array[i])
               /\ g_array'[i].by = g_array[i].by
               /\ g_array'[i].pc = g_array[i].pc
               /\ g_array'[i].filter = g_array[i].filter
               /\ g_array'[i].fast = g_array[i].fast
    BY <2>1, <2>2 DEF SameTiming, Slot
  <2>4. \A i \in 0 .. g - 1 : i \in Slots /\ i + 1 \in Slots
    BY <2>1, ConstantsAssumption DEF Slots, Additional
  <2>5. AllFiltersSafe'
    BY <2>2, <2>3
       DEF CInv, AllFiltersSafe, FilterSafe, SameTiming, Idle
  <2>6. AllUndisturbed'
    BY <2>2, <2>3, <2>4
       DEF CInv, AllUndisturbed, Disturbable, SameTiming, Idle
  <2>7. QED
    BY <2>5, <2>6 DEF CInv
<1>14. CASE CallExitApp
  <2>1. FilterSafe(g, [Top EXCEPT !.pc = "end"])
    BY <1>2, <1>14 DEF CallExitApp, Running, FilterSafe, Slot
  <2>2. [Top EXCEPT !.pc = "end"].by = Top.by
    BY <1>2 DEF Slot
  <2>3. QED
    BY <1>14, <2>1, <2>2, ExitAppCInv DEF CallExitApp
<1>15. QED
  BY <1>4, <1>5, <1>6, <1>7, <1>8, <1>9, <1>10, <1>11, <1>12, <1>13, <1>14
     DEF Script

\* A step of the pump preserves the invariant: what is held back is launched
\* over a slot that IsInterruptible has just found, or the filter remembers,
\* to be interruptible.
LEMMA PumpCInv ==
  ASSUME IInv, CInv, Pump, "fast" \notin Arrivals
  PROVE  CInv'
<1>1. SlotsInv /\ OtherTypes
  BY DEF IInv
<1>2. Top \in Slot /\ FilterSafe(g, Top)
  BY <1>1, TopCInv
<1>3. ASSUME NEW rec, Rewrites(rec),
             mAutoExecSectionIsRunning' = mAutoExecSectionIsRunning
      PROVE  CInv'
  BY <1>1, <1>3, StoreCInv
<1>4. ASSUME NEW under, NEW rec, PushOver(under, rec), ~ThreadLimitReached,
             FilterSafe(g, under), under.by = Top.by, FilterSafe(g + 1, rec),
             rec.by \in HeldBack => Disturbable(g, under),
             mAutoExecSectionIsRunning' = mAutoExecSectionIsRunning
      PROVE  CInv'
  <2>1. g_nThreads < MaxThreads
    BY <1>1, <1>4, ConstantsAssumption
       DEF ThreadLimitReached, SlotsInv, SlotsTyped
  <2>2. g + 1 \in Slots
    BY <1>1, <2>1, RoomAbove
  <2>3. Covers(under, rec)
    BY <1>4, <2>2 DEF Covers
  <2>4. QED
    BY <1>1, <1>4, <2>3, StoreCInv
<1>5. ASSUME NEW elapsed \in BOOLEAN
      PROVE  /\ Refreshed(elapsed) \in Slot
             /\ Refreshed(elapsed).by = Top.by
             /\ Refreshed(elapsed).pc = Top.pc
             /\ Refreshed(elapsed).fast = <<>>
             /\ Refreshed(elapsed).critical = Top.critical
             /\ IsInterruptible(elapsed) => Refreshed(elapsed).allow \/ Idle(g)
  <2>1. Refreshed(elapsed) \in Slot /\ Refreshed(elapsed).by = Top.by
    BY <1>1, RefreshedType
  <2>2. /\ Refreshed(elapsed).pc = Top.pc
        /\ Refreshed(elapsed).fast = Top.fast
        /\ Refreshed(elapsed).critical = Top.critical
    BY <1>2 DEF Refreshed, Slot
  <2>3. IsInterruptible(elapsed) => Refreshed(elapsed).allow \/ Idle(g)
    BY <1>1, NoThreadIdle DEF IsInterruptible
  <2>4. QED
    BY <1>2, <2>1, <2>2, <2>3 DEF FilterSafe
<1>6. \A sent \in BOOLEAN : /\ AfterLow(sent) \in Slot
                            /\ AfterLow(sent).by = Top.by
                            /\ FilterSafe(g, AfterLow(sent))
  BY <1>1, <1>2, AfterLowType DEF AfterLow, FilterSafe, Slot
<1>7. CASE EvaluateFilter
  <2>1. PICK elapsed \in BOOLEAN :
          SetTop([Refreshed(elapsed) EXCEPT
                    !.filter = IF IsInterruptible(elapsed)
                               THEN "all" ELSE "low"])
    BY <1>7 DEF EvaluateFilter
  <2> DEFINE filter == IF IsInterruptible(elapsed) THEN "all" ELSE "low"
             rec == [Refreshed(elapsed) EXCEPT !.filter = filter]
  <2>2. filter = "all" => IsInterruptible(elapsed)
    OBVIOUS
  <2> HIDE DEF filter
  <2>3. /\ rec.by = Top.by /\ rec.pc = Top.pc /\ rec.fast = <<>>
        /\ rec.filter = filter /\ rec.allow = Refreshed(elapsed).allow
    BY <1>5 DEF Slot
  <2>4. Top.pc \in Pumps
    BY <1>7 DEF EvaluateFilter, Pumping, Running
  <2> HIDE DEF rec
  <2>5. FilterSafe(g, rec)
    BY <1>5, <2>2, <2>3, <2>4 DEF FilterSafe
  <2>6. SetTop(rec)
    BY <2>1 DEF rec, filter
  <2>7. QED
    BY <1>3, <1>7, <2>3, <2>5, <2>6 DEF EvaluateFilter, Rewrites, program
<1>8. CASE TakeEvent
  <2> DEFINE e     == Head(queue)
             under == [Top EXCEPT !.filter = "none"]
             crit  == [InitNewThread("criterion", 0, FALSE, TRUE) EXCEPT
                         !.held = e.prio]
             event == InitNewThread("event", e.prio, FALSE, FALSE)
  <2>1. /\ \/ SetTop(under)
           \/ ~ThreadLimitReached /\ PushOver(under, crit)
           \/ ~ThreadLimitReached /\ PushOver(under, event)
        /\ mAutoExecSectionIsRunning' = mAutoExecSectionIsRunning
    BY <1>8 DEF TakeEvent, Accepted, program
  <2>2. /\ under.by = Top.by /\ FilterSafe(g, under)
        /\ under.allow = Top.allow
    BY <1>2 DEF FilterSafe, Slot
  <2>3. Top.filter = "all"
    BY <1>8 DEF TakeEvent
  <2>4. Disturbable(g, under)
    BY <1>2, <2>2, <2>3 DEF FilterSafe, Disturbable
  <2>5. FilterSafe(g + 1, crit) /\ FilterSafe(g + 1, event)
    BY DEF InitNewThread, Unused, FilterSafe
  <2> HIDE DEF under, crit, event
  <2>6. CASE SetTop(under)
    BY <1>3, <2>1, <2>2, <2>6 DEF Rewrites
  <2>7. QED
    BY <1>4, <2>1, <2>2, <2>4, <2>5, <2>6
<1>9. ASSUME NEW p \in Priorities, TimerTick(p) PROVE CInv'
  <2>1. PICK elapsed \in BOOLEAN :
          /\ TimersAllowed(elapsed)
          /\ PushOver([Refreshed(elapsed) EXCEPT !.filter = "none"],
                      InitNewThread("timer", p, FALSE, FALSE))
    BY <1>9 DEF TimerTick
  <2> DEFINE under == [Refreshed(elapsed) EXCEPT !.filter = "none"]
             rec == InitNewThread("timer", p, FALSE, FALSE)
  <2>2. /\ under.by = Top.by /\ FilterSafe(g, under)
        /\ under.allow = Refreshed(elapsed).allow
    BY <1>5 DEF FilterSafe, Slot
  <2>3. Disturbable(g, under)
    BY <1>5, <2>1, <2>2 DEF TimersAllowed, Disturbable
  <2>4. FilterSafe(g + 1, rec)
    BY NewFilterSafe
  <2>5. PushOver(under, rec) /\ ~ThreadLimitReached
    BY <2>1 DEF TimersAllowed
  <2> HIDE DEF under, rec
  <2>6. QED
    BY <1>4, <1>9, <2>2, <2>3, <2>4, <2>5 DEF TimerTick, program
<1>10. ASSUME NEW sent \in BOOLEAN, MonitorMessage(sent) PROVE CInv'
  <2> DEFINE rec == InitNewThread("monitor", 0, FALSE, FALSE)
  <2>1. rec.by \notin HeldBack /\ FilterSafe(g + 1, rec)
    BY DEF InitNewThread, Unused, HeldBack, FilterSafe
  <2>2. PushOver(AfterLow(sent), rec) /\ ~ThreadLimitReached
    BY <1>10 DEF MonitorMessage
  <2> HIDE DEF rec
  <2>3. QED
    BY <1>4, <1>6, <1>10, <2>1, <2>2 DEF MonitorMessage, program
<1>11. CASE CallbackInNewThread
  <2> DEFINE rec == InitNewThread("callback", 0, FALSE, FALSE)
  <2>1. rec.by \notin HeldBack /\ FilterSafe(g + 1, rec)
    BY DEF InitNewThread, Unused, HeldBack, FilterSafe
  <2>2. [g_array EXCEPT ![g] = Top] = g_array
    BY <1>1, TopType DEF SlotsInv, SlotsTyped, Top
  <2>3. PushOver(Top, rec) /\ ~ThreadLimitReached
    BY <1>11, <2>2 DEF CallbackInNewThread, Push, PushOver
  <2> HIDE DEF rec
  <2>4. QED
    BY <1>2, <1>4, <1>11, <2>1, <2>3 DEF CallbackInNewThread, program
<1>12. CASE FastCallback
  BY <1>12 DEF FastCallback
<1>13. CASE TrayPause
  <2> DEFINE rec == [AfterLow(FALSE) EXCEPT !.paused = ~@]
  <2>1. rec.by = Top.by /\ FilterSafe(g, rec)
    BY <1>6 DEF FilterSafe, Slot
  <2> HIDE DEF rec
  <2>2. SetTop(rec)
    BY <1>13 DEF TrayPause, rec
  <2>3. QED
    BY <1>3, <1>13, <2>1, <2>2 DEF TrayPause, Rewrites, program
<1>14. CASE ExitMessage
  BY <1>6, <1>14, ExitAppCInv DEF ExitMessage
<1>15. CASE NothingToLaunch
  BY <1>3, <1>6, <1>15 DEF NothingToLaunch, Rewrites, program
<1>16. CASE PumpReturns
  <2> DEFINE rec == [Top EXCEPT !.pc = IF Top.pc = "peek" THEN "check"
                                       ELSE "expr"]
  <2>1. rec.by = Top.by /\ FilterSafe(g, rec)
    BY <1>2, <1>16 DEF PumpReturns, FilterSafe, Slot
  <2> HIDE DEF rec
  <2>2. SetTop(rec)
    BY <1>16 DEF PumpReturns, rec
  <2>3. QED
    BY <1>3, <1>16, <2>1, <2>2 DEF PumpReturns, Rewrites
<1>17. QED
  BY <1>7, <1>8, <1>9, <1>10, <1>11, <1>12, <1>13, <1>14, <1>15, <1>16
     DEF Pump

\* A step that ends a subroutine preserves the invariant: the slot of a timer
\* or a criterion may be reused, for what lies below it has not changed.
LEMMA EpilogueCInv ==
  ASSUME IInv, CInv, Epilogue
  PROVE  CInv'
<1>1. SlotsInv /\ OtherTypes
  BY DEF IInv
<1>2. Top \in Slot /\ FilterSafe(g, Top)
  BY <1>1, TopCInv
<1>3. ASSUME NEW by, NEW prio, SetTop(InitNewThread(by, prio, FALSE, FALSE)),
             Top.by \in HeldBack,
             mAutoExecSectionIsRunning' = mAutoExecSectionIsRunning
      PROVE  CInv'
  <2>1. FilterSafe(g, InitNewThread(by, prio, FALSE, FALSE))
    BY NewFilterSafe
  <2>2. Rewrites(InitNewThread(by, prio, FALSE, FALSE))
    BY <1>3, <2>1 DEF Rewrites
  <2>3. QED
    BY <1>1, <1>3, <2>2, StoreCInv
<1>4. ASSUME ResumeUnderlyingThread,
             mAutoExecSectionIsRunning' = mAutoExecSectionIsRunning
      PROVE  CInv'
  BY <1>1, <1>4, StoreCInv
<1>5. CASE EndThread \/ EndTimers \/ ExitRefused
  BY <1>4, <1>5 DEF EndThread, EndTimers, ExitRefused, program
<1>6. CASE EndCriterion
  <2>1. /\ Top.by \in HeldBack
        /\ mAutoExecSectionIsRunning' = mAutoExecSectionIsRunning
    BY <1>6 DEF EndCriterion, Ended, HeldBack, program
  <2>2. QED
    BY <1>3, <1>4, <1>6, <2>1 DEF EndCriterion
<1>7. ASSUME NEW p \in Priorities, NextTimer(p) PROVE CInv'
  <2>1. /\ Top.by \in HeldBack
        /\ mAutoExecSectionIsRunning' = mAutoExecSectionIsRunning
    BY <1>7 DEF NextTimer, Ended, HeldBack, program
  <2>2. QED
    BY <1>3, <1>7, <2>1 DEF NextTimer
<1>8. CASE EndAutoExec
  <2>1. g = 0 /\ 0 \in Slots /\ g_array \in [Slots -> Slot]
    BY <1>1, <1>8, ConstantsAssumption
       DEF EndAutoExec, Ended, SlotsInv, SlotsTyped, SlotZero, Top, Slots,
           Additional
  <2>2. /\ g' = g /\ mAutoExecSectionIsRunning' = FALSE
        /\ g_array' = [g_array EXCEPT ![0].pc = "idle",
                                      ![0].prio = PriorityMinimum]
    BY <1>8 DEF EndAutoExec
  <2>3. ASSUME NEW i \in Slots
        PROVE  /\ g_array'[i].filter = g_array[i].filter
               /\ g_array'[i].allow = g_array[i].allow
               /\ g_array'[i].fast = g_array[i].fast
               /\ i # 0 => g_array'[i].pc = g_array[i].pc
               /\ i = 0 => g_array'[i].pc = "idle"
    BY <2>1, <2>2 DEF Slot
  <2>4. "idle" \in Pumps
    BY DEF Pumps
  <2>5. AllFiltersSafe'
    BY <2>2, <2>3, <2>4 DEF CInv, AllFiltersSafe, FilterSafe, Idle
  <2>6. AllUndisturbed'
    BY <2>1, <2>2 DEF AllUndisturbed
  <2>7. QED
    BY <2>5, <2>6 DEF CInv
<1>9. CASE EndFastCallback
  BY <1>2, <1>9 DEF EndFastCallback, FilterSafe
<1>10. CASE NextExitHandler
  <2> DEFINE new == InitNewThread("exit", 0, TRUE, FALSE)
             rec == [new EXCEPT !.prev = Top.prev]
  <2>1. rec.by \notin HeldBack /\ FilterSafe(g, rec)
    BY DEF InitNewThread, Unused, HeldBack, FilterSafe
  <2> HIDE DEF rec
  <2>2. SetTop(rec)
    BY <1>10 DEF NextExitHandler, rec
  <2>3. QED
    BY <1>1, <1>10, <2>1, <2>2, StoreCInv
       DEF NextExitHandler, Rewrites, program
<1>11. CASE ExitGranted
  BY <1>11 DEF ExitGranted, CInv, AllFiltersSafe, FilterSafe, AllUndisturbed,
               Disturbable, Idle
<1>12. QED
  BY <1>5, <1>6, <1>7, <1>8, <1>9, <1>10, <1>11 DEF Epilogue

\* MSG_FILTER_MAX and CheckScriptTimers keep events and timers out of a thread
\* that is critical, for every thread limit and mix of built-ins and arrivals,
\* fast-mode callbacks excepted: one may call Critical in a thread whose pump
\* has evaluated its filter already, and the filter is not evaluated again.
THEOREM CriticalKeepsOthersOut ==
  ASSUME "fast" \notin Arrivals
  PROVE  Spec => []CriticalUndisturbed
<1>1. Init => CInv
  <2> SUFFICES ASSUME Init PROVE CInv
    OBVIOUS
  <2>1. AllFiltersSafe
    BY DEF Init, AllFiltersSafe, FilterSafe, Unused
  <2>2. AllUndisturbed
    BY DEF Init, AllUndisturbed
  <2>3. QED
    BY <2>1, <2>2 DEF CInv
<1>2. IInv /\ CInv /\ [Next]_vars => CInv'
  <2> SUFFICES ASSUME IInv, CInv, [Next]_vars PROVE CInv'
    OBVIOUS
  <2>1. CASE UNCHANGED <<g_array, g, mAutoExecSectionIsRunning>>
    BY <2>1 DEF CInv, AllFiltersSafe, FilterSafe, AllUndisturbed,
                Disturbable, Idle
  <2>2. CASE Script \/ Pump \/ Epilogue
    BY <2>2, ScriptCInv, PumpCInv, EpilogueCInv
  <2>3. QED
    BY <2>1, <2>2 DEF Next, PostEvent, Terminated, vars, program
<1>3. IInv /\ CInv => CriticalUndisturbed
  <2> SUFFICES ASSUME IInv, CInv, NEW i \in 0 .. g - 1,
                      g_array[i].critical /\ ~g_array[i].allow,
                      i > 0 \/ mAutoExecSectionIsRunning
               PROVE  g_array[i + 1].by \notin {"event", "timer"}
    BY DEF CriticalUndisturbed
  <2>1. ~Disturbable(i, g_array[i])
    BY DEF Disturbable, Idle
  <2>2. g_array[i + 1].by \notin HeldBack
    BY <2>1 DEF CInv, AllUndisturbed
  <2>3. QED
    BY <2>2 DEF HeldBack
<1>4. QED
  BY <1>1, <1>2, <1>3, Invariance, PTL DEF Spec

----------------------------------------------------------------------------
(***************************************************************************)
(* Script::ExitApp launches its handlers past the thread limit, and what   *)
(* keeps it from doing so twice is g_OnExitIsRunning: the theorem that the *)
(* flag is set exactly while one slot runs them, and the theorem that no   *)
(* event or timer is launched above them, for every value of the constants *)
(* (the latter for scripts that send no keys).                             *)
(***************************************************************************)

\* The inductive form of OneExitThread: the exit slot, if any, is unique.
OneExit ==
  IF g_OnExitIsRunning
  THEN \E k \in Slots : \A i \in Slots : g_array[i].by = "exit" <=> i = k
  ELSE \A i \in Slots : g_array[i].by # "exit"

\* A step neither begins nor ends an exit thread.
ExitKept ==
  /\ g_OnExitIsRunning' = g_OnExitIsRunning
  /\ \A i \in Slots : g_array'[i].by = "exit" <=> g_array[i].by = "exit"

\* Such a step preserves the invariant.
LEMMA KeptOneExit ==
  ASSUME OneExit, ExitKept
  PROVE  OneExit'
BY DEF OneExit, ExitKept

\* A launcher that agrees with the top slot's on whether it is OnExit.
SameExit(rec) == rec.by = "exit" <=> Top.by = "exit"

\* The ways a step changes the slots, without an exit thread among them.
LEMMA StoreKeepsExit ==
  ASSUME SlotsInv, NEW under, NEW rec,
         g_OnExitIsRunning' = g_OnExitIsRunning,
         \/ SetTop(rec) /\ SameExit(rec)
         \/ Push(rec) /\ rec.by # "exit"
         \/ PushOver(under, rec) /\ SameExit(under) /\ rec.by # "exit"
         \/ ResumeUnderlyingThread /\ Top.by # "exit"
  PROVE  ExitKept
<1>1. g_array \in [Slots -> Slot] /\ Unused.by # "exit"
  BY DEF SlotsInv, SlotsTyped, Unused
<1>2. g \in Int /\ Slots \subseteq Int
  BY ConstantsAssumption DEF SlotsInv, SlotsTyped, Slots, Additional
<1>3. g + 1 \in Slots => g_array[g + 1].by # "exit"
  BY <1>1, <1>2 DEF SlotsInv, AboveUnused
<1>4. CASE SetTop(rec) /\ SameExit(rec)
  BY <1>1, <1>4 DEF SetTop, SameExit, Top, ExitKept
<1>5. CASE Push(rec) /\ rec.by # "exit"
  BY <1>1, <1>3, <1>5 DEF Push, ExitKept
<1>6. CASE PushOver(under, rec) /\ SameExit(under) /\ rec.by # "exit"
  BY <1>1, <1>2, <1>3, <1>6 DEF PushOver, SameExit, Top, ExitKept
<1>7. CASE ResumeUnderlyingThread /\ Top.by # "exit"
  BY <1>1, <1>7 DEF ResumeUnderlyingThread, Top, ExitKept
<1>8. QED
  BY <1>4, <1>5, <1>6, <1>7

\* ExitApp preserves the invariant: it launches the handlers only when no slot
\* runs them.
LEMMA ExitAppOneExit ==
  ASSUME SlotsInv, OtherTypes, OneExit,
         NEW under, SameExit(under), ExitApp(under)
  PROVE  OneExit'
<1>1. CASE ExitsAtOnce
  BY <1>1 DEF ExitApp, OneExit
<1>2. CASE ~ExitsAtOnce
  <2> DEFINE new == InitNewThread("exit", 0, TRUE, FALSE)
             rec == [new EXCEPT !.prev = g_AllowInterruption]
  <2>1. PushOver(under, rec) /\ g_OnExitIsRunning' = TRUE
    BY <1>2 DEF ExitApp
  <2>2. rec.by = "exit"
    BY DEF InitNewThread, Unused
  <2> HIDE DEF rec
  <2>3. ~g_OnExitIsRunning /\ \A i \in Slots : g_array[i].by # "exit"
    BY <1>2 DEF ExitsAtOnce, OneExit
  <2>4. g_nThreads <= MaxThreads /\ g <= g_nThreads /\ g \in Slots
        /\ MaxThreads \in Nat /\ g_nThreads \in Int
    BY <2>3, ConstantsAssumption
       DEF SlotsInv, SlotsTyped, SlotsInBounds, OtherTypes, Slots, Additional
  <2>5. g + 1 \in Slots
    BY <2>4 DEF Slots, Additional
  <2>6. g # g + 1
    BY <2>4 DEF Slots, Additional
  <2>7. under.by # "exit"
    BY <2>3, <2>4 DEF SameExit, Top
  <2>8. \A i \in Slots : g_array'[i].by = "exit" <=> i = g + 1
    BY <2>1, <2>2, <2>3, <2>4, <2>5, <2>6, <2>7
       DEF PushOver, SlotsInv, SlotsTyped
  <2>9. QED
    BY <2>1, <2>5, <2>8 DEF OneExit
<1>3. QED
  BY <1>1, <1>2

\* A step of the running script preserves the invariant.
LEMMA ScriptOneExit ==
  ASSUME IInv, OneExit, Script
  PROVE  OneExit'
<1>0. SlotsInv /\ OtherTypes
  BY DEF IInv
<1>1. Top \in Slot
  BY <1>0, TopType
<1>2. ASSUME NEW rec, SetTop(rec), rec.by = Top.by,
             g_OnExitIsRunning' = g_OnExitIsRunning
      PROVE  OneExit'
  BY <1>0, <1>2, StoreKeepsExit, KeptOneExit DEF SameExit
<1>3. CASE Peek
  BY <1>1, <1>2, <1>3 DEF Peek, program, Slot
<1>4. CASE RunLine
  <2>1. PICK many \in BOOLEAN, next \in {"expr", "end"} :
          SetTop([CountLine(Top, many) EXCEPT
                    !.pc = IF Top.paused THEN "unpause" ELSE next])
    BY <1>4 DEF RunLine
  <2>2. CountLine(Top, many) \in Slot /\ CountLine(Top, many).by = Top.by
    BY <1>0, <1>1, CountLineType DEF OtherTypes
  <2>3. QED
    BY <1>2, <1>4, <2>1, <2>2 DEF RunLine, program, Slot
<1>5. CASE NextLine \/ ReturnExpr \/ Sleep
  BY <1>1, <1>2, <1>5 DEF NextLine, ReturnExpr, Sleep, program, Slot
<1>6. CASE Send
  BY <1>1, <1>2, <1>6 DEF Send, Slot
<1>7. CASE PauseCurrentThread
  BY <1>1, <1>2, <1>7 DEF PauseCurrentThread, program, Slot
<1>8. ASSUME NEW on \in BOOLEAN, Critical(on) PROVE OneExit'
  BY <1>1, <1>2, <1>8 DEF Critical, MadeCritical, program, Slot
<1>9. ASSUME NEW p \in Priorities, ThreadPriority(p) PROVE OneExit'
  BY <1>1, <1>2, <1>9 DEF ThreadPriority, program, Slot
<1>10. ASSUME NEW b \in BOOLEAN, ThreadNoTimers(b) PROVE OneExit'
  BY <1>1, <1>2, <1>10 DEF ThreadNoTimers, program, Slot
<1>11. ASSUME NEW time \in Grace, NEW lines \in Grace,
              ThreadInterrupt(time, lines)
       PROVE  OneExit'
  BY <1>11 DEF ThreadInterrupt, program, OneExit
<1>12. ASSUME NEW on \in BOOLEAN, PauseUnderlyingThread(on) PROVE OneExit'
  <2>1. g_array \in [Slots -> Slot]
    BY <1>0 DEF SlotsInv, SlotsTyped
  <2>2. \A i \in Slots : g_array'[i].by = g_array[i].by
    BY <1>12, <2>1 DEF PauseUnderlyingThread, Slot
  <2>3. QED
    BY <1>12, <2>2, KeptOneExit DEF PauseUnderlyingThread, program, ExitKept
<1>13. CASE CallExitApp
  BY <1>0, <1>1, <1>13, ExitAppOneExit DEF CallExitApp, SameExit, Slot
<1>14. QED
  BY <1>3, <1>4, <1>5, <1>6, <1>7, <1>8, <1>9, <1>10, <1>11, <1>12, <1>13
     DEF Script

\* A step of the pump preserves the invariant.
LEMMA PumpOneExit ==
  ASSUME IInv, OneExit, Pump
  PROVE  OneExit'
<1>0. SlotsInv /\ OtherTypes
  BY DEF IInv
<1>1. Top \in Slot
  BY <1>0, TopType
<1>2. ASSUME NEW rec, SetTop(rec), rec.by = Top.by,
             g_OnExitIsRunning' = g_OnExitIsRunning
      PROVE  OneExit'
  BY <1>0, <1>2, StoreKeepsExit, KeptOneExit DEF SameExit
<1>3. ASSUME NEW under, NEW rec, PushOver(under, rec), under.by = Top.by,
             rec.by # "exit", g_OnExitIsRunning' = g_OnExitIsRunning
      PROVE  OneExit'
  BY <1>0, <1>3, StoreKeepsExit, KeptOneExit DEF SameExit
<1>4. ASSUME NEW elapsed \in BOOLEAN, NEW filter \in Filters
      PROVE  [Refreshed(elapsed) EXCEPT !.filter = filter].by = Top.by
  BY <1>0, RefreshedType DEF Slot
<1>5. \A sent \in BOOLEAN : AfterLow(sent) \in Slot
                            /\ AfterLow(sent).by = Top.by
  BY <1>0, AfterLowType
<1>6. CASE EvaluateFilter
  <2>1. PICK elapsed \in BOOLEAN :
          SetTop([Refreshed(elapsed) EXCEPT
                    !.filter = IF IsInterruptible(elapsed)
                               THEN "all" ELSE "low"])
    BY <1>6 DEF EvaluateFilter
  <2>2. (IF IsInterruptible(elapsed) THEN "all" ELSE "low") \in Filters
    BY DEF Filters
  <2>3. QED
    BY <1>2, <1>4, <1>6, <2>1, <2>2 DEF EvaluateFilter, program
<1>7. CASE TakeEvent
  <2> DEFINE e     == Head(queue)
             under == [Top EXCEPT !.filter = "none"]
             crit  == [InitNewThread("criterion", 0, FALSE, TRUE) EXCEPT
                         !.held = e.prio]
             event == InitNewThread("event", e.prio, FALSE, FALSE)
  <2>1. /\ \/ SetTop(under)
           \/ PushOver(under, crit)
           \/ PushOver(under, event)
        /\ g_OnExitIsRunning' = g_OnExitIsRunning
    BY <1>7 DEF TakeEvent, program
  <2>2. under.by = Top.by
    BY <1>1 DEF Slot
  <2>3. crit.by # "exit" /\ event.by # "exit"
    BY DEF InitNewThread, Unused
  <2> HIDE DEF under, crit, event
  <2>4. QED
    BY <1>2, <1>3, <2>1, <2>2, <2>3
<1>8. ASSUME NEW p \in Priorities, TimerTick(p) PROVE OneExit'
  <2>1. PICK elapsed \in BOOLEAN :
          PushOver([Refreshed(elapsed) EXCEPT !.filter = "none"],
                   InitNewThread("timer", p, FALSE, FALSE))
    BY <1>8 DEF TimerTick
  <2>2. "none" \in Filters
    BY DEF Filters
  <2>3. InitNewThread("timer", p, FALSE, FALSE).by # "exit"
    BY DEF InitNewThread, Unused
  <2>4. QED
    BY <1>3, <1>4, <1>8, <2>1, <2>2, <2>3 DEF TimerTick, program
<1>9. ASSUME NEW sent \in BOOLEAN, MonitorMessage(sent) PROVE OneExit'
  <2>1. InitNewThread("monitor", 0, FALSE, FALSE).by # "exit"
    BY DEF InitNewThread, Unused
  <2>2. QED
    BY <1>3, <1>5, <1>9, <2>1 DEF MonitorMessage, program
<1>10. CASE CallbackInNewThread
  <2>1. InitNewThread("callback", 0, FALSE, FALSE).by # "exit"
    BY DEF InitNewThread, Unused
  <2>2. QED
    BY <1>0, <1>10, <2>1, StoreKeepsExit, KeptOneExit
       DEF CallbackInNewThread, program
<1>11. CASE FastCallback
  BY <1>1, <1>2, <1>11 DEF FastCallback, FastSlot, program, Slot
<1>12. CASE TrayPause
  <2>1. [AfterLow(FALSE) EXCEPT !.paused = ~@].by = Top.by
    BY <1>5 DEF Slot
  <2>2. QED
    BY <1>2, <1>12, <2>1 DEF TrayPause, program
<1>13. CASE ExitMessage
  BY <1>0, <1>5, <1>13, ExitAppOneExit DEF ExitMessage, SameExit
<1>14. CASE NothingToLaunch
  BY <1>2, <1>5, <1>14 DEF NothingToLaunch, program
<1>15. CASE PumpReturns
  BY <1>1, <1>2, <1>15 DEF PumpReturns, Slot
<1>16. QED
  BY <1>6, <1>7, <1>8, <1>9, <1>10, <1>11, <1>12, <1>13, <1>14, <1>15
     DEF Pump

\* ExitRefused ends the only exit thread and resets the flag.
LEMMA RefusedOneExit ==
  ASSUME SlotsInv, OtherTypes, OneExit, ExitRefused
  PROVE  OneExit'
<1>1. g \in Slots /\ g_array[g].by = "exit"
  BY DEF ExitRefused, Ended, SlotsInv, SlotsTyped, Top
<1>2. \A i \in Slots : g_array[i].by = "exit" => i = g
  BY <1>1 DEF OneExit
<1>3. \A i \in Slots : g_array'[i] = IF i = g THEN Unused ELSE g_array[i]
  BY DEF ExitRefused, ResumeUnderlyingThread, SlotsInv, SlotsTyped
<1>4. \A i \in Slots : g_array'[i].by # "exit"
  BY <1>2, <1>3, UnusedType
<1>5. QED
  BY <1>4 DEF ExitRefused, OneExit

\* A step that ends a subroutine preserves the invariant.
LEMMA EpilogueOneExit ==
  ASSUME IInv, OneExit, Epilogue
  PROVE  OneExit'
<1>0. SlotsInv /\ OtherTypes
  BY DEF IInv
<1>1. Top \in Slot
  BY <1>0, TopType
<1>2. ASSUME NEW rec, SetTop(rec), SameExit(rec),
             g_OnExitIsRunning' = g_OnExitIsRunning
      PROVE  OneExit'
  BY <1>0, <1>2, StoreKeepsExit, KeptOneExit
<1>3. ASSUME ResumeUnderlyingThread, Top.by # "exit",
             g_OnExitIsRunning' = g_OnExitIsRunning
      PROVE  OneExit'
  BY <1>0, <1>3, StoreKeepsExit, KeptOneExit
<1>4. CASE EndThread \/ EndTimers
  BY <1>3, <1>4 DEF EndThread, EndTimers, Ended, program
<1>5. CASE EndCriterion
  <2>1. Top.by = "criterion" /\ g_OnExitIsRunning' = g_OnExitIsRunning
    BY <1>5 DEF EndCriterion, Ended, program
  <2>2. \/ ResumeUnderlyingThread
        \/ SetTop(InitNewThread("event", Top.held, FALSE, FALSE))
    BY <1>5 DEF EndCriterion
  <2>3. SameExit(InitNewThread("event", Top.held, FALSE, FALSE))
    BY <2>1 DEF InitNewThread, Unused, SameExit
  <2>4. QED
    BY <1>2, <1>3, <2>1, <2>2, <2>3
<1>6. CASE EndAutoExec
  <2>1. g_array \in [Slots -> Slot]
    BY <1>0 DEF SlotsInv, SlotsTyped
  <2>2. \A i \in Slots : g_array'[i].by = g_array[i].by
    BY <1>6, <2>1 DEF EndAutoExec, Slot
  <2>3. QED
    BY <1>6, <2>2, KeptOneExit DEF EndAutoExec, ExitKept
<1>7. CASE EndFastCallback
  <2>1. PICK fast, pc, filter, paused, prio :
          SetTop([Top EXCEPT !.fast = fast, !.pc = pc, !.filter = filter,
                             !.paused = paused, !.prio = prio])
    BY <1>7 DEF EndFastCallback
  <2>2. QED
    BY <1>1, <1>2, <1>7, <2>1 DEF EndFastCallback, program, SameExit, Slot
<1>8. CASE NextExitHandler
  <2> DEFINE new == InitNewThread("exit", 0, TRUE, FALSE)
             rec == [new EXCEPT !.prev = Top.prev]
  <2>1. rec.by = "exit" /\ Top.by = "exit" /\ SetTop(rec)
    BY <1>8 DEF NextExitHandler, Ended, InitNewThread, Unused
  <2>2. QED
    BY <1>2, <1>8, <2>1 DEF NextExitHandler, program, SameExit
<1>9. CASE ExitRefused
  BY <1>0, <1>9, RefusedOneExit
<1>10. CASE ExitGranted
  BY <1>10 DEF ExitGranted, OneExit
<1>11. ASSUME NEW p \in Priorities, NextTimer(p) PROVE OneExit'
  <2>1. SameExit(InitNewThread("timer", p, FALSE, FALSE))
    BY <1>11 DEF NextTimer, Ended, InitNewThread, Unused, SameExit
  <2>2. QED
    BY <1>2, <1>11, <2>1 DEF NextTimer, program
<1>12. QED
  BY <1>4, <1>5, <1>6, <1>7, <1>8, <1>9, <1>10, <1>11 DEF Epilogue

\* Every step preserves the invariant.
LEMMA NextOneExit == IInv /\ OneExit /\ [Next]_vars => OneExit'
<1> SUFFICES ASSUME IInv, OneExit, [Next]_vars PROVE OneExit'
  OBVIOUS
<1>1. CASE UNCHANGED <<g_array, g_OnExitIsRunning>>
  BY <1>1 DEF OneExit
<1>2. CASE Script \/ Pump \/ Epilogue
  BY <1>2, ScriptOneExit, PumpOneExit, EpilogueOneExit
<1>3. QED
  BY <1>1, <1>2 DEF Next, PostEvent, Terminated, vars, program

\* It holds in every reachable state.
LEMMA OneExitAlways == Spec => []OneExit
<1>1. Init => OneExit
  BY DEF Init, OneExit, Unused
<1>2. QED
  BY <1>1, NextOneExit, Invariance, PTL DEF Spec

\* g_OnExitIsRunning (Script::ExitApp) is set exactly while one slot of
\* g_array runs the OnExit functions, however exits, refusals and other
\* launches follow each other.
THEOREM ExitRunsOnce == Spec => []OneExitThread
<1>1. IInv /\ OneExit => OneExitThread
  <2> SUFFICES ASSUME IInv, OneExit PROVE OneExitThread
    OBVIOUS
  <2> DEFINE Exits == {i \in Live : g_array[i].by = "exit"}
  <2>1. g \in Slots /\ Slots \subseteq Int /\ Live \subseteq Slots
    BY ConstantsAssumption
       DEF IInv, SlotsInv, SlotsTyped, Live, Slots, Additional
  <2>2. \A i \in Slots : i \notin Live => g_array[i].by # "exit"
    BY <2>1, UnusedType, ConstantsAssumption
       DEF IInv, SlotsInv, AboveUnused, Live, Slots, Additional, Unused
  <2>3. CASE g_OnExitIsRunning
    <3>1. PICK k \in Slots : \A i \in Slots : g_array[i].by = "exit" <=> i = k
      BY <2>3 DEF OneExit
    <3>2. Exits = {k}
      BY <2>1, <2>2, <3>1
    <3>3. QED
      BY <2>3, <3>2, FS_Singleton DEF OneExitThread
  <2>4. CASE ~g_OnExitIsRunning
    <3>1. Exits = {}
      BY <2>1, <2>4 DEF OneExit
    <3>2. QED
      BY <2>4, <3>1, FS_EmptySet DEF OneExitThread
  <2>5. QED
    BY <2>3, <2>4
<1>2. QED
  BY <1>1, Invariance, OneExitAlways, PTL

----------------------------------------------------------------------------
(* OnExit is not interrupted. *)

\* What a message filter or the timer check may hold back.  A criterion's
\* slot counts: it may go on to the event it allowed.
Deferrable == {"event", "timer", "criterion"}

\* No pump of the slot, not even one that a fast callback interrupted, has
\* SLEEP_WITHOUT_INTERRUPTION's epilogue ahead of it.
Silent(s) ==
  /\ s.pc # "send"
  /\ \A n \in 1 .. Len(s.fast) : s.fast[n].pc # "send"

\* No pump of the slot lets launch messages through.
Closed(s) ==
  /\ s.filter # "all"
  /\ \A n \in 1 .. Len(s.fast) : s.fast[n].filter # "all"

\* While slot k runs OnExit, the script is uninterruptible, no filter from k
\* up was evaluated before, and nothing deferrable is above k.
GuardedExit(k) ==
  /\ g_AllowInterruption = FALSE
  /\ \A j \in Slots : j >= k => Closed(g_array[j])
  /\ \A j \in Slots : j > k => g_array[j].by \notin Deferrable

\* The inductive form of OnExitUninterrupted.
ExitGuarded ==
  /\ \A i \in Slots : Silent(g_array[i])
  /\ \A k \in Slots : g_array[k].by = "exit" => GuardedExit(k)

\* The same for the records a step may store over the top one.
Quiet(rec) ==
  Silent(rec) /\ (g_AllowInterruption = FALSE /\ Closed(Top) => Closed(rec))

\* What the invariant says of the top slot.
LEMMA TopGuarded ==
  ASSUME SlotsInv, ExitGuarded
  PROVE  /\ Silent(Top) /\ Quiet(Top)
         /\ \A k \in Slots : g_array[k].by = "exit" =>
              /\ g_AllowInterruption = FALSE /\ Closed(Top)
              /\ k <= g /\ (k = g \/ Top.by \notin Deferrable)
<1>1. g \in Slots /\ Slots \subseteq Int
  BY ConstantsAssumption DEF SlotsInv, SlotsTyped, Slots, Additional
<1>2. Silent(Top)
  BY <1>1 DEF ExitGuarded, Top
<1>3. ASSUME NEW k \in Slots, g_array[k].by = "exit" PROVE k <= g
  <2>1. k > g => g_array[k] = Unused
    BY DEF SlotsInv, AboveUnused
  <2>2. Unused.by # "exit"
    BY SMT DEF Unused
  <2>3. ~(k > g)
    BY <1>3, <2>1, <2>2
  <2>4. QED
    BY <1>1, <2>3
<1>4. QED
  BY <1>1, <1>2, <1>3 DEF ExitGuarded, GuardedExit, Quiet, Top

\* Rewriting the top slot.
LEMMA SetTopGuarded ==
  ASSUME SlotsInv, ExitGuarded, NEW rec, SetTop(rec), Quiet(rec),
         rec.by = Top.by \/ (Top.by = "criterion" /\ rec.by # "exit"),
         g_AllowInterruption' \in {FALSE, g_AllowInterruption}
  PROVE  ExitGuarded'
<1>1. g \in Slots /\ Slots \subseteq Int /\ g_array \in [Slots -> Slot]
  BY ConstantsAssumption DEF SlotsInv, SlotsTyped, Slots, Additional
<1>2. \A i \in Slots : g_array'[i] = IF i = g THEN rec ELSE g_array[i]
  BY <1>1 DEF SetTop
<1>3. \A i \in Slots : Silent(g_array'[i])
  BY <1>2 DEF ExitGuarded, Quiet
<1>4. ASSUME NEW k \in Slots, g_array'[k].by = "exit" PROVE GuardedExit(k)'
  <2>1. g_array[k].by = "exit"
    BY <1>2, <1>4 DEF Top
  <2>2. /\ g_AllowInterruption = FALSE /\ Closed(Top) /\ k <= g
        /\ k = g \/ Top.by \notin Deferrable
    BY <2>1, TopGuarded
  <2>3. GuardedExit(k)
    BY <2>1 DEF ExitGuarded
  <2>4. \A j \in Slots : j >= k => Closed(g_array'[j])
    BY <1>2, <2>2, <2>3 DEF Quiet, GuardedExit
  <2>5. \A j \in Slots : j > k => g_array'[j].by \notin Deferrable
    BY <1>1, <1>2, <2>2, <2>3 DEF GuardedExit, Deferrable, Top
  <2>6. QED
    BY <2>2, <2>4, <2>5 DEF GuardedExit
<1>5. QED
  BY <1>3, <1>4 DEF ExitGuarded

\* Launching another thread than OnExit's.
LEMMA PushOverGuarded ==
  ASSUME SlotsInv, ExitGuarded, NEW under, NEW rec, PushOver(under, rec),
         Quiet(under), under.by = Top.by,
         Silent(rec), Closed(rec), rec.by # "exit",
         rec.by \in Deferrable => g_AllowInterruption \/ ~Closed(Top),
         g_AllowInterruption' = g_AllowInterruption
  PROVE  ExitGuarded'
<1>1. g \in Slots /\ Slots \subseteq Int /\ g_array \in [Slots -> Slot]
  BY ConstantsAssumption DEF SlotsInv, SlotsTyped, Slots, Additional
<1>2. \A i \in Slots : g_array'[i] = IF i = g + 1 THEN rec
                                     ELSE IF i = g THEN under ELSE g_array[i]
  BY <1>1 DEF PushOver
<1>3. \A i \in Slots : Silent(g_array'[i])
  BY <1>2 DEF ExitGuarded, Quiet
<1>4. ASSUME NEW k \in Slots, g_array'[k].by = "exit" PROVE GuardedExit(k)'
  <2>1. g_array[k].by = "exit"
    BY <1>2, <1>4 DEF Top
  <2>2. /\ g_AllowInterruption = FALSE /\ Closed(Top) /\ k <= g
        /\ k = g \/ Top.by \notin Deferrable
    BY <2>1, TopGuarded
  <2>3. GuardedExit(k)
    BY <2>1 DEF ExitGuarded
  <2>4. \A j \in Slots : j >= k => Closed(g_array'[j])
    BY <1>2, <2>2, <2>3 DEF Quiet, GuardedExit
  <2>5. \A j \in Slots : j > k => g_array'[j].by \notin Deferrable
    BY <1>1, <1>2, <2>2, <2>3 DEF GuardedExit, Top
  <2>6. QED
    BY <2>2, <2>4, <2>5 DEF GuardedExit
<1>5. QED
  BY <1>3, <1>4 DEF ExitGuarded

\* Popping a slot; when it is OnExit's, there is no other.
LEMMA ResumeGuarded ==
  ASSUME SlotsInv, ExitGuarded, ResumeUnderlyingThread,
         \/ g_AllowInterruption' = g_AllowInterruption
         \/ \A i \in Slots : g_array[i].by = "exit" => i = g
  PROVE  ExitGuarded'
<1>1. g \in Slots /\ g_array \in [Slots -> Slot]
  BY DEF SlotsInv, SlotsTyped
<1>2. \A i \in Slots : g_array'[i] = IF i = g THEN Unused ELSE g_array[i]
  BY <1>1 DEF ResumeUnderlyingThread
<1>3. /\ Silent(Unused) /\ Closed(Unused)
      /\ Unused.by \notin Deferrable /\ Unused.by # "exit"
  BY DEF Silent, Closed, Unused, Deferrable
<1>4. \A i \in Slots : Silent(g_array'[i])
  BY <1>2, <1>3 DEF ExitGuarded
<1>5. ASSUME NEW k \in Slots, g_array'[k].by = "exit" PROVE GuardedExit(k)'
  <2>1. k # g /\ g_array[k].by = "exit"
    BY <1>2, <1>3, <1>5
  <2>2. GuardedExit(k) /\ g_AllowInterruption' = g_AllowInterruption
    BY <2>1 DEF ExitGuarded
  <2>3. QED
    BY <1>2, <1>3, <2>2 DEF GuardedExit
<1>6. QED
  BY <1>4, <1>5 DEF ExitGuarded

\* ExitApp launches OnExit's thread when there is none.
LEMMA ExitAppGuarded ==
  ASSUME SlotsInv, OtherTypes, OneExit, ExitGuarded,
         NEW under, Silent(under), under.by = Top.by, ExitApp(under)
  PROVE  ExitGuarded'
<1>1. g \in Slots /\ Slots \subseteq Int /\ g_array \in [Slots -> Slot]
  BY ConstantsAssumption DEF SlotsInv, SlotsTyped, Slots, Additional
<1>2. CASE ExitsAtOnce
  BY <1>2 DEF ExitApp, ExitGuarded, GuardedExit
<1>3. CASE ~ExitsAtOnce
  <2> DEFINE new == InitNewThread("exit", 0, TRUE, FALSE)
             rec == [new EXCEPT !.prev = g_AllowInterruption]
  <2>1. PushOver(under, rec) /\ g_AllowInterruption' = FALSE
    BY <1>3 DEF ExitApp
  <2>2. Silent(rec) /\ Closed(rec)
    BY DEF InitNewThread, Unused, Silent, Closed
  <2>3. \A i \in Slots : g_array[i].by # "exit"
    BY <1>3 DEF ExitsAtOnce, OneExit
  <2> HIDE DEF rec
  <2>4. \A i \in Slots : g_array'[i] = IF i = g + 1 THEN rec
                                       ELSE IF i = g THEN under ELSE g_array[i]
    BY <1>1, <2>1 DEF PushOver
  <2>5. \A i \in Slots : Silent(g_array'[i])
    BY <2>2, <2>4 DEF ExitGuarded
  <2>6. ASSUME NEW k \in Slots, g_array'[k].by = "exit" PROVE GuardedExit(k)'
    <3>1. k = g + 1
      BY <1>1, <2>3, <2>4, <2>6 DEF Top
    <3>2. \A j \in Slots : j > k => g_array'[j] = Unused
      BY <1>1, <2>4, <3>1 DEF SlotsInv, AboveUnused
    <3>3. Closed(Unused) /\ Unused.by \notin Deferrable
      BY DEF Closed, Unused, Deferrable
    <3>4. Closed(g_array'[k])
      BY <2>2, <2>4, <3>1
    <3>5. \A j \in Slots : j >= k => Closed(g_array'[j])
      BY <1>1, <3>2, <3>3, <3>4
    <3>6. QED
      BY <2>1, <3>2, <3>3, <3>5 DEF GuardedExit
  <2>7. QED
    BY <2>5, <2>6 DEF ExitGuarded
<1>4. QED
  BY <1>2, <1>3

\* Changing none of a slot's pc, filter and fast keeps it silent and closed.
SamePumps(s, t) == s.pc = t.pc /\ s.filter = t.filter /\ s.fast = t.fast

\* A record like the top one, but with another pc or with no filter.
LEMMA QuietUpdates ==
  ASSUME SlotsInv, ExitGuarded, NEW rec,
         rec.fast = Top.fast, rec.pc # "send" \/ rec.pc = Top.pc,
         rec.filter # "all" \/ rec.filter = Top.filter
  PROVE  Quiet(rec)
BY TopGuarded DEF Quiet, Silent, Closed

\* A step of the running script, which has no Send in it, keeps OnExit
\* guarded.
LEMMA ScriptGuarded ==
  ASSUME IInv, OneExit, ExitGuarded, Script, "send" \notin ScriptOps
  PROVE  ExitGuarded'
<1>0. SlotsInv /\ OtherTypes
  BY DEF IInv
<1>1. Top \in Slot
  BY <1>0, TopType
<1>2. ASSUME NEW rec, SetTop(rec), rec.by = Top.by, rec.fast = Top.fast,
             rec.pc # "send" \/ rec.pc = Top.pc, rec.filter = Top.filter,
             UNCHANGED g_AllowInterruption
      PROVE  ExitGuarded'
  BY <1>0, <1>2, QuietUpdates, SetTopGuarded
<1>3. CASE Peek
  BY <1>1, <1>2, <1>3 DEF Peek, program, Slot
<1>4. CASE RunLine
  <2>1. PICK many \in BOOLEAN, next \in {"expr", "end"} :
          SetTop([CountLine(Top, many) EXCEPT
                    !.pc = IF Top.paused THEN "unpause" ELSE next])
    BY <1>4 DEF RunLine
  <2> DEFINE p == IF Top.paused THEN "unpause" ELSE next
  <2>2. CountLine(Top, many) \in Slot /\ CountLine(Top, many).by = Top.by
    BY <1>0, <1>1, CountLineType DEF OtherTypes
  <2>3. /\ CountLine(Top, many).fast = Top.fast
        /\ CountLine(Top, many).filter = Top.filter
    BY <1>1 DEF CountLine, Slot
  <2>4. p # "send"
    OBVIOUS
  <2> HIDE DEF p
  <2>5. QED
    BY <1>2, <1>4, <2>1, <2>2, <2>3, <2>4 DEF RunLine, program, Slot, p
<1>5. CASE NextLine \/ ReturnExpr \/ Sleep
  BY <1>1, <1>2, <1>5 DEF NextLine, ReturnExpr, Sleep, program, Slot
<1>6. CASE Send
  BY <1>6 DEF Send
<1>7. CASE PauseCurrentThread
  BY <1>1, <1>2, <1>7 DEF PauseCurrentThread, program, Slot
<1>8. ASSUME NEW on \in BOOLEAN, Critical(on) PROVE ExitGuarded'
  BY <1>1, <1>2, <1>8 DEF Critical, MadeCritical, program, Slot
<1>9. ASSUME NEW p \in Priorities, ThreadPriority(p) PROVE ExitGuarded'
  BY <1>1, <1>2, <1>9 DEF ThreadPriority, program, Slot
<1>10. ASSUME NEW b \in BOOLEAN, ThreadNoTimers(b) PROVE ExitGuarded'
  BY <1>1, <1>2, <1>10 DEF ThreadNoTimers, program, Slot
<1>11. ASSUME NEW time \in Grace, NEW lines \in Grace,
              ThreadInterrupt(time, lines)
       PROVE  ExitGuarded'
  BY <1>11 DEF ThreadInterrupt, program, ExitGuarded, GuardedExit
<1>12. ASSUME NEW on \in BOOLEAN, PauseUnderlyingThread(on)
       PROVE  ExitGuarded'
  <2>1. g_array \in [Slots -> Slot]
    BY <1>0 DEF SlotsInv, SlotsTyped
  <2>2. \A i \in Slots : /\ g_array'[i].by = g_array[i].by
                         /\ SamePumps(g_array'[i], g_array[i])
    BY <1>12, <2>1 DEF PauseUnderlyingThread, SamePumps, Slot
  <2>3. g_AllowInterruption' = g_AllowInterruption
    BY <1>12 DEF PauseUnderlyingThread, program
  <2>4. QED
    BY <2>2, <2>3 DEF ExitGuarded, GuardedExit, SamePumps, Silent, Closed
<1>13. CASE CallExitApp
  <2> DEFINE under == [Top EXCEPT !.pc = "end"]
  <2>1. under.by = Top.by /\ under.fast = Top.fast /\ under.pc = "end"
        /\ under.filter = Top.filter
    BY <1>1 DEF Slot
  <2>2. ExitApp(under)
    BY <1>13 DEF CallExitApp
  <2> HIDE DEF under
  <2>3. Quiet(under)
    BY <1>0, <2>1, QuietUpdates
  <2>4. QED
    BY <1>0, <2>1, <2>2, <2>3, ExitAppGuarded DEF Quiet
<1>14. QED
  BY <1>3, <1>4, <1>5, <1>6, <1>7, <1>8, <1>9, <1>10, <1>11, <1>12, <1>13
     DEF Script

\* A new thread has no pump yet.
LEMMA NewIsQuiet ==
  ASSUME NEW by, NEW prio, NEW skip, NEW crit
  PROVE  /\ Silent(InitNewThread(by, prio, skip, crit))
         /\ Closed(InitNewThread(by, prio, skip, crit))
BY DEF InitNewThread, Unused, Silent, Closed

\* A step of the pump keeps OnExit guarded.
LEMMA PumpGuarded ==
  ASSUME IInv, OneExit, ExitGuarded, Pump
  PROVE  ExitGuarded'
<1>0. SlotsInv /\ OtherTypes
  BY DEF IInv
<1>1. Top \in Slot
  BY <1>0, TopType
<1>2. ASSUME NEW rec, SetTop(rec), rec.by = Top.by, Quiet(rec),
             UNCHANGED g_AllowInterruption
      PROVE  ExitGuarded'
  BY <1>0, <1>2, SetTopGuarded
<1>3. ASSUME NEW under, NEW rec, PushOver(under, rec), Quiet(under),
             under.by = Top.by, Silent(rec), Closed(rec), rec.by # "exit",
             rec.by \in Deferrable => g_AllowInterruption \/ ~Closed(Top),
             UNCHANGED g_AllowInterruption
      PROVE  ExitGuarded'
  BY <1>0, <1>3, PushOverGuarded
<1>4. ASSUME NEW elapsed \in BOOLEAN, NEW filter \in Filters
      PROVE  LET rec == [Refreshed(elapsed) EXCEPT !.filter = filter]
             IN  /\ rec.by = Top.by /\ rec.fast = Top.fast
                 /\ rec.pc = Top.pc /\ rec.filter = filter
  <2>1. Refreshed(elapsed) \in Slot
    BY <1>0, RefreshedType
  <2>2. /\ Refreshed(elapsed).by = Top.by
        /\ Refreshed(elapsed).fast = Top.fast
        /\ Refreshed(elapsed).pc = Top.pc
    BY <1>1 DEF Refreshed, Slot
  <2>3. QED
    BY <2>1, <2>2 DEF Slot
<1>5. ASSUME NEW sent \in BOOLEAN
      PROVE  AfterLow(sent).by = Top.by /\ Quiet(AfterLow(sent))
  <2>1. /\ AfterLow(sent).by = Top.by /\ AfterLow(sent).fast = Top.fast
        /\ AfterLow(sent).pc = Top.pc
        /\ AfterLow(sent).filter \in {"none", Top.filter}
    BY <1>1 DEF AfterLow, Slot
  <2>2. QED
    BY <1>0, <2>1, QuietUpdates
<1>6. CASE EvaluateFilter
  <2>1. PICK elapsed \in BOOLEAN :
          SetTop([Refreshed(elapsed) EXCEPT
                    !.filter = IF IsInterruptible(elapsed)
                               THEN "all" ELSE "low"])
    BY <1>6 DEF EvaluateFilter
  <2> DEFINE f == IF IsInterruptible(elapsed) THEN "all" ELSE "low"
             rec == [Refreshed(elapsed) EXCEPT !.filter = f]
  <2>2. f \in Filters /\ (g_AllowInterruption = FALSE => f = "low")
    BY DEF Filters, IsInterruptible, InterruptibleInEmergency
  <2>3. /\ rec.by = Top.by /\ rec.fast = Top.fast
        /\ rec.pc = Top.pc /\ rec.filter = f /\ SetTop(rec)
    BY <1>4, <2>1, <2>2
  <2> HIDE DEF rec, f
  <2>4. Quiet(rec)
    BY <1>0, <2>2, <2>3, TopGuarded DEF Quiet, Silent, Closed
  <2>5. QED
    BY <1>2, <1>6, <2>3, <2>4 DEF EvaluateFilter, program
<1>7. CASE TakeEvent
  <2> DEFINE e     == Head(queue)
             under == [Top EXCEPT !.filter = "none"]
             crit  == [InitNewThread("criterion", 0, FALSE, TRUE) EXCEPT
                         !.held = e.prio]
             event == InitNewThread("event", e.prio, FALSE, FALSE)
  <2>1. /\ \/ SetTop(under)
           \/ PushOver(under, crit)
           \/ PushOver(under, event)
        /\ UNCHANGED g_AllowInterruption
        /\ ~Closed(Top)
    BY <1>7 DEF TakeEvent, program, Closed
  <2>2. /\ under.by = Top.by /\ under.fast = Top.fast
        /\ under.pc = Top.pc /\ under.filter = "none"
    BY <1>1 DEF Slot
  <2>3. /\ crit.by # "exit" /\ event.by # "exit"
        /\ Silent(crit) /\ Silent(event) /\ Closed(crit) /\ Closed(event)
    BY DEF InitNewThread, Unused, Silent, Closed
  <2> HIDE DEF under, crit, event
  <2>4. Quiet(under)
    BY <1>0, <2>2, QuietUpdates
  <2>5. QED
    BY <1>2, <1>3, <2>1, <2>2, <2>3, <2>4
<1>8. ASSUME NEW p \in Priorities, TimerTick(p) PROVE ExitGuarded'
  <2>1. PICK elapsed \in BOOLEAN :
          /\ TimersAllowed(elapsed)
          /\ PushOver([Refreshed(elapsed) EXCEPT !.filter = "none"],
                      InitNewThread("timer", p, FALSE, FALSE))
    BY <1>8 DEF TimerTick
  <2> DEFINE under == [Refreshed(elapsed) EXCEPT !.filter = "none"]
             rec   == InitNewThread("timer", p, FALSE, FALSE)
  <2>2. "none" \in Filters
    BY DEF Filters
  <2>3. /\ under.by = Top.by /\ under.fast = Top.fast
        /\ under.pc = Top.pc /\ under.filter = "none"
    BY <1>4, <2>2
  <2>4. rec.by # "exit" /\ Silent(rec) /\ Closed(rec)
    BY DEF InitNewThread, Unused, Silent, Closed
  <2>5. g_AllowInterruption
    BY <2>1 DEF TimersAllowed, IsInterruptible, InterruptibleInEmergency
  <2>6. PushOver(under, rec)
    BY <2>1
  <2> HIDE DEF under, rec
  <2>7. Quiet(under)
    BY <1>0, <2>3, QuietUpdates
  <2>8. QED
    BY <1>3, <1>8, <2>3, <2>4, <2>5, <2>6, <2>7 DEF TimerTick, program
<1>9. ASSUME NEW sent \in BOOLEAN, MonitorMessage(sent) PROVE ExitGuarded'
  <2> DEFINE rec == InitNewThread("monitor", 0, FALSE, FALSE)
  <2>1. Silent(rec) /\ Closed(rec) /\ rec.by = "monitor"
    BY DEF InitNewThread, Unused, Silent, Closed
  <2>2. PushOver(AfterLow(sent), rec)
    BY <1>9 DEF MonitorMessage
  <2> HIDE DEF rec
  <2>3. QED
    BY <1>3, <1>5, <1>9, <2>1, <2>2 DEF MonitorMessage, program, Deferrable
<1>10. CASE CallbackInNewThread
  <2> DEFINE rec == InitNewThread("callback", 0, FALSE, FALSE)
  <2>1. Silent(rec) /\ Closed(rec) /\ rec.by = "callback"
    BY DEF InitNewThread, Unused, Silent, Closed
  <2>2. [g_array EXCEPT ![g] = Top] = g_array
    BY <1>0, TopType DEF SlotsInv, SlotsTyped, Top
  <2>3. PushOver(Top, rec)
    BY <1>10, <2>2 DEF CallbackInNewThread, Push, PushOver
  <2> HIDE DEF rec
  <2>4. Quiet(Top)
    BY <1>0, TopGuarded
  <2>5. QED
    BY <1>3, <1>10, <2>1, <2>3, <2>4
       DEF CallbackInNewThread, program, Deferrable
<1>11. CASE FastCallback
  <2> DEFINE new == Append(Top.fast, Interrupted)
  <2>1. SetTop(FastSlot) /\ UNCHANGED g_AllowInterruption
    BY <1>11 DEF FastCallback, program
  <2>2. /\ FastSlot.by = Top.by /\ FastSlot.pc = "line"
        /\ FastSlot.filter = "none" /\ FastSlot.fast = new
    BY <1>1 DEF FastSlot, Slot
  <2>3. Top.fast \in Seq(Saved)
    BY <1>1, SlotFields
  <2>4. Interrupted \in Saved
    BY <1>1, <1>11 DEF FastCallback, CallbackPoint, Pumping, Running,
                       Interrupted, Saved, Slot
  <2>5. /\ Len(new) = Len(Top.fast) + 1 /\ Len(Top.fast) \in Nat
        /\ \A n \in 1 .. Len(new) :
             new[n] = IF n = Len(new) THEN Interrupted ELSE Top.fast[n]
    BY <2>3, <2>4
  <2> HIDE DEF new
  <2>6. /\ Interrupted.pc = Top.pc /\ Interrupted.filter = Top.filter
    BY DEF Interrupted
  <2>7. Silent(Top)
    BY <1>0, TopGuarded
  <2>8. Silent(FastSlot)
    BY <2>2, <2>5, <2>6, <2>7 DEF Silent
  <2>9. Closed(Top) => Closed(FastSlot)
    BY <2>2, <2>5, <2>6 DEF Closed
  <2>10. QED
    BY <1>2, <2>1, <2>2, <2>8, <2>9 DEF Quiet
<1>12. CASE TrayPause
  <2> DEFINE rec == [AfterLow(FALSE) EXCEPT !.paused = ~@]
  <2>1. AfterLow(FALSE) \in Slot
    BY <1>0, AfterLowType
  <2>2. rec.by = AfterLow(FALSE).by /\ SamePumps(rec, AfterLow(FALSE))
    BY <2>1 DEF SamePumps, Slot
  <2>3. SetTop(rec) /\ UNCHANGED g_AllowInterruption
    BY <1>12 DEF TrayPause, program
  <2> HIDE DEF rec
  <2>4. Quiet(rec) /\ rec.by = Top.by
    BY <1>5, <2>2 DEF Quiet, Silent, Closed, SamePumps
  <2>5. QED
    BY <1>2, <2>3, <2>4
<1>13. CASE ExitMessage
  BY <1>0, <1>5, <1>13, ExitAppGuarded DEF ExitMessage, Quiet
<1>14. CASE NothingToLaunch
  BY <1>2, <1>5, <1>14 DEF NothingToLaunch, program
<1>15. CASE PumpReturns
  <2> DEFINE rec == [Top EXCEPT !.pc = IF Top.pc = "peek" THEN "check"
                                       ELSE "expr"]
  <2>1. /\ rec.by = Top.by /\ rec.fast = Top.fast /\ rec.pc # "send"
        /\ rec.filter = Top.filter
    BY <1>1 DEF Slot
  <2>2. SetTop(rec)
    BY <1>15 DEF PumpReturns
  <2> HIDE DEF rec
  <2>3. Quiet(rec)
    BY <1>0, <2>1, QuietUpdates
  <2>4. Top.pc # "send"
    BY <1>0, TopGuarded DEF Silent
  <2>5. UNCHANGED g_AllowInterruption
    BY <1>15, <2>4 DEF PumpReturns
  <2>6. QED
    BY <1>2, <2>1, <2>2, <2>3, <2>5
<1>16. QED
  BY <1>6, <1>7, <1>8, <1>9, <1>10, <1>11, <1>12, <1>13, <1>14, <1>15
     DEF Pump

\* A step that ends a subroutine keeps OnExit guarded, or ends it.
LEMMA EpilogueGuarded ==
  ASSUME IInv, OneExit, ExitGuarded, Epilogue
  PROVE  ExitGuarded'
<1>0. SlotsInv /\ OtherTypes
  BY DEF IInv
<1>1. Top \in Slot /\ g \in Slots
  BY <1>0, TopType
<1>2. ASSUME NEW rec, SetTop(rec), Silent(rec), Closed(rec),
             rec.by = Top.by \/ (Top.by = "criterion" /\ rec.by # "exit"),
             UNCHANGED g_AllowInterruption
      PROVE  ExitGuarded'
  BY <1>0, <1>2, SetTopGuarded DEF Quiet
<1>3. CASE EndThread \/ EndTimers
  BY <1>0, <1>3, ResumeGuarded DEF EndThread, EndTimers, program
<1>4. CASE EndCriterion
  <2>1. UNCHANGED g_AllowInterruption /\ Top.by = "criterion"
    BY <1>4 DEF EndCriterion, Ended, program
  <2>2. CASE ResumeUnderlyingThread
    BY <1>0, <2>1, <2>2, ResumeGuarded
  <2>3. CASE SetTop(InitNewThread("event", Top.held, FALSE, FALSE))
    <3> DEFINE rec == InitNewThread("event", Top.held, FALSE, FALSE)
    <3>1. rec.by = "event" /\ Silent(rec) /\ Closed(rec)
      BY DEF InitNewThread, Unused, Silent, Closed
    <3> HIDE DEF rec
    <3>2. QED
      BY <1>2, <2>1, <2>3, <3>1 DEF rec
  <2>4. QED
    BY <1>4, <2>2, <2>3 DEF EndCriterion
<1>5. CASE EndAutoExec
  <2>1. g_array \in [Slots -> Slot]
    BY <1>0 DEF SlotsInv, SlotsTyped
  <2>2. \A i \in Slots : /\ g_array'[i].by = g_array[i].by
                         /\ g_array'[i].filter = g_array[i].filter
                         /\ g_array'[i].fast = g_array[i].fast
                         /\ g_array'[i].pc \in {"idle", g_array[i].pc}
    BY <1>5, <2>1 DEF EndAutoExec, Slot
  <2>3. UNCHANGED g_AllowInterruption
    BY <1>5 DEF EndAutoExec
  <2>4. QED
    BY <2>2, <2>3 DEF ExitGuarded, GuardedExit, Silent, Closed
<1>6. CASE EndFastCallback
  <2> DEFINE last == Len(Top.fast)
             s    == Top.fast[last]
             rest == SubSeq(Top.fast, 1, last - 1)
  <2>1. PICK paused, prio :
          SetTop([Top EXCEPT !.fast = rest, !.pc = s.pc, !.filter = s.filter,
                             !.paused = paused, !.prio = prio])
    BY <1>6 DEF EndFastCallback
  <2>2. UNCHANGED g_AllowInterruption
    BY <1>6 DEF EndFastCallback, program
  <2> DEFINE rec == [Top EXCEPT !.fast = rest, !.pc = s.pc,
                                !.filter = s.filter,
                                !.paused = paused, !.prio = prio]
  <2>3. Top.fast \in Seq(Saved) /\ Top.fast # <<>>
    BY <1>1, <1>6, SlotFields DEF EndFastCallback
  <2>4. /\ last \in Nat \ {0} /\ Len(rest) = last - 1
        /\ \A n \in 1 .. last - 1 : rest[n] = Top.fast[n]
    BY <2>3
  <2> HIDE DEF s, rest, last
  <2>5. /\ rec.by = Top.by /\ rec.fast = rest /\ rec.pc = s.pc
        /\ rec.filter = s.filter /\ SetTop(rec)
    BY <1>1, <2>1 DEF Slot
  <2> HIDE DEF rec
  <2>6. /\ last \in 1 .. Len(Top.fast) /\ s = Top.fast[last]
        /\ \A n \in 1 .. Len(rest) : n \in 1 .. Len(Top.fast)
    BY <2>4 DEF last, s
  <2>7. Silent(Top)
    BY <1>0, TopGuarded
  <2>8. Silent(rec)
    BY <2>4, <2>5, <2>6, <2>7 DEF Silent
  <2>9. Closed(Top) => Closed(rec)
    BY <2>4, <2>5, <2>6 DEF Closed
  <2>10. QED
    BY <1>0, <2>2, <2>5, <2>8, <2>9, SetTopGuarded DEF Quiet
<1>7. CASE NextExitHandler
  <2> DEFINE rec == [InitNewThread("exit", 0, TRUE, FALSE)
                       EXCEPT !.prev = Top.prev]
  <2>1. rec.by = "exit" /\ Silent(rec) /\ Closed(rec)
    BY DEF InitNewThread, Unused, Silent, Closed
  <2>2. SetTop(rec) /\ Top.by = "exit" /\ UNCHANGED g_AllowInterruption
    BY <1>7 DEF NextExitHandler, Ended, program
  <2> HIDE DEF rec
  <2>3. QED
    BY <1>2, <2>1, <2>2
<1>8. CASE ExitRefused
  <2>1. \A i \in Slots : g_array[i].by = "exit" => i = g
    BY <1>1, <1>8 DEF ExitRefused, Ended, Top, OneExit
  <2>2. QED
    BY <1>0, <1>8, <2>1, ResumeGuarded DEF ExitRefused
<1>9. CASE ExitGranted
  BY <1>9 DEF ExitGranted, ExitGuarded, GuardedExit
<1>10. ASSUME NEW p \in Priorities, NextTimer(p) PROVE ExitGuarded'
  <2> DEFINE rec == InitNewThread("timer", p, FALSE, FALSE)
  <2>1. rec.by = "timer" /\ Silent(rec) /\ Closed(rec)
    BY DEF InitNewThread, Unused, Silent, Closed
  <2>2. SetTop(rec) /\ Top.by = "timer" /\ UNCHANGED g_AllowInterruption
    BY <1>10 DEF NextTimer, Ended, program
  <2> HIDE DEF rec
  <2>3. QED
    BY <1>2, <2>1, <2>2
<1>11. QED
  BY <1>3, <1>4, <1>5, <1>6, <1>7, <1>8, <1>9, <1>10 DEF Epilogue

\* While OnExit's functions run (Script::ExitApp sets g_AllowInterruption to
\* FALSE for them), no queued event and no timer is launched above them, at any
\* depth: not by a filter evaluated before, not by a callback's own pump, not
\* by a criterion that was being evaluated.  A function that sends keys ends
\* this, since SendKeys sets the flag to TRUE when it is done: hence the
\* hypothesis.
THEOREM ExitUninterrupted ==
  ASSUME "send" \notin ScriptOps
  PROVE  Spec => []OnExitUninterrupted
<1>1. Init => ExitGuarded
  BY DEF Init, ExitGuarded, Unused, Silent
<1>2. IInv /\ OneExit /\ ExitGuarded /\ [Next]_vars => ExitGuarded'
  <2> SUFFICES ASSUME IInv, OneExit, ExitGuarded, [Next]_vars
               PROVE  ExitGuarded'
    OBVIOUS
  <2>1. CASE UNCHANGED <<g_array, g_AllowInterruption>>
    BY <2>1 DEF ExitGuarded, GuardedExit
  <2>2. CASE Script \/ Pump \/ Epilogue
    BY <2>2, ScriptGuarded, PumpGuarded, EpilogueGuarded
  <2>3. QED
    BY <2>1, <2>2 DEF Next, PostEvent, Terminated, vars, program
<1>3. IInv /\ ExitGuarded => OnExitUninterrupted
  <2> SUFFICES ASSUME IInv, ExitGuarded, NEW i \in Live,
                      g_array[i].by = "exit", NEW j \in i + 1 .. g
               PROVE  g_array[j].by \notin {"event", "timer"}
    BY DEF OnExitUninterrupted
  <2>1. i \in Slots /\ j \in Slots /\ j > i
    BY ConstantsAssumption
       DEF IInv, SlotsInv, SlotsTyped, Live, Slots, Additional
  <2>2. QED
    BY <2>1 DEF ExitGuarded, GuardedExit, Deferrable
<1>4. QED
  BY <1>1, <1>2, <1>3, Invariance, OneExitAlways, PTL DEF Spec

----------------------------------------------------------------------------
(***************************************************************************)
(* What every step does to the stack of threads, for every value of the    *)
(* constants, and what follows from it: the slots implement ThreadStack,   *)
(* priorities and Thread "NoTimers" are respected, and no paused thread is *)
(* forgotten by g_nPausedThreads.                                          *)
(*                                                                         *)
(* Each action takes one of five shapes.  The lemmas about Script, Pump    *)
(* and Epilogue say which; the theorems need the shapes only.              *)
(***************************************************************************)

\* Two records agree on what the script knows of a thread.
SameThread(s, t) ==
  /\ s.by = t.by /\ s.prio = t.prio
  /\ s.critical = t.critical /\ s.timers = t.timers

\* Every slot but slot k holds the thread it held.
OthersKept(k) ==
  \A i \in Slots : i # k => SameThread(g_array'[i], g_array[i])

\* The running thread goes on, or its slot to the next subroutine; a timer's
\* slot does not lose priority unless the script asked for it.
Continues ==
  /\ UNCHANGED <<g, mAutoExecSectionIsRunning>>
  /\ OthersKept(g)
  /\ g_array'[g].by = Top.by
  /\ Launched => Top.by = "timer" /\ g_array'[g].prio >= Top.prio
  /\ Top.by = "timer" /\ "priority" \notin ScriptOps
       => g_array'[g].prio >= Top.prio

\* The slot of a criterion goes on to the event it allowed.
Proceeds ==
  /\ UNCHANGED <<g, mAutoExecSectionIsRunning>>
  /\ OthersKept(g)
  /\ Top.by = "criterion" /\ g_array'[g].by = "event"
  /\ g_array'[g].prio >= g_array[g - 1].prio

\* A new thread interrupts the running one.
Interrupts ==
  /\ g' = g + 1 /\ g + 1 \in Slots
  /\ UNCHANGED mAutoExecSectionIsRunning
  /\ OthersKept(g + 1)
  /\ LET new == g_array'[g + 1]
     IN  /\ new.by \notin {"none", "auto"}
         /\ IF new.by = "exit" THEN ~g_OnExitIsRunning ELSE ~ThreadLimitReached
         /\ new.by \in {"event", "timer"} => new.prio >= Top.prio
         /\ new.by = "timer"
              => "timer" \in Arrivals /\ (Top.timers \/ g_nThreads = 0)

\* The running thread ends.
Ends ==
  /\ g > 0 /\ g' = g - 1
  /\ UNCHANGED mAutoExecSectionIsRunning
  /\ OthersKept(g)
  /\ g_array'[g] = Unused

\* The auto-execute thread ends.
BecomesIdle ==
  /\ g = 0 /\ g' = 0
  /\ mAutoExecSectionIsRunning /\ ~mAutoExecSectionIsRunning'
  /\ OthersKept(0)
  /\ g_array'[0].by = "auto"

StackStep == Continues \/ Proceeds \/ Interrupts \/ Ends \/ BecomesIdle

\* What a step does to the paused slots and their count: none more is paused,
\* or one and the count rises, or one is unpaused and the count falls.
PausedStep ==
  \/ /\ g_nPausedThreads' = g_nPausedThreads
     /\ \A i \in Slots : g_array'[i].paused => g_array[i].paused
  \/ /\ g_nPausedThreads' = g_nPausedThreads + 1
     /\ \E k \in Slots : \A i \in Slots :
          i # k /\ g_array'[i].paused => g_array[i].paused
  \/ /\ g_nPausedThreads' = g_nPausedThreads - 1
     /\ \A i \in Slots : g_array'[i].paused => g_array[i].paused
     /\ \E k \in Slots : g_array[k].paused /\ ~g_array'[k].paused

----------------------------------------------------------------------------
(* From the records an action stores to the shape of the step. *)

\* The priorities can be compared.
LEMMA PrioIsNumber ==
  ASSUME NEW s \in Slot
  PROVE  s.prio \in Int
<1>1. s.prio \in Prios
  BY DEF Slot
<1>2. QED
  BY <1>1, ConstantsAssumption DEF Prios

\* How the record stored in the top slot may differ from the one before.
TopContinues(rec) ==
  /\ rec.by = Top.by
  /\ Top.by = "timer" /\ "priority" \notin ScriptOps => rec.prio >= Top.prio
  /\ Top.pc = "end" /\ rec.pc = "line" /\ rec.by \in {"event", "timer"}
       => Top.by = "timer" /\ rec.prio >= Top.prio

\* Rewriting the top slot continues its thread.
LEMMA SetTopShape ==
  ASSUME SlotsInv, NEW rec, SetTop(rec), TopContinues(rec),
         UNCHANGED mAutoExecSectionIsRunning
  PROVE  StackStep
<1>1. g \in Slots /\ g_array \in [Slots -> Slot] /\ g \in Int
  BY ConstantsAssumption DEF SlotsInv, SlotsTyped, Slots, Additional
<1>2. g' = g /\ g_array' = [g_array EXCEPT ![g] = rec]
  BY DEF SetTop
<1>3. OthersKept(g)
  BY <1>1, <1>2 DEF OthersKept, SameThread
<1>4. g_array'[g] = rec /\ ~(g' > g)
  BY <1>1, <1>2
<1>5. Launched => Top.pc = "end" /\ rec.pc = "line"
                    /\ rec.by \in {"event", "timer"}
  BY <1>2, <1>4 DEF Launched
<1>6. QED
  BY <1>2, <1>3, <1>4, <1>5 DEF TopContinues, Continues, StackStep

\* Rewriting the top slot, as far as paused slots are concerned.
LEMMA SetTopPaused ==
  ASSUME SlotsInv, NEW rec \in Slot, SetTop(rec),
         \/ g_nPausedThreads' = g_nPausedThreads
              /\ (rec.paused => Top.paused)
         \/ g_nPausedThreads' = g_nPausedThreads + 1
         \/ g_nPausedThreads' = g_nPausedThreads - 1
              /\ Top.paused /\ ~rec.paused
  PROVE  PausedStep
<1>1. g \in Slots /\ g_array \in [Slots -> Slot]
  BY DEF SlotsInv, SlotsTyped
<1>2. \A i \in Slots : i # g => g_array'[i] = g_array[i]
  BY <1>1 DEF SetTop
<1>3. g_array'[g] = rec
  BY <1>1 DEF SetTop
<1>4. QED
  BY <1>1, <1>2, <1>3 DEF PausedStep, Top

\* What a new thread's record promises.
NewThread(rec) ==
  /\ rec.by \notin {"none", "auto"} /\ rec.paused = FALSE
  /\ IF rec.by = "exit" THEN ~g_OnExitIsRunning ELSE ~ThreadLimitReached
  /\ rec.by \in {"event", "timer"} => rec.prio >= Top.prio
  /\ rec.by = "timer" => "timer" \in Arrivals /\ (Top.timers \/ g_nThreads = 0)

\* Launching a thread over the running one interrupts it.
LEMMA PushOverShape ==
  ASSUME SlotsInv, OtherTypes, NEW under, NEW rec, PushOver(under, rec),
         SameThread(under, Top), under.paused = Top.paused,
         NewThread(rec), UNCHANGED <<mAutoExecSectionIsRunning, g_nPausedThreads>>
  PROVE  StackStep /\ PausedStep
<1>1. g \in Slots /\ g_array \in [Slots -> Slot] /\ g_nThreads \in Int
  BY DEF SlotsInv, SlotsTyped
<1>2. MaxThreads \in Nat /\ Slots = 0 .. (MaxThreads + 1)
  BY ConstantsAssumption DEF Slots, Additional
<1>3. g + 1 \in Slots /\ g # g + 1
  <2>1. g_nThreads <= MaxThreads
    BY <1>1, <1>2
       DEF NewThread, ThreadLimitReached, SlotsInv, SlotsInBounds, OtherTypes
  <2>2. QED
    BY <1>1, <1>2, <2>1 DEF SlotsInv, SlotsInBounds, OtherTypes
<1>4. g_array' = [g_array EXCEPT ![g] = under, ![g + 1] = rec] /\ g' = g + 1
  BY DEF PushOver
<1>5. /\ g_array'[g] = under /\ g_array'[g + 1] = rec
      /\ \A i \in Slots : i # g /\ i # g + 1 => g_array'[i] = g_array[i]
  BY <1>1, <1>3, <1>4
<1>6. OthersKept(g + 1)
  BY <1>5 DEF OthersKept, SameThread, Top
<1>7. StackStep
  BY <1>3, <1>4, <1>5, <1>6 DEF NewThread, Interrupts, StackStep
<1>8. PausedStep
  BY <1>5 DEF NewThread, PausedStep, Top
<1>9. QED
  BY <1>7, <1>8

\* Resuming the thread below ends the running one.
LEMMA ResumeShape ==
  ASSUME SlotsInv, Top.by # "auto", ResumeUnderlyingThread,
         UNCHANGED <<mAutoExecSectionIsRunning, g_nPausedThreads>>
  PROVE  StackStep /\ PausedStep
<1>1. g \in Slots /\ g_array \in [Slots -> Slot] /\ g > 0
  BY ConstantsAssumption
     DEF SlotsInv, SlotsTyped, SlotZero, Top, Slots, Additional
<1>2. /\ g' = g - 1 /\ g_array'[g] = Unused
      /\ \A i \in Slots : i # g => g_array'[i] = g_array[i]
  BY <1>1 DEF ResumeUnderlyingThread
<1>3. StackStep
  BY <1>1, <1>2 DEF OthersKept, SameThread, Ends, StackStep
<1>4. PausedStep
  BY <1>2 DEF PausedStep, Unused
<1>5. QED
  BY <1>3, <1>4

----------------------------------------------------------------------------
(* The shape of each action. *)

\* The shape of a step and its effect on the paused slots.
Shaped == StackStep /\ PausedStep

\* A step that rewrites the top slot without ending its subroutine, changing
\* its launcher or pausing it.
LEMMA SimpleShape ==
  ASSUME SlotsInv, NEW rec \in Slot, SetTop(rec),
         rec.by = Top.by, rec.prio = Top.prio, rec.paused => Top.paused,
         Top.pc # "end" \/ rec.pc # "line",
         UNCHANGED <<mAutoExecSectionIsRunning, g_nPausedThreads>>
  PROVE  Shaped
<1>1. Top \in Slot
  BY TopType
<1>2. rec.prio >= Top.prio
  BY <1>1, PrioIsNumber
<1>3. QED
  BY <1>2, SetTopShape, SetTopPaused DEF TopContinues, Shaped

\* A step that leaves the slots, the counter and slot 0's owner alone.
LEMMA StutterShape ==
  ASSUME SlotsInv, UNCHANGED <<g_array, g, mAutoExecSectionIsRunning,
                               g_nPausedThreads>>
  PROVE  Shaped
<1>1. Top \in Slot /\ g \in Slots
  BY TopType
<1>2. [g_array EXCEPT ![g] = Top] = g_array
  BY <1>1 DEF SlotsInv, SlotsTyped, Top
<1>3. OthersKept(g) /\ ~(g' > g)
  BY <1>1, ConstantsAssumption DEF OthersKept, SameThread, Slots, Additional
<1>4. g_array'[g].by = Top.by /\ g_array'[g].prio >= Top.prio /\ ~Launched
  <2>1. g_array'[g] = Top /\ Top.prio \in Int
    BY <1>1, PrioIsNumber DEF Top
  <2>2. QED
    BY <1>3, <2>1 DEF Launched
<1>5. QED
  BY <1>3, <1>4 DEF Shaped, StackStep, Continues, PausedStep

\* ExitApp stops the program, or the handlers' thread interrupts.
LEMMA ExitAppShape ==
  ASSUME SlotsInv, OtherTypes, NEW under, ExitApp(under),
         SameThread(under, Top), under.paused = Top.paused,
         UNCHANGED g_nPausedThreads
  PROVE  Shaped
<1>1. CASE ExitsAtOnce
  BY <1>1, StutterShape DEF ExitApp
<1>2. CASE ~ExitsAtOnce
  <2> DEFINE rec == [InitNewThread("exit", 0, TRUE, FALSE) EXCEPT
                       !.prev = g_AllowInterruption]
  <2>1. PushOver(under, rec) /\ UNCHANGED mAutoExecSectionIsRunning
    BY <1>2 DEF ExitApp
  <2>2. rec.by = "exit" /\ rec.paused = FALSE
    BY DEF InitNewThread, Unused
  <2> HIDE DEF rec
  <2>3. NewThread(rec)
    BY <1>2, <2>2 DEF NewThread, ExitsAtOnce
  <2>4. QED
    BY <2>1, <2>3, PushOverShape DEF Shaped
<1>3. QED
  BY <1>1, <1>2

\* The shape of a step of the running script.
LEMMA ScriptShape ==
  ASSUME IInv, Script
  PROVE  Shaped
<1>0. SlotsInv /\ OtherTypes
  BY DEF IInv
<1>1. Top \in Slot /\ g \in Slots
  BY <1>0, TopType
<1>2. ASSUME NEW rec \in Slot, SetTop(rec),
             rec.by = Top.by, rec.prio = Top.prio, rec.paused => Top.paused,
             Top.pc # "end" \/ rec.pc # "line",
             UNCHANGED <<mAutoExecSectionIsRunning, g_nPausedThreads>>
      PROVE  Shaped
  BY <1>0, <1>2, SimpleShape
<1>3. CASE Peek
  <2>1. [Top EXCEPT !.pc = "peek"] \in Slot
    BY <1>1 DEF Slot, Steps, Pumps
  <2>2. QED
    BY <1>1, <1>2, <1>3, <2>1 DEF Peek, program, Slot
<1>4. CASE RunLine
  <2>1. PICK many \in BOOLEAN, next \in {"expr", "end"} :
          SetTop([CountLine(Top, many) EXCEPT
                    !.pc = IF Top.paused THEN "unpause" ELSE next])
    BY <1>4 DEF RunLine
  <2> DEFINE s == CountLine(Top, many)
             p == IF Top.paused THEN "unpause" ELSE next
  <2>2. s \in Slot /\ s.by = Top.by /\ s.prio = Top.prio /\ s.paused = Top.paused
    <3>1. s \in Slot /\ s.by = Top.by
      BY <1>0, <1>1, CountLineType DEF OtherTypes
    <3>2. QED
      BY <1>1, <3>1 DEF CountLine, Slot
  <2>3. p \in Steps /\ p # "line"
    BY DEF Steps, Pumps
  <2>4. SetTop([s EXCEPT !.pc = p])
    BY <2>1
  <2> HIDE DEF s, p
  <2>5. QED
    BY <1>2, <1>4, <2>2, <2>3, <2>4 DEF RunLine, program, Slot
<1>5. CASE NextLine
  <2>1. [Top EXCEPT !.pc = "line"] \in Slot
    BY <1>1 DEF Slot, Steps
  <2>2. QED
    BY <1>1, <1>2, <1>5, <2>1 DEF NextLine, Running, program, Slot
<1>6. CASE ReturnExpr
  <2>1. [Top EXCEPT !.pc = "end"] \in Slot
    BY <1>1 DEF Slot, Steps
  <2>2. QED
    BY <1>1, <1>2, <1>6, <2>1 DEF ReturnExpr, program, Slot
<1>7. CASE Sleep
  <2>1. [Top EXCEPT !.pc = "sleep"] \in Slot
    BY <1>1 DEF Slot, Steps, Pumps
  <2>2. QED
    BY <1>1, <1>2, <1>7, <2>1 DEF Sleep, program, Slot
<1>8. CASE Send
  <2>1. [Top EXCEPT !.pc = "send"] \in Slot
    BY <1>1 DEF Slot, Steps, Pumps
  <2>2. QED
    BY <1>1, <1>2, <1>8, <2>1 DEF Send, Slot
<1>9. ASSUME NEW on \in BOOLEAN, Critical(on) PROVE Shaped
  <2> DEFINE rec == IF on THEN MadeCritical
                    ELSE [Top EXCEPT !.critical = FALSE, !.allow = TRUE]
  <2>1. rec \in Slot /\ rec.by = Top.by /\ rec.prio = Top.prio
        /\ rec.paused = Top.paused /\ rec.pc = Top.pc
    BY <1>1 DEF MadeCritical, Slot
  <2>2. SetTop(rec) /\ Top.pc = "expr"
    BY <1>9 DEF Critical, Running
  <2> HIDE DEF rec
  <2>3. QED
    BY <1>2, <1>9, <2>1, <2>2 DEF Critical, program
<1>10. ASSUME NEW p \in Priorities, ThreadPriority(p) PROVE Shaped
  <2> DEFINE rec == [Top EXCEPT !.prio = p]
  <2>1. rec \in Slot /\ rec.by = Top.by /\ rec.pc = Top.pc
        /\ rec.paused = Top.paused
    BY <1>1 DEF Slot, Prios
  <2>2. SetTop(rec) /\ Top.pc = "expr" /\ "priority" \in ScriptOps
    BY <1>10 DEF ThreadPriority, Running
  <2> HIDE DEF rec
  <2>3. TopContinues(rec)
    BY <2>1, <2>2 DEF TopContinues
  <2>4. QED
    BY <1>0, <1>10, <2>1, <2>2, <2>3, SetTopShape, SetTopPaused
       DEF ThreadPriority, program, Shaped
<1>11. ASSUME NEW b \in BOOLEAN, ThreadNoTimers(b) PROVE Shaped
  <2>1. [Top EXCEPT !.timers = b] \in Slot
    BY <1>1 DEF Slot
  <2>2. QED
    BY <1>1, <1>2, <1>11, <2>1 DEF ThreadNoTimers, Running, program, Slot
<1>12. ASSUME NEW time \in Grace, NEW lines \in Grace,
              ThreadInterrupt(time, lines)
       PROVE  Shaped
  BY <1>0, <1>12, StutterShape DEF ThreadInterrupt, program
<1>13. CASE PauseCurrentThread
  <2> DEFINE rec == [Top EXCEPT !.paused = TRUE, !.pc = "unpause"]
  <2>1. rec \in Slot /\ rec.by = Top.by /\ rec.prio = Top.prio
        /\ rec.pc # "line"
    BY <1>1 DEF Slot, Steps, Pumps
  <2>2. SetTop(rec) /\ g_nPausedThreads' = g_nPausedThreads + 1
    BY <1>13 DEF PauseCurrentThread
  <2> HIDE DEF rec
  <2>3. TopContinues(rec)
    BY <1>1, <2>1, PrioIsNumber DEF TopContinues
  <2>4. QED
    BY <1>0, <1>13, <2>1, <2>2, <2>3, SetTopShape, SetTopPaused
       DEF PauseCurrentThread, program, Shaped
<1>14. ASSUME NEW on \in BOOLEAN, PauseUnderlyingThread(on) PROVE Shaped
  <2>1. g - 1 \in Slots /\ g - 1 # g /\ g \in Int
    BY <1>1, <1>14, ConstantsAssumption
       DEF PauseUnderlyingThread, Slots, Additional
  <2>2. g_array \in [Slots -> Slot] /\ g_array[g - 1] \in Slot
    BY <1>0, <2>1 DEF SlotsInv, SlotsTyped
  <2>3. /\ g_array'[g - 1] = [g_array[g - 1] EXCEPT !.paused = on]
        /\ \A i \in Slots : i # g - 1 => g_array'[i] = g_array[i]
    BY <1>14, <2>1, <2>2 DEF PauseUnderlyingThread
  <2>4. OthersKept(g) /\ g_array'[g] = Top
    BY <1>1, <2>1, <2>2, <2>3 DEF OthersKept, SameThread, Slot, Top
  <2>5. ~Launched /\ Top.prio >= Top.prio
    BY <1>1, <1>14, <2>1, PrioIsNumber
       DEF Launched, PauseUnderlyingThread, Running
  <2>6. StackStep
    BY <1>14, <2>4, <2>5
       DEF PauseUnderlyingThread, program, Continues, StackStep
  <2>7. g_array'[g - 1].paused = on /\ g_array[g - 1].paused # on
    BY <1>14, <2>2, <2>3 DEF PauseUnderlyingThread, Slot
  <2>8. PausedStep
    <3>1. CASE on
      BY <1>14, <2>1, <2>3, <3>1 DEF PauseUnderlyingThread, PausedStep
    <3>2. CASE ~on
      <4>1. g_array[g - 1].paused /\ ~g_array'[g - 1].paused
        BY <2>2, <2>7, <3>2 DEF Slot
      <4>2. g_nPausedThreads' = g_nPausedThreads - 1
        BY <1>0, <1>14, <3>2 DEF PauseUnderlyingThread, OtherTypes
      <4>3. QED
        BY <2>1, <2>3, <4>1, <4>2 DEF PausedStep
    <3>3. QED
      BY <3>1, <3>2
  <2>9. QED
    BY <2>6, <2>8 DEF Shaped
<1>15. CASE CallExitApp
  <2>1. SameThread([Top EXCEPT !.pc = "end"], Top)
        /\ [Top EXCEPT !.pc = "end"].paused = Top.paused
    BY <1>1 DEF SameThread, Slot
  <2>2. QED
    BY <1>0, <1>15, <2>1, ExitAppShape DEF CallExitApp
<1>16. QED
  BY <1>3, <1>4, <1>5, <1>6, <1>7, <1>8, <1>9, <1>10, <1>11, <1>12, <1>13,
     <1>14, <1>15
     DEF Script

\* The shape of a step of the pump.
LEMMA PumpShape ==
  ASSUME IInv, Pump
  PROVE  Shaped
<1>0. SlotsInv /\ OtherTypes
  BY DEF IInv
<1>1. Top \in Slot /\ g \in Slots
  BY <1>0, TopType
<1>2. ASSUME NEW rec \in Slot, SetTop(rec),
             rec.by = Top.by, rec.prio = Top.prio, rec.paused => Top.paused,
             Top.pc # "end" \/ rec.pc # "line",
             UNCHANGED <<mAutoExecSectionIsRunning, g_nPausedThreads>>
      PROVE  Shaped
  BY <1>0, <1>2, SimpleShape
<1>3. ASSUME NEW under, NEW rec, PushOver(under, rec),
             SameThread(under, Top), under.paused = Top.paused,
             NewThread(rec),
             UNCHANGED <<mAutoExecSectionIsRunning, g_nPausedThreads>>
      PROVE  Shaped
  BY <1>0, <1>3, PushOverShape DEF Shaped
<1>4. Pumping => Top.pc # "end"
  BY DEF Pumping, Running, Pumps
<1>5. ASSUME NEW elapsed \in BOOLEAN, NEW filter \in Filters
      PROVE  LET rec == [Refreshed(elapsed) EXCEPT !.filter = filter]
             IN  /\ rec \in Slot /\ SameThread(rec, Top)
                 /\ rec.paused = Top.paused /\ rec.pc = Top.pc
  <2>1. Refreshed(elapsed) \in Slot
    BY <1>0, RefreshedType
  <2>2. /\ SameThread(Refreshed(elapsed), Top)
        /\ Refreshed(elapsed).paused = Top.paused
        /\ Refreshed(elapsed).pc = Top.pc
    BY <1>1 DEF Refreshed, SameThread, Slot
  <2>3. QED
    BY <2>1, <2>2 DEF SameThread, Slot
<1>6. ASSUME NEW sent \in BOOLEAN
      PROVE  /\ AfterLow(sent) \in Slot /\ SameThread(AfterLow(sent), Top)
             /\ AfterLow(sent).paused = Top.paused
             /\ AfterLow(sent).pc = Top.pc
  <2>1. AfterLow(sent) \in Slot
    BY <1>0, AfterLowType
  <2>2. QED
    BY <1>1, <2>1 DEF AfterLow, SameThread, Slot
<1>7. CASE EvaluateFilter
  <2>1. PICK elapsed \in BOOLEAN :
          SetTop([Refreshed(elapsed) EXCEPT
                    !.filter = IF IsInterruptible(elapsed)
                               THEN "all" ELSE "low"])
    BY <1>7 DEF EvaluateFilter
  <2> DEFINE f == IF IsInterruptible(elapsed) THEN "all" ELSE "low"
             rec == [Refreshed(elapsed) EXCEPT !.filter = f]
  <2>2. f \in Filters
    BY DEF Filters
  <2>3. /\ rec \in Slot /\ SameThread(rec, Top)
        /\ rec.paused = Top.paused /\ rec.pc = Top.pc /\ SetTop(rec)
    BY <1>5, <2>1, <2>2
  <2> HIDE DEF rec
  <2>4. QED
    BY <1>2, <1>4, <1>7, <2>3 DEF EvaluateFilter, program, SameThread
<1>8. CASE TakeEvent
  <2> DEFINE e     == Head(queue)
             under == [Top EXCEPT !.filter = "none"]
             crit  == [InitNewThread("criterion", 0, FALSE, TRUE) EXCEPT
                         !.held = e.prio]
             event == InitNewThread("event", e.prio, FALSE, FALSE)
  <2>1. /\ \/ SetTop(under)
           \/ ~ThreadLimitReached /\ PushOver(under, crit)
           \/ Accepted(e.prio) /\ PushOver(under, event)
        /\ UNCHANGED <<g_nPausedThreads, program, settings>>
        /\ Top.pc # "end"
    BY <1>4, <1>8 DEF TakeEvent
  <2>2. /\ under \in Slot /\ SameThread(under, Top)
        /\ under.paused = Top.paused
    BY <1>1 DEF SameThread, Slot, Filters
  <2>3. crit.by = "criterion" /\ crit.paused = FALSE
    BY DEF InitNewThread, Unused
  <2>4. event.by = "event" /\ event.paused = FALSE /\ event.prio = e.prio
    BY DEF InitNewThread, Unused
  <2> HIDE DEF under, crit, event, e
  <2>5. CASE SetTop(under)
    BY <1>2, <2>1, <2>2, <2>5 DEF SameThread, program
  <2>6. CASE ~ThreadLimitReached /\ PushOver(under, crit)
    <3>1. NewThread(crit)
      BY <2>3, <2>6 DEF NewThread
    <3>2. QED
      BY <1>3, <2>1, <2>2, <2>6, <3>1 DEF program
  <2>7. CASE Accepted(e.prio) /\ PushOver(under, event)
    <3>1. NewThread(event)
      BY <2>4, <2>7 DEF NewThread, Accepted
    <3>2. QED
      BY <1>3, <2>1, <2>2, <2>7, <3>1 DEF program
  <2>8. QED
    BY <2>1, <2>5, <2>6, <2>7
<1>9. ASSUME NEW p \in Priorities, TimerTick(p) PROVE Shaped
  <2>1. PICK elapsed \in BOOLEAN :
          /\ TimersAllowed(elapsed)
          /\ p >= Top.prio
          /\ PushOver([Refreshed(elapsed) EXCEPT !.filter = "none"],
                      InitNewThread("timer", p, FALSE, FALSE))
    BY <1>9 DEF TimerTick
  <2> DEFINE under == [Refreshed(elapsed) EXCEPT !.filter = "none"]
             rec   == InitNewThread("timer", p, FALSE, FALSE)
  <2>2. "none" \in Filters
    BY DEF Filters
  <2>3. SameThread(under, Top) /\ under.paused = Top.paused
    BY <1>5, <2>2
  <2>4. NewThread(rec)
    BY <1>9, <2>1
       DEF NewThread, TimerTick, TimersAllowed, InitNewThread, Unused
  <2>5. PushOver(under, rec)
    BY <2>1
  <2> HIDE DEF under, rec
  <2>6. QED
    BY <1>3, <1>9, <2>3, <2>4, <2>5 DEF TimerTick, program
<1>10. ASSUME NEW sent \in BOOLEAN, MonitorMessage(sent) PROVE Shaped
  <2> DEFINE rec == InitNewThread("monitor", 0, FALSE, FALSE)
  <2>1. NewThread(rec)
    BY <1>10 DEF NewThread, MonitorMessage, InitNewThread, Unused
  <2>2. PushOver(AfterLow(sent), rec)
    BY <1>10 DEF MonitorMessage
  <2> HIDE DEF rec
  <2>3. QED
    BY <1>3, <1>6, <1>10, <2>1, <2>2 DEF MonitorMessage, program
<1>11. CASE CallbackInNewThread
  <2> DEFINE rec == InitNewThread("callback", 0, FALSE, FALSE)
  <2>1. NewThread(rec)
    BY <1>11 DEF NewThread, CallbackInNewThread, InitNewThread, Unused
  <2>2. [g_array EXCEPT ![g] = Top] = g_array
    BY <1>0, <1>1 DEF SlotsInv, SlotsTyped, Top
  <2>3. PushOver(Top, rec)
    BY <1>11, <2>2 DEF CallbackInNewThread, Push, PushOver
  <2> HIDE DEF rec
  <2>4. QED
    BY <1>3, <1>11, <2>1, <2>3 DEF CallbackInNewThread, program, SameThread
<1>12. CASE FastCallback
  <2>1. Top.pc # "end" /\ SetTop(FastSlot)
    BY <1>12 DEF FastCallback, CallbackPoint, Pumping, Running, Pumps
  <2>2. Interrupted \in Saved
    BY <1>1, <1>12 DEF FastCallback, CallbackPoint, Pumping, Running,
                       Interrupted, Saved, Slot
  <2>3. Append(Top.fast, Interrupted) \in Seq(Saved)
    BY <1>1, <2>2, SlotFields
  <2>4. FastSlot \in Slot
    BY <1>1, <2>3 DEF FastSlot, Slot, Steps, Filters
  <2>5. FastSlot.by = Top.by /\ FastSlot.prio = Top.prio
        /\ FastSlot.paused = FALSE
    BY <1>1 DEF FastSlot, Slot
  <2>6. TopContinues(FastSlot)
    BY <1>1, <2>1, <2>5, PrioIsNumber DEF TopContinues
  <2>7. \/ g_nPausedThreads' = g_nPausedThreads
        \/ g_nPausedThreads' = g_nPausedThreads - 1 /\ Top.paused
    BY <1>0, <1>12 DEF FastCallback, OtherTypes
  <2>8. QED
    BY <1>0, <1>12, <2>1, <2>4, <2>5, <2>6, <2>7, SetTopShape, SetTopPaused
       DEF FastCallback, program, Shaped
<1>13. CASE TrayPause
  <2> DEFINE rec == [AfterLow(FALSE) EXCEPT !.paused = ~@]
  <2>1. /\ rec \in Slot /\ rec.by = Top.by /\ rec.prio = Top.prio
        /\ rec.pc = Top.pc /\ rec.paused = ~Top.paused
    BY <1>6 DEF SameThread, Slot
  <2>2. SetTop(rec)
    BY <1>13 DEF TrayPause
  <2>3. TopContinues(rec)
    <3>1. Top.pc # "end" /\ Top.prio \in Int
      BY <1>1, <1>4, <1>13, PrioIsNumber DEF TrayPause, LowMessage
    <3> HIDE DEF rec
    <3>2. QED
      BY <2>1, <3>1 DEF TopContinues
  <2>4. \/ g_nPausedThreads' = g_nPausedThreads + 1
        \/ g_nPausedThreads' = g_nPausedThreads - 1 /\ Top.paused
    BY <1>0, <1>13 DEF TrayPause, OtherTypes
  <2> HIDE DEF rec
  <2>5. QED
    BY <1>0, <1>13, <2>1, <2>2, <2>3, <2>4, SetTopShape, SetTopPaused
       DEF TrayPause, program, Shaped
<1>14. CASE ExitMessage
  BY <1>0, <1>6, <1>14, ExitAppShape DEF ExitMessage
<1>15. CASE NothingToLaunch
  BY <1>2, <1>4, <1>6, <1>15
     DEF NothingToLaunch, LowMessage, program, SameThread
<1>16. CASE PumpReturns
  <2> DEFINE p == IF Top.pc = "peek" THEN "check" ELSE "expr"
             rec == [Top EXCEPT !.pc = p]
  <2>1. p \in Steps /\ p # "line"
    BY DEF Steps
  <2>2. SetTop(rec)
    BY <1>16 DEF PumpReturns
  <2> HIDE DEF p
  <2>3. QED
    BY <1>1, <1>2, <1>16, <2>1, <2>2 DEF PumpReturns, Slot
<1>17. QED
  BY <1>7, <1>8, <1>9, <1>10, <1>11, <1>12, <1>13, <1>14, <1>15, <1>16
     DEF Pump

\* The shape of a step that ends a subroutine.
LEMMA EpilogueShape ==
  ASSUME IInv, Epilogue
  PROVE  Shaped
<1>0. SlotsInv /\ OtherTypes
  BY DEF IInv
<1>1. Top \in Slot /\ g \in Slots
  BY <1>0, TopType
<1>2. ASSUME Top.by # "auto", ResumeUnderlyingThread,
             UNCHANGED <<mAutoExecSectionIsRunning, g_nPausedThreads>>
      PROVE  Shaped
  BY <1>0, <1>2, ResumeShape DEF Shaped
<1>3. CASE EndThread \/ EndTimers \/ ExitRefused
  BY <1>2, <1>3 DEF EndThread, EndTimers, ExitRefused, Ended, program
<1>4. CASE EndCriterion
  <2>1. Top.by = "criterion" /\ g # 0
    BY <1>0, <1>1, <1>4, ConstantsAssumption
       DEF EndCriterion, Ended, SlotsInv, SlotZero, Top, Slots, Additional
  <2>2. CASE ResumeUnderlyingThread
    BY <1>2, <1>4, <2>1, <2>2 DEF EndCriterion, program
  <2>3. CASE ~ResumeUnderlyingThread
    <3> DEFINE rec == InitNewThread("event", Top.held, FALSE, FALSE)
    <3>1. SetTop(rec) /\ Top.held >= g_array[g - 1].prio
      BY <1>4, <2>3 DEF EndCriterion
    <3>2. /\ rec.by = "event" /\ rec.prio = Top.held /\ rec.paused = FALSE
      BY DEF InitNewThread, Unused
    <3> HIDE DEF rec
    <3>3. g' = g /\ g_array'[g] = rec
          /\ \A i \in Slots : i # g => g_array'[i] = g_array[i]
      BY <1>0, <1>1, <3>1 DEF SetTop, SlotsInv, SlotsTyped
    <3>4. Proceeds
      BY <1>4, <2>1, <3>1, <3>2, <3>3
         DEF EndCriterion, program, Proceeds, OthersKept, SameThread
    <3>5. PausedStep
      BY <1>4, <3>2, <3>3 DEF EndCriterion, PausedStep
    <3>6. QED
      BY <3>4, <3>5 DEF Shaped, StackStep
  <2>4. QED
    BY <2>2, <2>3
<1>5. CASE EndAutoExec
  <2>1. g = 0 /\ Top.by = "auto"
    BY <1>0, <1>1, <1>5 DEF EndAutoExec, Ended, SlotsInv, SlotZero, Top
  <2>2. g_array \in [Slots -> Slot]
    BY <1>0 DEF SlotsInv, SlotsTyped
  <2>3. \A i \in Slots : /\ g_array'[i].by = g_array[i].by
                         /\ g_array'[i].paused = g_array[i].paused
                         /\ i # 0 => g_array'[i] = g_array[i]
    BY <1>5, <2>2 DEF EndAutoExec, Slot
  <2>4. BecomesIdle
    BY <1>1, <1>5, <2>1, <2>3
       DEF EndAutoExec, BecomesIdle, OthersKept, SameThread, Top
  <2>5. PausedStep
    BY <1>5, <2>3 DEF EndAutoExec, PausedStep
  <2>6. QED
    BY <2>4, <2>5 DEF Shaped, StackStep
<1>6. CASE EndFastCallback
  <2> DEFINE s    == Top.fast[Len(Top.fast)]
             rest == SubSeq(Top.fast, 1, Len(Top.fast) - 1)
             prio == IF g = 0 /\ ~mAutoExecSectionIsRunning
                     THEN PriorityMinimum ELSE Top.prio
             rec  == [Top EXCEPT !.fast = rest, !.pc = s.pc,
                                 !.filter = s.filter,
                                 !.paused = @ \/ s.repause, !.prio = prio]
  <2>1. Top.fast \in Seq(Saved) /\ Top.fast # <<>>
    BY <1>1, <1>6, SlotFields DEF EndFastCallback
  <2>2. s \in Saved /\ rest \in Seq(Saved)
    BY <2>1
  <2>3. /\ s.pc \in Steps /\ s.pc # "line" /\ s.filter \in Filters
        /\ s.repause \in BOOLEAN
    BY <2>2 DEF Saved, Steps, Pumps
  <2>4. prio \in Prios /\ (g # 0 => prio = Top.prio)
    BY <1>1, SlotFields DEF Prios
  <2>5. SetTop(rec) /\ g_nPausedThreads' = g_nPausedThreads
                                           + (IF s.repause THEN 1 ELSE 0)
    BY <1>6 DEF EndFastCallback
  <2> HIDE DEF s, rest, prio
  <2>6. /\ rec \in Slot /\ rec.by = Top.by /\ rec.prio = prio
        /\ rec.pc = s.pc
    BY <1>1, <2>2, <2>3, <2>4 DEF Slot
  <2>7. rec.paused => Top.paused \/ s.repause
    BY <1>1, <2>3 DEF Slot
  <2> HIDE DEF rec
  <2>8. TopContinues(rec)
    <3>1. Top.by = "timer" => g # 0
      BY <1>0, <1>1, ConstantsAssumption
         DEF SlotsInv, SlotZero, Top, Slots, Additional
    <3>2. QED
      BY <1>1, <2>3, <2>4, <2>6, <3>1, PrioIsNumber DEF TopContinues
  <2>9. \/ g_nPausedThreads' = g_nPausedThreads + 1
        \/ g_nPausedThreads' = g_nPausedThreads /\ ~s.repause
    BY <1>0, <2>3, <2>5 DEF OtherTypes
  <2>10. QED
    BY <1>0, <1>6, <2>5, <2>6, <2>7, <2>8, <2>9, SetTopShape, SetTopPaused
       DEF EndFastCallback, program, Shaped
<1>7. CASE NextExitHandler
  <2> DEFINE new == InitNewThread("exit", 0, TRUE, FALSE)
             rec == [new EXCEPT !.prev = Top.prev]
  <2>1. "exit" \in Launchers /\ 0 \in Prios
    BY ConstantsAssumption DEF Launchers, Prios
  <2>2. new \in Slot
    BY <1>0, <2>1, InitNewThreadType DEF SlotsInv
  <2>3. rec \in Slot /\ rec.by = "exit" /\ rec.paused = FALSE
    <3>1. new.by = "exit" /\ new.paused = FALSE
      BY DEF InitNewThread, Unused
    <3>2. Top.prev \in BOOLEAN
      BY <1>1, SlotFields
    <3> HIDE DEF new
    <3>3. QED
      BY <2>2, <3>1, <3>2 DEF Slot
  <2>4. SetTop(rec) /\ Top.by = "exit"
    BY <1>7 DEF NextExitHandler, Ended
  <2> HIDE DEF rec
  <2>5. TopContinues(rec)
    BY <2>3, <2>4 DEF TopContinues
  <2>6. QED
    BY <1>0, <1>7, <2>3, <2>4, <2>5, SetTopShape, SetTopPaused
       DEF NextExitHandler, program, Shaped
<1>8. CASE ExitGranted
  BY <1>0, <1>8, StutterShape DEF ExitGranted
<1>9. ASSUME NEW p \in Priorities, NextTimer(p) PROVE Shaped
  <2> DEFINE rec == InitNewThread("timer", p, FALSE, FALSE)
  <2>1. "timer" \in Launchers /\ p \in Prios
    BY DEF Launchers, Prios
  <2>2. rec \in Slot
    BY <1>0, <2>1, InitNewThreadType DEF SlotsInv
  <2>3. rec.by = "timer" /\ rec.paused = FALSE /\ rec.prio = p
    BY DEF InitNewThread, Unused
  <2>4. SetTop(rec) /\ Top.by = "timer" /\ p >= Top.prio
    BY <1>9 DEF NextTimer, Ended
  <2> HIDE DEF rec
  <2>5. TopContinues(rec)
    BY <2>3, <2>4 DEF TopContinues
  <2>6. QED
    BY <1>0, <1>9, <2>2, <2>3, <2>4, <2>5, SetTopShape, SetTopPaused
       DEF NextTimer, program, Shaped
<1>10. QED
  BY <1>3, <1>4, <1>5, <1>6, <1>7, <1>8, <1>9 DEF Epilogue

\* Every step has one of the shapes.
LEMMA StepShape ==
  ASSUME IInv, [Next]_vars
  PROVE  Shaped
<1>1. ASSUME UNCHANGED <<g_array, g, mAutoExecSectionIsRunning,
                         g_nPausedThreads>>
      PROVE  Shaped
  BY <1>1, StutterShape DEF IInv
<1>2. CASE PostEvent \/ UNCHANGED vars
  BY <1>1, <1>2 DEF PostEvent, vars, program
<1>3. CASE Script \/ Pump \/ Epilogue
  BY <1>3, ScriptShape, PumpShape, EpilogueShape
<1>4. QED
  BY <1>2, <1>3 DEF Next, Terminated

----------------------------------------------------------------------------
(* Timers and priorities. *)

\* The bounds of the slots, as the proofs below use them.
LEMMA SlotRange ==
  ASSUME IInv
  PROVE  /\ MaxThreads \in Nat /\ Slots = 0 .. (MaxThreads + 1)
         /\ g \in Slots /\ g_nThreads \in Int
         /\ \A i \in Slots : g_array[i] \in Slot
BY ConstantsAssumption DEF IInv, SlotsInv, SlotsTyped, Slots, Additional

\* A thread that said Thread "NoTimers" (ThreadNoTimers, CheckScriptTimers)
\* has no timer running directly on top of it, although the pass that found
\* timers allowed may run several of them, one after the other in its slot.
THEOREM NoTimersKept == Spec => []NoTimersRespected
<1>1. Init => NoTimersRespected
  BY DEF Init, NoTimersRespected
<1>2. IInv /\ NoTimersRespected /\ [Next]_vars => NoTimersRespected'
  <2> SUFFICES ASSUME IInv, NoTimersRespected, [Next]_vars
               PROVE  NoTimersRespected'
    OBVIOUS
  <2>1. StackStep
    BY StepShape DEF Shaped
  <2>2. /\ MaxThreads \in Nat /\ Slots = 0 .. (MaxThreads + 1)
        /\ g \in Slots /\ g_nThreads \in Int
    BY SlotRange
  <2>3. SUFFICES ASSUME NEW i \in 0 .. g' - 1,
                        ~g_array'[i].timers,
                        i > 0 \/ mAutoExecSectionIsRunning'
                 PROVE  g_array'[i + 1].by # "timer"
    BY DEF NoTimersRespected
  <2>4. CASE Continues \/ Proceeds
    <3>1. i \in Slots /\ i + 1 \in Slots /\ i # g /\ i \in 0 .. g - 1
      BY <2>2, <2>4 DEF Continues, Proceeds
    <3>2. SameThread(g_array'[i], g_array[i])
      BY <2>4, <3>1 DEF Continues, Proceeds, OthersKept
    <3>3. g_array[i + 1].by # "timer"
      BY <2>3, <2>4, <3>1, <3>2
         DEF Continues, Proceeds, SameThread, NoTimersRespected
    <3>4. CASE i + 1 = g
      BY <2>4, <3>3, <3>4 DEF Continues, Proceeds, Top
    <3>5. CASE i + 1 # g
      BY <2>4, <3>1, <3>3, <3>5
         DEF Continues, Proceeds, OthersKept, SameThread
    <3>6. QED
      BY <3>4, <3>5
  <2>5. CASE Interrupts
    <3>1. g' = g + 1 /\ g + 1 \in Slots /\ i \in Slots /\ i # g + 1 /\ i <= g
      BY <2>2, <2>5 DEF Interrupts
    <3>2. SameThread(g_array'[i], g_array[i])
      BY <2>5, <3>1 DEF Interrupts, OthersKept
    <3>3. CASE i = g
      <4>1. g_array'[g + 1].by = "timer" => g_nThreads = 0
        BY <2>3, <2>5, <3>2, <3>3 DEF Interrupts, SameThread, Top
      <4>2. g_nThreads = 0 => g = 0 /\ ~mAutoExecSectionIsRunning
        <5>1. g = g_nThreads - (IF mAutoExecSectionIsRunning THEN 1 ELSE 0)
          BY DEF IInv, SlotsInv, SlotsInBounds
        <5>2. g \in Int /\ g >= 0
          BY <2>2
        <5>3. CASE mAutoExecSectionIsRunning
          BY <2>2, <5>1, <5>2, <5>3
        <5>4. CASE ~mAutoExecSectionIsRunning
          <6>1. g = g_nThreads - 0
            BY <5>1, <5>4
          <6>2. g_nThreads = 0 => g = 0
            BY <2>2, <6>1
          <6>3. QED
            BY <5>4, <6>2
        <5>5. QED
          BY <5>3, <5>4
      <4>3. QED
        BY <2>3, <2>5, <3>3, <4>1, <4>2 DEF Interrupts
    <3>4. CASE i # g
      <4>1. i \in 0 .. g - 1 /\ i + 1 \in Slots /\ i + 1 # g + 1
        BY <2>2, <3>1, <3>4
      <4>2. g_array[i + 1].by # "timer"
        BY <2>3, <2>5, <3>2, <4>1
           DEF Interrupts, SameThread, NoTimersRespected
      <4>3. QED
        BY <2>5, <4>1, <4>2 DEF Interrupts, OthersKept, SameThread
    <3>5. QED
      BY <3>3, <3>4
  <2>6. CASE Ends
    <3>1. i \in Slots /\ i + 1 \in Slots /\ i # g /\ i + 1 # g
          /\ i \in 0 .. g - 1
      BY <2>2, <2>6 DEF Ends
    <3>2. SameThread(g_array'[i], g_array[i])
          /\ SameThread(g_array'[i + 1], g_array[i + 1])
      BY <2>6, <3>1 DEF Ends, OthersKept
    <3>3. QED
      BY <2>3, <2>6, <3>1, <3>2 DEF Ends, SameThread, NoTimersRespected
  <2>7. CASE BecomesIdle
    BY <2>7 DEF BecomesIdle
  <2>8. QED
    BY <2>1, <2>4, <2>5, <2>6, <2>7 DEF StackStep
<1>3. QED
  BY <1>1, <1>2, Invariance, PTL DEF Spec

\* A timer's slot has at least the priority of the one it interrupted.
TimersInOrder ==
  \A i \in 1 .. g : g_array[i].by = "timer" =>
    "timer" \in Arrivals /\ g_array[i].prio >= g_array[i - 1].prio

\* It stays so while no timer can change its own priority.
LEMMA OrderKept ==
  ASSUME IInv, TimersInOrder, [Next]_vars,
         "timer" \notin Arrivals \/ "priority" \notin ScriptOps
  PROVE  TimersInOrder'
<1>1. StackStep
  BY StepShape DEF Shaped
<1>2. /\ MaxThreads \in Nat /\ Slots = 0 .. (MaxThreads + 1)
      /\ g \in Slots /\ \A i \in Slots : g_array[i].prio \in Int
  BY SlotRange, PrioIsNumber
<1>3. SUFFICES ASSUME NEW i \in 1 .. g', g_array'[i].by = "timer"
               PROVE  /\ "timer" \in Arrivals
                      /\ g_array'[i].prio >= g_array'[i - 1].prio
  BY DEF TimersInOrder
<1>4. /\ \A k \in Slots : g_array'[k].prio \in Int
      /\ g' \in Slots
  <2>1. IInv'
    BY NextInv
  <2>2. g_array' \in [Slots -> Slot] /\ g' \in Slots
    BY <2>1 DEF IInv, SlotsInv, SlotsTyped
  <2>3. QED
    BY <2>2, PrioIsNumber
<1>5. i \in Slots /\ i - 1 \in Slots /\ i \in Int
  BY <1>2, <1>4
<1>6. CASE Continues
  <2>1. i - 1 # g /\ i \in 1 .. g
    BY <1>2, <1>5, <1>6 DEF Continues
  <2>2. SameThread(g_array'[i - 1], g_array[i - 1])
    BY <1>5, <1>6, <2>1 DEF Continues, OthersKept
  <2>3. g_array[i].by = "timer"
    BY <1>3, <1>5, <1>6 DEF Continues, OthersKept, SameThread, Top
  <2>4. "timer" \in Arrivals /\ g_array[i].prio >= g_array[i - 1].prio
    BY <2>1, <2>3 DEF TimersInOrder
  <2>5. g_array'[i].prio >= g_array[i].prio
    BY <1>2, <1>4, <1>5, <1>6, <2>3, <2>4
       DEF Continues, OthersKept, SameThread, Top
  <2>6. QED
    BY <1>2, <1>4, <1>5, <2>2, <2>4, <2>5 DEF SameThread
<1>7. CASE Proceeds
  <2>1. i # g /\ i - 1 # g /\ i \in 1 .. g
    BY <1>2, <1>3, <1>5, <1>7 DEF Proceeds
  <2>2. /\ SameThread(g_array'[i], g_array[i])
        /\ SameThread(g_array'[i - 1], g_array[i - 1])
    BY <1>5, <1>7, <2>1 DEF Proceeds, OthersKept
  <2>3. QED
    BY <1>3, <2>1, <2>2 DEF SameThread, TimersInOrder
<1>8. CASE Interrupts
  <2>1. g' = g + 1 /\ i - 1 # g + 1 /\ g + 1 \in Slots
    BY <1>2, <1>5, <1>8 DEF Interrupts
  <2>2. SameThread(g_array'[i - 1], g_array[i - 1])
    BY <1>5, <1>8, <2>1 DEF Interrupts, OthersKept
  <2>3. CASE i = g + 1
    <3>1. /\ "timer" \in Arrivals /\ g_array'[i].prio >= Top.prio
      BY <1>3, <1>8, <2>3 DEF Interrupts
    <3>2. i - 1 = g
      BY <1>2, <2>3
    <3>3. QED
      BY <2>2, <3>1, <3>2 DEF SameThread, Top
  <2>4. CASE i # g + 1
    <3>1. i \in 1 .. g
      BY <1>2, <1>5, <2>1, <2>4
    <3>2. SameThread(g_array'[i], g_array[i])
      BY <1>5, <1>8, <2>4 DEF Interrupts, OthersKept
    <3>3. QED
      BY <1>3, <2>2, <3>1, <3>2 DEF SameThread, TimersInOrder
  <2>5. QED
    BY <2>3, <2>4
<1>9. CASE Ends
  <2>1. i # g /\ i - 1 # g /\ i \in 1 .. g
    BY <1>2, <1>5, <1>9 DEF Ends
  <2>2. /\ SameThread(g_array'[i], g_array[i])
        /\ SameThread(g_array'[i - 1], g_array[i - 1])
    BY <1>5, <1>9, <2>1 DEF Ends, OthersKept
  <2>3. QED
    BY <1>3, <2>1, <2>2 DEF SameThread, TimersInOrder
<1>10. CASE BecomesIdle
  BY <1>10 DEF BecomesIdle
<1>11. QED
  BY <1>1, <1>6, <1>7, <1>8, <1>9, <1>10 DEF StackStep

\* A queued event or a timer is launched over a thread of its priority or
\* below (MsgSleep, HotkeyCriterion::Eval, CheckScriptTimers), even where the
\* priority compared with is that of a criterion's or an earlier timer's slot.
\* A timer that lowers its own priority voids this for the rest of its pass:
\* hence the hypothesis.
THEOREM PriorityKept ==
  ASSUME "timer" \notin Arrivals \/ "priority" \notin ScriptOps
  PROVE  Spec => PriorityRespected
<1>1. Init => TimersInOrder
  BY DEF Init, TimersInOrder
<1>2. IInv /\ TimersInOrder /\ [Next]_vars => TimersInOrder'
  BY OrderKept
<1>3. IInv /\ TimersInOrder /\ [Next]_vars
        => [Launched => g_array'[g'].prio >= g_array'[g' - 1].prio]_vars
  <2> SUFFICES ASSUME IInv, TimersInOrder, [Next]_vars, Launched
               PROVE  g_array'[g'].prio >= g_array'[g' - 1].prio
    OBVIOUS
  <2>1. StackStep
    BY StepShape DEF Shaped
  <2>2. /\ MaxThreads \in Nat /\ Slots = 0 .. (MaxThreads + 1)
        /\ g \in Slots /\ \A i \in Slots : g_array[i].prio \in Int
    BY SlotRange, PrioIsNumber
  <2>3. g = 0 => Top.by = "auto"
    BY <2>2 DEF IInv, SlotsInv, SlotZero, Top
  <2>4. g' \in Slots /\ g_array'[g'].prio \in Int
    <3>1. IInv'
      BY NextInv
    <3>2. g_array' \in [Slots -> Slot] /\ g' \in Slots
      BY <3>1 DEF IInv, SlotsInv, SlotsTyped
    <3>3. QED
      BY <3>2, PrioIsNumber
  <2>5. CASE Continues
    <3>1. g' = g /\ Top.by = "timer" /\ g_array'[g].prio >= Top.prio
      BY <2>5 DEF Continues
    <3>2. g \in 1 .. g /\ g - 1 \in Slots /\ g - 1 # g
      BY <2>2, <2>3, <3>1
    <3>3. Top.prio >= g_array[g - 1].prio
      BY <3>1, <3>2 DEF TimersInOrder, Top
    <3>4. g_array'[g - 1].prio = g_array[g - 1].prio
      BY <2>5, <3>2 DEF Continues, OthersKept, SameThread
    <3>5. QED
      BY <2>2, <2>4, <3>1, <3>2, <3>3, <3>4 DEF Top
  <2>6. CASE Proceeds
    <3>1. g - 1 \in Slots /\ g - 1 # g
      BY <2>2, <2>3, <2>6 DEF Proceeds
    <3>2. QED
      BY <2>6, <3>1 DEF Proceeds, OthersKept, SameThread
  <2>7. CASE Interrupts
    <3>1. g' = g + 1 /\ g' - 1 = g /\ g # g + 1
      BY <2>2, <2>7 DEF Interrupts
    <3>2. g_array'[g].prio = Top.prio
      BY <2>2, <2>7, <3>1 DEF Interrupts, OthersKept, SameThread, Top
    <3>3. g_array'[g + 1].prio >= Top.prio
      BY <2>7, <3>1 DEF Interrupts, Launched
    <3>4. QED
      BY <3>1, <3>2, <3>3
  <2>8. CASE Ends
    BY <2>2, <2>8 DEF Ends, Launched
  <2>9. CASE BecomesIdle
    BY <2>9 DEF BecomesIdle, Launched
  <2>10. QED
    BY <2>1, <2>5, <2>6, <2>7, <2>8, <2>9 DEF StackStep
<1>4. QED
  BY <1>1, <1>2, <1>3, Invariance, PTL DEF Spec, PriorityRespected

----------------------------------------------------------------------------
(* Paused threads. *)

PausedSlots == {i \in Slots : g_array[i].paused}

\* The inductive form of PausedNotForgotten, over all of g_array.
PausedCounted == g_nPausedThreads >= Cardinality(PausedSlots)

\* The paused slots are finitely many, before a step and after it.
LEMMA PausedFinite ==
  ASSUME IInv
  PROVE  IsFiniteSet(PausedSlots) /\ Cardinality(PausedSlots) \in Nat
<1>1. IsFiniteSet(Slots)
  BY SlotRange, FS_Interval
<1>2. IsFiniteSet(PausedSlots)
  BY <1>1, FS_Subset DEF PausedSlots
<1>3. QED
  BY <1>2, FS_CardinalityType

\* A step that pauses at most one more slot counts it, and one that lowers
\* the count has unpaused a slot.
LEMMA PausedKept ==
  ASSUME IInv, IInv', PausedCounted, PausedStep
  PROVE  PausedCounted'
<1> DEFINE A == PausedSlots
           B == PausedSlots'
<1>1. IsFiniteSet(A) /\ Cardinality(A) \in Nat
  BY PausedFinite
<1>2. IsFiniteSet(B) /\ Cardinality(B) \in Nat
  <2>1. Slots = 0 .. (MaxThreads + 1) /\ MaxThreads \in Nat
    BY SlotRange
  <2>2. IsFiniteSet(Slots)
    BY <2>1, FS_Interval
  <2>3. B \in SUBSET Slots
    BY DEF PausedSlots
  <2>4. IsFiniteSet(B)
    BY <2>2, <2>3, FS_Subset
  <2>5. QED
    BY <2>4, FS_CardinalityType
<1>3. /\ g_nPausedThreads \in Int /\ g_nPausedThreads' \in Int
      /\ g_nPausedThreads >= Cardinality(A)
  BY DEF IInv, OtherTypes, PausedCounted
<1>4. \A i : i \in A <=> i \in Slots /\ g_array[i].paused
  BY DEF PausedSlots
<1>5. \A i : i \in B <=> i \in Slots /\ g_array'[i].paused
  BY DEF PausedSlots
<1> HIDE DEF A, B
<1>6. SUFFICES g_nPausedThreads' >= Cardinality(B)
  BY DEF PausedCounted, B
<1>7. CASE /\ g_nPausedThreads' = g_nPausedThreads
           /\ \A i \in Slots : g_array'[i].paused => g_array[i].paused
  <2>1. B \in SUBSET A
    BY <1>4, <1>5, <1>7
  <2>2. Cardinality(B) <= Cardinality(A)
    BY <1>1, <2>1, FS_Subset
  <2>3. QED
    BY <1>1, <1>2, <1>3, <1>7, <2>2
<1>8. CASE /\ g_nPausedThreads' = g_nPausedThreads + 1
           /\ \E k \in Slots : \A i \in Slots :
                i # k /\ g_array'[i].paused => g_array[i].paused
  <2>1. PICK k \in Slots : \A i \in Slots :
               i # k /\ g_array'[i].paused => g_array[i].paused
    BY <1>8
  <2>2. B \in SUBSET (A \cup {k})
    BY <1>4, <1>5, <2>1
  <2>3. /\ IsFiniteSet(A \cup {k})
        /\ Cardinality(A \cup {k}) <= Cardinality(A) + 1
        /\ Cardinality(A \cup {k}) \in Nat
    BY <1>1, FS_AddElement, FS_CardinalityType
  <2>4. Cardinality(B) <= Cardinality(A \cup {k})
    BY <2>2, <2>3, FS_Subset
  <2>5. QED
    BY <1>1, <1>2, <1>3, <1>8, <2>3, <2>4
<1>9. CASE /\ g_nPausedThreads' = g_nPausedThreads - 1
           /\ \A i \in Slots : g_array'[i].paused => g_array[i].paused
           /\ \E k \in Slots : g_array[k].paused /\ ~g_array'[k].paused
  <2>1. PICK k \in Slots : g_array[k].paused /\ ~g_array'[k].paused
    BY <1>9
  <2>2. k \in A /\ B \in SUBSET (A \ {k})
    BY <1>4, <1>5, <1>9, <2>1
  <2>3. /\ IsFiniteSet(A \ {k})
        /\ Cardinality(A \ {k}) = Cardinality(A) - 1
    BY <1>1, <2>2, FS_RemoveElement
  <2>4. Cardinality(B) <= Cardinality(A \ {k})
    BY <2>2, <2>3, FS_Subset
  <2>5. QED
    BY <1>1, <1>2, <1>3, <1>9, <2>3, <2>4
<1>10. QED
  BY <1>7, <1>8, <1>9 DEF PausedStep

\* g_nPausedThreads (Pause, the tray's Pause, fast-mode callbacks) is never
\* below the number of paused threads on the stack, so that CheckScriptTimers
\* holds the timers back as long as one of them is paused.
THEOREM PausedCountIsEnough == Spec => []PausedNotForgotten
<1>1. Init => PausedCounted
  <2> SUFFICES ASSUME Init PROVE PausedCounted
    OBVIOUS
  <2>1. PausedSlots = {}
    BY DEF Init, PausedSlots, Unused
  <2>2. QED
    BY <2>1, FS_EmptySet DEF Init, PausedCounted
<1>2. IInv /\ PausedCounted /\ [Next]_vars => PausedCounted'
  BY StepShape, NextInv, PausedKept DEF Shaped
<1>3. IInv /\ PausedCounted => PausedNotForgotten
  <2> SUFFICES ASSUME IInv, PausedCounted PROVE PausedNotForgotten
    OBVIOUS
  <2> DEFINE L == {i \in Live : g_array[i].paused}
  <2>1. Live \subseteq Slots
    BY SlotRange DEF Live
  <2>2. L \in SUBSET PausedSlots
    BY <2>1 DEF PausedSlots
  <2>3. /\ IsFiniteSet(PausedSlots) /\ Cardinality(PausedSlots) \in Nat
        /\ g_nPausedThreads \in Int
    BY PausedFinite DEF IInv, OtherTypes
  <2>4. /\ IsFiniteSet(L) /\ Cardinality(L) <= Cardinality(PausedSlots)
        /\ Cardinality(L) \in Nat
    BY <2>2, <2>3, FS_Subset, FS_CardinalityType
  <2>5. g_nPausedThreads >= Cardinality(PausedSlots)
    BY DEF PausedCounted
  <2> HIDE DEF L
  <2>6. g_nPausedThreads >= Cardinality(L)
    BY <2>3, <2>4, <2>5
  <2>7. QED
    BY <2>6 DEF L, PausedNotForgotten
<1>4. QED
  BY <1>1, <1>2, <1>3, Invariance, PTL DEF Spec

----------------------------------------------------------------------------
(* The slots implement ThreadStack. *)

\* What ThreadStack sees of a slot's record.
View(s) == [by |-> s.by, prio |-> s.prio, critical |-> s.critical,
            timers |-> s.timers]

\* ThreadStack's slots are g_array's, and a record in use is one of its threads.
LEMMA ViewTypes ==
  /\ Abstract!Slots = Slots
  /\ View(Unused) = Abstract!NoThread
  /\ \A s \in Slot : s.by # "none" => View(s) \in Abstract!Thread
<1>1. Abstract!Slots = Slots
  BY ConstantsAssumption DEF Abstract!Slots, Slots, Additional
<1>2. View(Unused) = Abstract!NoThread
  BY DEF View, Unused, Abstract!NoThread
<1>3. ASSUME NEW s \in Slot, s.by # "none" PROVE View(s) \in Abstract!Thread
  BY <1>3 DEF View, Slot, Abstract!Thread
<1>4. QED
  BY <1>1, <1>2, <1>3

\* A step that keeps every thread but that of slot k updates ThreadStack's
\* stack at k.
LEMMA ViewUpdate ==
  ASSUME NEW k \in Slots, OthersKept(k)
  PROVE  /\ ScriptView' = [ScriptView EXCEPT ![k] = View(g_array'[k])]
         /\ ScriptView[k].by = g_array[k].by
BY DEF ScriptView, OthersKept, SameThread, View

\* A thread launched below the limit, or the only one for OnExit, is a launch
\* of ThreadStack.
LEMMA InterruptsAsLaunch ==
  ASSUME IInv, IInv', OneExit, Interrupts
  PROVE  Abstract!Next
<1>1. /\ MaxThreads \in Nat /\ Slots = 0 .. (MaxThreads + 1)
      /\ g \in Slots /\ g_nThreads \in Int
  BY SlotRange
<1>2. g' = g + 1 /\ g + 1 \in Slots /\ OthersKept(g + 1)
  BY DEF Interrupts
<1> DEFINE t == View(g_array'[g + 1])
<1>3. g_array'[g + 1] \in Slot /\ g_array'[g + 1].by \notin {"none", "auto"}
  BY <1>2 DEF Interrupts, IInv, SlotsInv, SlotsTyped
<1>4. t \in Abstract!Thread /\ t.by = g_array'[g + 1].by
  BY <1>3, ViewTypes DEF View
<1>5. ScriptView' = [ScriptView EXCEPT ![g + 1] = t]
  BY <1>2, ViewUpdate
<1>6. Abstract!Counted = g_nThreads
  <2>1. g = g_nThreads - (IF mAutoExecSectionIsRunning THEN 1 ELSE 0)
    BY DEF IInv, SlotsInv, SlotsInBounds
  <2>2. CASE mAutoExecSectionIsRunning
    BY <1>1, <2>1, <2>2 DEF Abstract!Counted
  <2>3. CASE ~mAutoExecSectionIsRunning
    BY <1>1, <2>1, <2>3 DEF Abstract!Counted
  <2>4. QED
    BY <2>2, <2>3
<1>7. t.by \notin {"auto", "exit"} => Abstract!Counted < MaxThreads
  BY <1>1, <1>4, <1>6 DEF Interrupts, ThreadLimitReached
<1>8. t.by = "exit" => ~Abstract!ExitThreadRuns
  <2>1. t.by = "exit" => ~g_OnExitIsRunning
    BY <1>4 DEF Interrupts
  <2>2. ~g_OnExitIsRunning => \A i \in Slots : ScriptView[i].by # "exit"
    BY DEF OneExit, ScriptView
  <2>3. QED
    BY <2>1, <2>2, ViewTypes DEF Abstract!ExitThreadRuns
<1>9. UNCHANGED mAutoExecSectionIsRunning
  BY DEF Interrupts
<1> HIDE DEF t
<1>10. Abstract!Launch(t)
  BY <1>2, <1>3, <1>4, <1>5, <1>7, <1>8, <1>9 DEF Abstract!Launch
<1>11. QED
  BY <1>4, <1>10 DEF Abstract!Next

\* A step that only rewrites the running slot is ThreadStack's Continue.
LEMMA RewritesAsContinue ==
  ASSUME IInv, IInv', UNCHANGED <<g, mAutoExecSectionIsRunning>>,
         OthersKept(g),
         \A by \in {"auto", "exit"} : g_array'[g].by = by <=> Top.by = by
  PROVE  Abstract!Next
<1> DEFINE t == View(g_array'[g])
<1>1. g \in Slots /\ g_array'[g] \in Slot /\ g_array'[g].by # "none"
  <2>1. g \in Slots /\ g' = g
    BY SlotRange
  <2>2. g_array'[g] \in Slot /\ Slots \subseteq Int
    BY <2>1, SlotRange DEF IInv, SlotsInv, SlotsTyped
  <2>3. QED
    BY <2>1, <2>2 DEF IInv, SlotsInv, AboveUnused
<1>2. t \in Abstract!Thread /\ t.by = g_array'[g].by
  BY <1>1, ViewTypes DEF View
<1>3. /\ ScriptView' = [ScriptView EXCEPT ![g] = t]
      /\ ScriptView[g].by = Top.by
  BY <1>1, ViewUpdate DEF Top
<1> HIDE DEF t
<1>4. Abstract!Continue(t)
  BY <1>2, <1>3 DEF Abstract!Continue
<1>5. QED
  BY <1>2, <1>4 DEF Abstract!Next

\* Every step is a step of ThreadStack.
LEMMA StepAsStack ==
  ASSUME IInv, IInv', OneExit, StackStep
  PROVE  Abstract!Next
<1>1. CASE Continues
  BY <1>1, RewritesAsContinue DEF Continues
<1>2. CASE Proceeds
  BY <1>2, RewritesAsContinue DEF Proceeds
<1>3. CASE Interrupts
  BY <1>3, InterruptsAsLaunch
<1>4. CASE Ends
  <2>1. g \in Slots
    BY SlotRange
  <2>2. ScriptView' = [ScriptView EXCEPT ![g] = Abstract!NoThread]
    BY <1>4, <2>1, ViewUpdate, ViewTypes DEF Ends
  <2>3. QED
    BY <1>4, <2>2 DEF Ends, Abstract!Finish, Abstract!Next
<1>5. CASE BecomesIdle
  <2> DEFINE t == View(g_array'[0])
  <2>1. 0 \in Slots
    BY SlotRange
  <2>2. g_array'[0] \in Slot /\ g_array'[0].by = "auto"
    BY <1>5, <2>1 DEF BecomesIdle, IInv, SlotsInv, SlotsTyped
  <2>3. t \in Abstract!Thread /\ t.by = "auto"
    BY <2>2, ViewTypes DEF View
  <2>4. ScriptView' = [ScriptView EXCEPT ![0] = t]
    BY <1>5, <2>1, ViewUpdate DEF BecomesIdle
  <2> HIDE DEF t
  <2>5. Abstract!BecomeIdle(t)
    BY <1>5, <2>3, <2>4 DEF BecomesIdle, Abstract!BecomeIdle
  <2>6. QED
    BY <2>3, <2>5 DEF Abstract!Next
<1>6. QED
  BY <1>1, <1>2, <1>3, <1>4, <1>5 DEF StackStep

\* The slots of g_array (InitNewThread, ResumeUnderlyingThread, MsgSleep and
\* the rest) implement ThreadStack: a thread finds its launcher and settings
\* as it left them when whatever interrupted it has ended, the limit is kept,
\* and OnExit's thread is the one exception to it.
THEOREM StackImplemented == Spec => ImplementsThreadStack
<1>1. Init => Abstract!Init
  <2> SUFFICES ASSUME Init PROVE Abstract!Init
    OBVIOUS
  <2>1. \A i \in Slots : ScriptView[i] =
          IF i = 0 THEN [Abstract!NoThread EXCEPT !.by = "auto"]
                   ELSE Abstract!NoThread
    BY DEF Init, ScriptView, Unused, Abstract!NoThread
  <2>2. ScriptView = [i \in Slots |->
          IF i = 0 THEN [Abstract!NoThread EXCEPT !.by = "auto"]
                   ELSE Abstract!NoThread]
    BY <2>1 DEF ScriptView
  <2>3. QED
    BY <2>2, ViewTypes DEF Init, Abstract!Init
<1>2. IInv /\ OneExit /\ [Next]_vars => [Abstract!Next]_(Abstract!vars)
  BY NextInv, StepShape, StepAsStack DEF Shaped
<1>3. QED
  BY <1>1, <1>2, Invariance, OneExitAlways, PTL
     DEF Spec, ImplementsThreadStack, Abstract!Spec
=============================================================================
