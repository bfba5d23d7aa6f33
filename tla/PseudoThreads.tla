--------------------------- MODULE PseudoThreads ---------------------------
(***************************************************************************)
(* The script's quasi-threads: one OS thread runs every script subroutine, *)
(* and a message pump inside a blocking built-in (MsgSleep) may interrupt  *)
(* the current subroutine with a new one, on top of it on the C++ stack.   *)
(*                                                                         *)
(* g_array is the array of global_struct, one per quasi-thread, and g the  *)
(* index of the running one.  The C++ stack itself is not a variable: what *)
(* it holds is the field pc of each slot (where the subroutine, or the     *)
(* blocking built-in it called, stands) and the field by (which code       *)
(* launched it, hence which epilogue runs when it ends).                   *)
(*                                                                         *)
(* Time is abstract: an uninterruptible period may be over, or not,        *)
(* whenever the code reads the tick count.                                 *)
(***************************************************************************)
EXTENDS Integers, Sequences, FiniteSets

CONSTANTS
  MaxThreads,        \* g_MaxThreadsTotal (#MaxThreads)
  Priorities,        \* priorities a hotkey, timer or thread may be given
  PriorityMinimum,   \* PRIORITY_MINIMUM, the idle thread's priority
  ScriptOps,         \* built-ins the script calls: a subset of AllOps
  Arrivals,          \* what may reach the pump: a subset of AllArrivals
  HasOnExit,         \* whether an OnExit handler is registered
  MaxQueue,          \* bound on the events waiting in the message queue
  MaxFast,           \* bound on nested fast-mode callbacks per slot
  MaxPaused          \* bound on g_nPausedThreads when a pause begins

AllOps == {"sleep", "send", "critical", "priority", "notimers", "interrupt",
           "pause", "pauseunder", "exitapp", "returnexpr"}
AllArrivals == {"event", "hotif", "timer", "monitor", "fast", "callback",
                "traypause", "exit"}

\* TOTAL_ADDITIONAL_THREADS: slots beyond #MaxThreads, one for the
\* auto-execute (later idle) thread and one for OnExit.
Additional == 2

ASSUME ConstantsAssumption ==
  /\ MaxThreads \in Nat \ {0}
  /\ Priorities \subseteq Int /\ 0 \in Priorities
  /\ PriorityMinimum \in Int
  /\ ScriptOps \subseteq AllOps /\ Arrivals \subseteq AllArrivals
  /\ HasOnExit \in BOOLEAN
  /\ MaxQueue \in Nat /\ MaxFast \in Nat /\ MaxPaused \in Nat

VARIABLES
  g_array,                    \* global_struct g_array[]
  g,                          \* index of the current slot
  g_nThreads,                 \* quasi-threads counted against MaxThreads
  g_nPausedThreads,
  g_AllowInterruption,        \* FALSE during SendKeys and OnExit
  g_OnExitIsRunning,
  mAutoExecSectionIsRunning,
  mUninterruptibleTime,       \* "zero", "some" or "never" (negative)
  mUninterruptedLineCountMax, \* likewise
  queue,                      \* posted launch messages, WM_HOTKEY and above
  alive                       \* FALSE once TerminateApp has been reached

vars == <<g_array, g, g_nThreads, g_nPausedThreads, g_AllowInterruption,
          g_OnExitIsRunning, mAutoExecSectionIsRunning, mUninterruptibleTime,
          mUninterruptedLineCountMax, queue, alive>>

settings == <<mUninterruptibleTime, mUninterruptedLineCountMax>>
program  == <<g_AllowInterruption, g_OnExitIsRunning,
              mAutoExecSectionIsRunning, alive>>

Launchers == {"none", "auto", "event", "timer", "monitor", "callback",
              "criterion", "exit"}

\* Where a subroutine stands.  The pumps are the built-ins that run MsgSleep.
Pumps == {"peek", "sleep", "send", "unpause", "idle"}
Steps == Pumps \cup {"line", "check", "expr", "end"}

\* What MSG_FILTER_MAX last evaluated to, "none" between two retrievals.
Filters == {"none", "all", "low"}

Grace == {"zero", "some", "never"}
Prios == Priorities \cup {PriorityMinimum}

Saved == [pc : Pumps \cup {"expr"}, filter : Filters, repause : BOOLEAN]

Slot == [by : Launchers, prio : Prios, critical : BOOLEAN, allow : BOOLEAN,
         expires : BOOLEAN, lines : BOOLEAN, timers : BOOLEAN,
         paused : BOOLEAN, pc : Steps, filter : Filters, prev : BOOLEAN,
         held : Prios, fast : Seq(Saved)]

\* A slot above g: its contents are never read again (InitNewThread rewrites
\* all of it), so the model forgets them.
Unused ==
  [by |-> "none", prio |-> 0, critical |-> FALSE, allow |-> TRUE,
   expires |-> TRUE, lines |-> FALSE, timers |-> TRUE, paused |-> FALSE,
   pc |-> "end", filter |-> "none", prev |-> TRUE, held |-> 0, fast |-> <<>>]

Event == [prio : Priorities, hotif : BOOLEAN]

Slots == 0 .. (MaxThreads + Additional - 1)
Top   == g_array[g]
Live  == 0 .. g

(***************************************************************************)
(* InitNewThread, ResumeUnderlyingThread, IsInterruptible                  *)
(***************************************************************************)

\* The record InitNewThread leaves in the slot: settings copied from
\* g_array[0] (g_default), state cleared, then the grace period.
InitNewThread(by, prio, skip, crit) ==
  LET critical == g_array[0].critical \/ (crit /\ ~skip)
      graced   == mUninterruptibleTime # "zero"
                    /\ mUninterruptedLineCountMax # "zero"
      blocked  == ~skip /\ (graced \/ critical)
  IN  [Unused EXCEPT
         !.by = by, !.prio = prio, !.critical = critical, !.allow = ~blocked,
         !.expires = ~(blocked /\ ~critical /\ mUninterruptibleTime = "never"),
         !.timers = g_array[0].timers, !.pc = "line"]

\* A new slot on top: ++g_nThreads, ++g.
Push(rec) ==
  /\ g' = g + 1
  /\ g_nThreads' = g_nThreads + 1
  /\ g_array' = [g_array EXCEPT ![g + 1] = rec]

\* A new slot on top, the slot below having been updated to under.
PushOver(under, rec) ==
  /\ g' = g + 1
  /\ g_nThreads' = g_nThreads + 1
  /\ g_array' = [g_array EXCEPT ![g] = under, ![g + 1] = rec]

ResumeUnderlyingThread ==
  /\ g' = g - 1
  /\ g_nThreads' = g_nThreads - 1
  /\ g_array' = [g_array EXCEPT ![g] = Unused]

SetTop(rec) ==
  /\ g_array' = [g_array EXCEPT ![g] = rec]
  /\ UNCHANGED <<g, g_nThreads>>

\* (Mutant) The script is interruptible whatever g_AllowInterruption says.
InterruptibleAnyway == TRUE

InterruptibleInEmergency == g_AllowInterruption

\* IsInterruptible's update of the running slot; elapsed says whether its
\* uninterruptible duration is over.
Refreshed(elapsed) ==
  [Top EXCEPT !.allow =
     @ \/ (/\ InterruptibleInEmergency
           /\ g_nThreads > 0
           /\ Top.expires /\ elapsed /\ Top.lines)]

\* (Mutant) Only g_AllowInterruption counts.
InterruptibleUnlessEmergency(elapsed) == InterruptibleInEmergency

IsInterruptible(elapsed) ==
  /\ InterruptibleInEmergency
  /\ g_nThreads = 0 \/ Refreshed(elapsed).allow

\* (Mutant) One thread too many.
ThreadLimitPassed == g_nThreads > MaxThreads

ThreadLimitReached == g_nThreads >= MaxThreads

(***************************************************************************)
(* ExecUntil: the running subroutine                                       *)
(***************************************************************************)

Running(pcs) == alive /\ Top.pc \in pcs

\* LONG_OPERATION_UPDATE at the head of the loop: MsgSleep(-1).
Peek ==
  /\ Running({"line"})
  /\ SetTop([Top EXCEPT !.pc = "peek"])
  /\ UNCHANGED <<g_nPausedThreads, program, settings, queue>>

\* Whether the line counter passes mUninterruptedLineCountMax at this line:
\* never at the first line unless the maximum is 0.
LineCountReached(rec, many) ==
  CASE mUninterruptedLineCountMax = "zero"  -> TRUE
    [] mUninterruptedLineCountMax = "some"  -> rec.lines /\ many
    [] mUninterruptedLineCountMax = "never" -> FALSE

\* (Mutant) Critical threads count their lines, too.
CountEveryLine(rec, many) ==
  IF ~rec.allow
  THEN [rec EXCEPT !.lines = TRUE, !.allow = LineCountReached(rec, many)]
  ELSE rec

CountLine(rec, many) ==
  IF ~rec.allow /\ ~rec.critical
  THEN [rec EXCEPT !.lines = TRUE, !.allow = LineCountReached(rec, many)]
  ELSE rec

\* The rest of the loop's head: count the line, wait if the slot is paused,
\* then evaluate the line's expression, or leave the body at its end.
RunLine ==
  /\ Running({"line", "check"})
  /\ \E many \in BOOLEAN, next \in {"expr", "end"} :
       SetTop([CountLine(Top, many) EXCEPT
                 !.pc = IF Top.paused THEN "unpause" ELSE next])
  /\ UNCHANGED <<g_nPausedThreads, program, settings, queue>>

NextLine ==
  /\ Running({"expr"})
  /\ SetTop([Top EXCEPT !.pc = "line"])
  /\ UNCHANGED <<g_nPausedThreads, program, settings, queue>>

\* "return expr" or a fat arrow function: the subroutine ends with its
\* expression, and no later line looks at IsPaused.
ReturnExpr ==
  /\ "returnexpr" \in ScriptOps
  /\ Running({"expr"})
  /\ SetTop([Top EXCEPT !.pc = "end"])
  /\ UNCHANGED <<g_nPausedThreads, program, settings, queue>>

(***************************************************************************)
(* Built-ins called from an expression                                     *)
(***************************************************************************)

Sleep ==
  /\ "sleep" \in ScriptOps
  /\ Running({"expr"})
  /\ SetTop([Top EXCEPT !.pc = "sleep"])
  /\ UNCHANGED <<g_nPausedThreads, program, settings, queue>>

\* SLEEP_WITHOUT_INTERRUPTION, as SendKeys uses it.
Send ==
  /\ "send" \in ScriptOps
  /\ Running({"expr"})
  /\ SetTop([Top EXCEPT !.pc = "send"])
  /\ g_AllowInterruption' = FALSE
  /\ UNCHANGED <<g_nPausedThreads, g_OnExitIsRunning,
                 mAutoExecSectionIsRunning, alive, settings, queue>>

\* (Mutant) Critical leaves the uninterruptible duration as it was.
MadeCriticalForAWhile == [Top EXCEPT !.critical = TRUE, !.allow = FALSE]

MadeCritical ==
  [Top EXCEPT !.critical = TRUE, !.allow = FALSE, !.expires = FALSE]

Critical(on) ==
  /\ "critical" \in ScriptOps
  /\ Running({"expr"})
  /\ SetTop(IF on THEN MadeCritical
            ELSE [Top EXCEPT !.critical = FALSE, !.allow = TRUE])
  /\ UNCHANGED <<g_nPausedThreads, program, settings, queue>>

ThreadPriority(p) ==
  /\ "priority" \in ScriptOps
  /\ Running({"expr"})
  /\ SetTop([Top EXCEPT !.prio = p])
  /\ UNCHANGED <<g_nPausedThreads, program, settings, queue>>

ThreadNoTimers(allowed) ==
  /\ "notimers" \in ScriptOps
  /\ Running({"expr"})
  /\ SetTop([Top EXCEPT !.timers = allowed])
  /\ UNCHANGED <<g_nPausedThreads, program, settings, queue>>

ThreadInterrupt(time, lines) ==
  /\ "interrupt" \in ScriptOps
  /\ Running({"expr"})
  /\ mUninterruptibleTime' = time
  /\ mUninterruptedLineCountMax' = lines
  /\ UNCHANGED <<g_array, g, g_nThreads, g_nPausedThreads, program, queue>>

\* Pause with no parameter: does not return until the slot is unpaused.
PauseCurrentThread ==
  /\ "pause" \in ScriptOps
  /\ Running({"expr"})
  /\ g_nPausedThreads < MaxPaused
  /\ SetTop([Top EXCEPT !.paused = TRUE, !.pc = "unpause"])
  /\ g_nPausedThreads' = g_nPausedThreads + 1
  /\ UNCHANGED <<program, settings, queue>>

\* Pause 1 / Pause 0: the slot below, unless it is in that state already.
PauseUnderlyingThread(on) ==
  /\ "pauseunder" \in ScriptOps
  /\ Running({"expr"})
  /\ g > 0 /\ g_array[g - 1].paused # on
  /\ on => g_nPausedThreads < MaxPaused
  /\ g_array' = [g_array EXCEPT ![g - 1].paused = on]
  /\ g_nPausedThreads' = g_nPausedThreads + (IF on THEN 1 ELSE -1)
  /\ UNCHANGED <<g, g_nThreads, program, settings, queue>>

(***************************************************************************)
(* Script::ExitApp                                                         *)
(***************************************************************************)

\* (Mutant) A second exit runs the handlers again.
ExitsWithoutHandlers == ~HasOnExit

ExitsAtOnce == ~HasOnExit \/ g_OnExitIsRunning

\* Ends the program at once, or runs the OnExit handlers in a new slot; the
\* thread limit is not consulted.  under is the slot below once ExitApp has
\* returned EARLY_EXIT to it.
ExitApp(under) ==
  IF ExitsAtOnce
  THEN /\ alive' = FALSE
       /\ UNCHANGED <<g_array, g, g_nThreads, g_AllowInterruption,
                      g_OnExitIsRunning, mAutoExecSectionIsRunning>>
  ELSE /\ PushOver(under, [InitNewThread("exit", 0, TRUE, FALSE) EXCEPT
                             !.prev = g_AllowInterruption])
       /\ g_AllowInterruption' = FALSE
       /\ g_OnExitIsRunning' = TRUE
       /\ UNCHANGED <<mAutoExecSectionIsRunning, alive>>

\* The script's own ExitApp(): EARLY_EXIT ends the calling subroutine.
CallExitApp ==
  /\ "exitapp" \in ScriptOps
  /\ Running({"expr"})
  /\ ExitApp([Top EXCEPT !.pc = "end"])
  /\ UNCHANGED <<g_nPausedThreads, settings, queue>>

(***************************************************************************)
(* MsgSleep: the pump of the running slot                                  *)
(***************************************************************************)

Pumping == Running(Pumps)

\* A message with a number below WM_HOTKEY passes either filter.  Once it is
\* retrieved the pump evaluates the filter again; a sent message is delivered
\* inside the call that is waiting, whose filter stays as it is.
LowMessage == Pumping /\ Top.filter # "none"
AfterLow(sent) ==
  IF sent THEN Top ELSE [Top EXCEPT !.filter = "none"]

\* MSG_FILTER_MAX, evaluated as GetMessage or PeekMessage is called.
EvaluateFilter ==
  /\ Pumping
  /\ Top.filter = "none"
  /\ \E elapsed \in BOOLEAN :
       SetTop([Refreshed(elapsed) EXCEPT
                 !.filter = IF IsInterruptible(elapsed) THEN "all" ELSE "low"])
  /\ UNCHANGED <<g_nPausedThreads, program, settings, queue>>

\* A hotkey, menu, GUI, clipboard or input event is posted to the queue.
PostEvent ==
  /\ alive /\ Len(queue) < MaxQueue
  /\ \E e \in Event :
       /\ "event" \in Arrivals
       /\ e.hotif => "hotif" \in Arrivals
       /\ queue' = Append(queue, e)
  /\ UNCHANGED <<g_array, g, g_nThreads, g_nPausedThreads, program, settings>>

\* (Mutant) A launch message is not held back by a thread of high priority.
AcceptedAtAnyPriority(prio) == ~ThreadLimitReached

\* (Mutant) A launch message is not held back by the thread limit.
AcceptedPastLimit(prio) == prio >= Top.prio

\* The checks every launch message goes through, in their order.
Accepted(prio) == ~ThreadLimitReached /\ prio >= Top.prio

\* The head of the queue, when the filter lets it through: launched or
\* discarded; a hotkey whose criterion must be evaluated first runs it in a
\* slot of its own (HotkeyCriterion::Eval).
TakeEvent ==
  /\ Pumping
  /\ Top.filter = "all" /\ queue # <<>>
  /\ queue' = Tail(queue)
  /\ LET e     == Head(queue)
         under == [Top EXCEPT !.filter = "none"]
     IN  IF e.hotif
         THEN IF ThreadLimitReached
              THEN SetTop(under)
              ELSE PushOver(under,
                     [InitNewThread("criterion", 0, FALSE, TRUE) EXCEPT
                        !.held = e.prio])
         ELSE IF Accepted(e.prio)
              THEN PushOver(under, InitNewThread("event", e.prio, FALSE, FALSE))
              ELSE SetTop(under)
  /\ UNCHANGED <<g_nPausedThreads, program, settings>>

\* (Mutant) Thread "NoTimers" is not looked at.
TimersAllowedAnyway(elapsed) ==
  g_nPausedThreads = 0 /\ ~ThreadLimitReached /\ IsInterruptible(elapsed)

\* The guard of CheckScriptTimers.
TimersAllowed(elapsed) ==
  /\ g_nPausedThreads = 0
  /\ Top.timers \/ g_nThreads = 0
  /\ ~ThreadLimitReached
  /\ IsInterruptible(elapsed)

\* CheckScriptTimers, at the entry of MsgSleep or on WM_TIMER, finds a timer
\* of priority p due: the pass takes one slot for all the timers it runs.
TimerTick(p) ==
  /\ "timer" \in Arrivals
  /\ Pumping
  /\ \E elapsed \in BOOLEAN :
       /\ TimersAllowed(elapsed)
       /\ p >= Top.prio
       /\ PushOver([Refreshed(elapsed) EXCEPT !.filter = "none"],
                   InitNewThread("timer", p, FALSE, FALSE))
  /\ UNCHANGED <<g_nPausedThreads, program, settings, queue>>

\* MsgMonitor: an OnMessage function runs at once, whatever the filter.
MonitorMessage(sent) ==
  /\ "monitor" \in Arrivals
  /\ LowMessage
  /\ ~ThreadLimitReached /\ Top.prio <= 0
  /\ PushOver(AfterLow(sent), InitNewThread("monitor", 0, FALSE, FALSE))
  /\ UNCHANGED <<g_nPausedThreads, program, settings, queue>>

\* A callback's stub is called by the function the script called (DllCall),
\* or for a sent message.
CallbackPoint == Running({"expr"}) \/ (Pumping /\ Top.filter # "none")

\* RegisterCallbackCStub, a callback with a thread of its own.
CallbackInNewThread ==
  /\ "callback" \in Arrivals
  /\ CallbackPoint
  /\ ~ThreadLimitReached
  /\ Push(InitNewThread("callback", 0, FALSE, FALSE))
  /\ UNCHANGED <<g_nPausedThreads, program, settings, queue>>

Interrupted == [pc |-> Top.pc, filter |-> Top.filter, repause |-> Top.paused]

\* (Mutant) The slot stays paused although it is no longer counted.
FastSlotPaused ==
  [Top EXCEPT !.fast = Append(@, Interrupted), !.pc = "line",
              !.filter = "none"]

FastSlot ==
  [Top EXCEPT !.fast = Append(@, Interrupted), !.paused = FALSE,
              !.pc = "line", !.filter = "none"]

\* RegisterCallbackCStub in fast mode: runs in the slot it interrupts, which
\* is unpaused for the time being.
FastCallback ==
  /\ "fast" \in Arrivals
  /\ CallbackPoint
  /\ Len(Top.fast) < MaxFast
  /\ SetTop(FastSlot)
  /\ g_nPausedThreads' = g_nPausedThreads - (IF Top.paused THEN 1 ELSE 0)
  /\ UNCHANGED <<program, settings, queue>>

\* The Pause item of the tray menu or the main window.
TrayPause ==
  /\ "traypause" \in Arrivals
  /\ LowMessage
  /\ Top.paused \/ g_nPausedThreads < MaxPaused
  /\ SetTop([AfterLow(FALSE) EXCEPT !.paused = ~@])
  /\ g_nPausedThreads' = g_nPausedThreads + (IF Top.paused THEN -1 ELSE 1)
  /\ UNCHANGED <<program, settings, queue>>

\* The tray's Exit, WM_CLOSE or WM_QUIT, or the end of the last thread of a
\* script that is not persistent.
ExitMessage ==
  /\ "exit" \in Arrivals
  /\ LowMessage
  /\ ExitApp(AfterLow(FALSE))
  /\ UNCHANGED <<g_nPausedThreads, settings, queue>>

\* WM_TIMER with no timer due, any other message that is only dispatched, or
\* a PeekMessage that finds nothing.
NothingToLaunch ==
  /\ LowMessage
  /\ SetTop(AfterLow(FALSE))
  /\ UNCHANGED <<g_nPausedThreads, program, settings, queue>>

\* MsgSleep returns to the built-in or to ExecUntil.  MsgWaitUnpause calls
\* it again while the slot is paused; the idle pump never returns.
PumpReturns ==
  /\ Running(Pumps \ {"idle"})
  /\ Top.filter = "none"
  /\ Top.pc = "unpause" => ~Top.paused
  /\ SetTop([Top EXCEPT !.pc = IF Top.pc = "peek" THEN "check" ELSE "expr"])
  /\ g_AllowInterruption' = IF Top.pc = "send" THEN TRUE
                            ELSE g_AllowInterruption
  /\ UNCHANGED <<g_nPausedThreads, g_OnExitIsRunning,
                 mAutoExecSectionIsRunning, alive, settings, queue>>

(***************************************************************************)
(* The epilogues: the subroutine of the running slot has ended             *)
(***************************************************************************)

Ended(by) == Running({"end"}) /\ Top.fast = <<>> /\ Top.by \in by

EndThread ==
  /\ Ended({"event", "monitor", "callback"})
  /\ ResumeUnderlyingThread
  /\ UNCHANGED <<g_nPausedThreads, program, settings, queue>>

\* HotkeyCriterion::Eval returns to MsgSleep, which goes on with the message
\* when the criterion allows it.
EndCriterion ==
  /\ Ended({"criterion"})
  /\ \/ ResumeUnderlyingThread
     \/ /\ g_nThreads - 1 < MaxThreads
        /\ Top.held >= g_array[g - 1].prio
        /\ SetTop(InitNewThread("event", Top.held, FALSE, FALSE))
  /\ UNCHANGED <<g_nPausedThreads, program, settings, queue>>

\* CheckScriptTimers goes on: the next timer due is compared with g->Priority,
\* the slot of the timer that has just ended, and reuses that slot.
NextTimer(p) ==
  /\ Ended({"timer"})
  /\ p >= Top.prio
  /\ SetTop(InitNewThread("timer", p, FALSE, FALSE))
  /\ UNCHANGED <<g_nPausedThreads, program, settings, queue>>

EndTimers ==
  /\ Ended({"timer"})
  /\ ResumeUnderlyingThread
  /\ UNCHANGED <<g_nPausedThreads, program, settings, queue>>

\* MsgMonitorList::Call goes on with the next OnExit function, in the slot.
NextExitHandler ==
  /\ Ended({"exit"})
  /\ SetTop([InitNewThread("exit", 0, TRUE, FALSE) EXCEPT !.prev = Top.prev])
  /\ UNCHANGED <<g_nPausedThreads, program, settings, queue>>

\* A handler returned a non-zero value and the exit can be refused.
ExitRefused ==
  /\ Ended({"exit"})
  /\ ResumeUnderlyingThread
  /\ g_AllowInterruption' = Top.prev
  /\ g_OnExitIsRunning' = FALSE
  /\ UNCHANGED <<g_nPausedThreads, mAutoExecSectionIsRunning, alive,
                 settings, queue>>

ExitGranted ==
  /\ Ended({"exit"})
  /\ alive' = FALSE
  /\ UNCHANGED <<g_array, g, g_nThreads, g_nPausedThreads,
                 g_AllowInterruption, g_OnExitIsRunning,
                 mAutoExecSectionIsRunning, settings, queue>>

\* AutoExecSection returns and WinMain enters the idle pump in slot 0.
EndAutoExec ==
  /\ Ended({"auto"}) /\ mAutoExecSectionIsRunning
  /\ g_array' = [g_array EXCEPT ![0].pc = "idle", ![0].prio = PriorityMinimum]
  /\ g_nThreads' = g_nThreads - 1
  /\ mAutoExecSectionIsRunning' = FALSE
  /\ UNCHANGED <<g, g_nPausedThreads, g_AllowInterruption, g_OnExitIsRunning,
                 alive, settings, queue>>

\* The fast callback returns to the pump it interrupted.
EndFastCallback ==
  /\ Running({"end"}) /\ Top.fast # <<>>
  /\ LET s    == Top.fast[Len(Top.fast)]
         idle == g = 0 /\ ~mAutoExecSectionIsRunning
     IN  /\ SetTop([Top EXCEPT
              !.fast = SubSeq(@, 1, Len(@) - 1),
              !.pc = s.pc, !.filter = s.filter,
              !.paused = @ \/ s.repause,
              !.prio = IF idle THEN PriorityMinimum ELSE @])
         /\ g_nPausedThreads' = g_nPausedThreads + (IF s.repause THEN 1 ELSE 0)
  /\ UNCHANGED <<program, settings, queue>>

Terminated == ~alive /\ UNCHANGED vars

----------------------------------------------------------------------------

Init ==
  /\ g_array = [i \in Slots |->
       IF i = 0
       THEN [Unused EXCEPT !.by = "auto", !.allow = FALSE, !.pc = "line"]
       ELSE Unused]
  /\ g = 0
  /\ g_nThreads = 1
  /\ g_nPausedThreads = 0
  /\ g_AllowInterruption = TRUE
  /\ g_OnExitIsRunning = FALSE
  /\ mAutoExecSectionIsRunning = TRUE
  /\ mUninterruptibleTime = "some"
  /\ mUninterruptedLineCountMax = "some"
  /\ queue = <<>>
  /\ alive = TRUE

Script ==
  \/ Peek \/ RunLine \/ NextLine \/ ReturnExpr
  \/ Sleep \/ Send \/ PauseCurrentThread \/ CallExitApp
  \/ \E b \in BOOLEAN :
       Critical(b) \/ ThreadNoTimers(b) \/ PauseUnderlyingThread(b)
  \/ \E p \in Priorities : ThreadPriority(p)
  \/ \E t, l \in Grace : ThreadInterrupt(t, l)

Pump ==
  \/ EvaluateFilter \/ TakeEvent \/ CallbackInNewThread \/ FastCallback
  \/ TrayPause \/ ExitMessage \/ NothingToLaunch \/ PumpReturns
  \/ \E sent \in BOOLEAN : MonitorMessage(sent)
  \/ \E p \in Priorities : TimerTick(p)

Epilogue ==
  \/ EndThread \/ EndCriterion \/ EndTimers \/ EndAutoExec \/ EndFastCallback
  \/ NextExitHandler \/ ExitRefused \/ ExitGranted
  \/ \E p \in Priorities : NextTimer(p)

Next == PostEvent \/ Script \/ Pump \/ Epilogue \/ Terminated

Spec == Init /\ [][Next]_vars

----------------------------------------------------------------------------
(***************************************************************************)
(* Properties                                                              *)
(***************************************************************************)

\* Every variable has its type.
TypeOK ==
  /\ g_array \in [Slots -> Slot]
  /\ g \in Slots
  /\ g_nThreads \in Int /\ g_nPausedThreads \in Int
  /\ g_AllowInterruption \in BOOLEAN /\ g_OnExitIsRunning \in BOOLEAN
  /\ mAutoExecSectionIsRunning \in BOOLEAN
  /\ mUninterruptibleTime \in Grace /\ mUninterruptedLineCountMax \in Grace
  /\ queue \in Seq(Event)
  /\ alive \in BOOLEAN

\* The slots in use never outgrow g_array, although ExitApp launches past the
\* thread limit and the auto-execute thread leaves slot 0 while others run:
\* g and g_nThreads differ by one only while slot 0 is counted, and only the
\* single OnExit slot may exceed #MaxThreads.
SlotsInBounds ==
  /\ g < MaxThreads + Additional
  /\ g = g_nThreads - (IF mAutoExecSectionIsRunning THEN 1 ELSE 0)
  /\ g_nThreads <= MaxThreads + (IF g_OnExitIsRunning THEN 1 ELSE 0)

\* g_OnExitIsRunning is set exactly while one slot runs the OnExit functions.
OneExitThread ==
  Cardinality({i \in Live : g_array[i].by = "exit"})
    = (IF g_OnExitIsRunning THEN 1 ELSE 0)

\* The uninterruptible duration of a critical thread cannot run out in
\* IsInterruptible: either Critical set it to never, or the thread was
\* critical from its launch and has counted no line.
CriticalNeverTimesOut ==
  \A i \in Live :
    g_array[i].critical /\ ~g_array[i].allow
      => ~g_array[i].expires \/ ~g_array[i].lines

\* Nothing that MSG_FILTER_MAX or CheckScriptTimers should hold back runs
\* directly on top of a thread that is critical and not interruptible.
CriticalUndisturbed ==
  \A i \in 0 .. g - 1 :
    /\ g_array[i].critical /\ ~g_array[i].allow
    /\ i > 0 \/ mAutoExecSectionIsRunning
    => g_array[i + 1].by \notin {"event", "timer"}

\* No timer runs directly on top of a thread that said Thread "NoTimers".
NoTimersRespected ==
  \A i \in 0 .. g - 1 :
    ~g_array[i].timers /\ (i > 0 \/ mAutoExecSectionIsRunning)
      => g_array[i + 1].by # "timer"

\* g_nPausedThreads counts every paused slot: timers stay off as long as some
\* thread of the stack is paused.
PausedNotForgotten ==
  g_nPausedThreads >= Cardinality({i \in Live : g_array[i].paused})

\* g_nPausedThreads is the number of paused slots.
PausedCountExact ==
  g_nPausedThreads = Cardinality({i \in Live : g_array[i].paused})

\* While OnExit runs, nothing that can be held back is launched above it.
OnExitUninterrupted ==
  \A i \in Live : g_array[i].by = "exit" =>
    \A j \in i + 1 .. g : g_array[j].by \notin {"event", "timer"}

\* A step launches a queued event or a timer: in a new slot, or in the slot of
\* the timer, criterion or handler that has just ended.
Launched ==
  /\ g' > g \/ (g' = g /\ Top.pc = "end" /\ g_array'[g].pc = "line")
  /\ g_array'[g'].by \in {"event", "timer"}

\* A thread is interrupted only by threads of its priority or above.
PriorityRespected ==
  [][Launched => g_array'[g'].prio >= g_array'[g' - 1].prio]_vars

\* The threads as the script knows them: launcher and settings of each slot.
ScriptView ==
  [i \in Slots |-> [by |-> g_array[i].by, prio |-> g_array[i].prio,
                    critical |-> g_array[i].critical,
                    timers |-> g_array[i].timers]]

Abstract == INSTANCE ThreadStack
              WITH threads <- ScriptView, top <- g,
                   idle <- ~mAutoExecSectionIsRunning

\* The slots implement a stack of threads that keep their settings while they
\* are interrupted and never outgrow the thread limit.
ImplementsThreadStack == Abstract!Spec

============================================================================
