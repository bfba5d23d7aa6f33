# AutoHotkey_H v2: a TLA+ model of threads, timers, monitors, hotkeys, hooks, inputs, promises and sent modifiers

This directory models the part of AutoHotkey_H v2 where order matters: how the
program's quasi-threads interrupt one another, what becomes of the data structures
shared by activations suspended on one C++ stack, and how its OS threads (script, hook,
further interpreters) and the user's hands get in each other's way. TLC checks
the models on small instances; TLAPS proves the safety invariants of all nine models
for every value of the constants. All source paths below are under `src/source/`.

## 1. The system

AutoHotkey runs a script on one OS thread. The script's *quasi-threads* (the
docs' "threads") are not scheduled: a blocking built-in pumps the Windows message
queue (`MsgSleep`, application.cpp), and a message may launch a new subroutine on
top of the current one. It runs to its end before the interrupted one goes on.
A second OS thread holds the low-level keyboard and mouse hooks and posts hotkeys
to the first. AutoHotkey_H adds interpreters of their own on further OS threads.

| Component | State it keeps | Operations | Depends on | Hard behaviour |
|---|---|---|---|---|
| Quasi-threads and pump: application.cpp, script.cpp (ExecUntil, ExitApp, Pause), script2.cpp (Critical, Thread), lib/CCallback.cpp | `g_array`, `g`, `g_nThreads`, `g_nPausedThreads`, `g_AllowInterruption`, `g_OnExitIsRunning`, the message queue | MsgSleep, InitNewThread, ResumeUnderlyingThread, IsInterruptible, Critical, Thread, Pause, ExitApp, callbacks | every launcher of threads | nested interruption, limits that have exceptions, flags restored by whoever ends |
| Script timers: script.cpp, application.cpp | the list of `ScriptTimer`, two counts, the Windows timer | SetTimer, CheckScriptTimers, DeleteTimer | the pump starts passes | list changed by the callbacks that walk it |
| Monitors: script2.cpp, script.h, script_object.cpp | `MsgMonitorList`, the chain of `MsgMonitorInstance` | OnMessage, OnEvent, OnExit..., MsgMonitor, Call, Dispose | the pump, the GUI | array shifted under nested iterations |
| Hotkeys: hotkey.cpp, hook.cpp | variants, their thread counts and buffered presses, Suspend | hook decision, WM_HOTKEY, Hotkey, Suspend | hook thread, pump | decided by one thread, acted on later by another |
| Hooks, the thread: hook.cpp | `sThreadHandle`, `g_KeybdHook`, the thread's messages, `sHookSyncd` | AddRemoveHooks, HookThreadProc, WaitHookIdle | hotkeys, InputHook, SendInput | two OS threads, messages with a time limit, and a wait the other way round for #HotIf |
| Hooks, the keys: hook.cpp | `kvk`, `pPrefixKey`, the modifiers | LowLevelCommon, SuppressThisKey, AllowIt, UpdateKeybdState | hotkeys | a release is judged by what its press has left behind, with any keys between |
| InputHook: lib/input.cpp, input_object.cpp | the chain `g_input`, references | Start, Stop, collect, end notification | hook thread, pump | a chain shared by two OS threads, ended by either |
| SendKeys: keyboard_mouse.cpp | persistent and remapped modifiers, the event array | SendKeys, SendKey, SetModifierLRState, SendEventArray | the hook's modifiers | the user types meanwhile; the hook is removed meanwhile |
| Worker threads: exports.cpp, ahklib.cpp, script_h.cpp | one interpreter per OS thread (thread_local), `Promise` objects | AsyncCall, Then, Catch, ahkPostFunction, callPromise; NewThread, ahkExec, ahkPause | the pump and timers of the target | objects shared by threads, exit with calls pending |
| Hotstrings, GUI, menus, COM, debugger, loader, expressions, objects, files | see PROJECT.json | | | mostly sequential, or text |

What makes each correct, in one line each: a thread that may not be interrupted
is not, `g_array` never overflows, and a thread finds its settings as it left
them (quasi-threads); every pass continues through live objects and no timer is
lost (timers); a pass calls each original callback once and counts what it runs
(monitors); a variant never has more threads than its limit, and a press is
neither repeated without cause nor fired when off (hotkeys); the hook thread and the
main thread agree on what is installed, and no wait is for ever (hook thread); no key
is stuck, and nothing fires twice or not at all (keys); an input that has ended
leaves the chain, and one that has not is neither lost nor deleted (InputHook); after a
Send the modifiers are as the user holds them and the script has asked (SendKeys); a promise
lives as long as it is used and its handler runs once (workers).

PROJECT.json lists every component with its status, and the hazards: the places
where a test would hardly reach, each at its line with the property that covers
it, or the reason why none does.

## 2. The plan

Order: what every other component relies on first.

1. **PseudoThreads**, with **ThreadStack**, its abstract specification, and
   **PseudoThreads_proofs**.
2. **ScriptTimers**, **MsgMonitorList**, **Hotkeys**, with **ScriptTimers_proofs**,
   **MsgMonitorList_proofs**, **Hotkeys_proofs**: the three structures whose users are
   suspended by quasi-threads. Each has its own stack of
   activations, which abstracts PseudoThreads: any script code may run when a
   callback does.
3. **HookThread**, **InputHooks**, **Promises**: what two OS threads share, each with
   liveness under fairness; **HookThread_proofs**, **InputHooks_proofs** and **Promises_proofs**.
4. **KeyHook**, **SendModifiers**, with **KeyboardState**, the keys that both are about: as the user, the
   hook and the script see them; **Keys_proofs**, about both.

All of these are done. Left: the registry of interpreters and `ahkPause`, `ahkExec`, which act on
another thread's slots through AutoTLS; the launch of hotstrings; the Alt-Tab actions of
the hook; liveness of the pump itself (a sleeping layer is woken, a buffered press
answered). Every safety property that a passing run checks is a theorem, too; what is left to
TLC is liveness (section 5).

## 3. The modules

### PseudoThreads

`g_array` is the array of `global_struct`, with the fields that control reads:
`by` (which code launched the slot, hence which epilogue runs), `prio`
(Priority), `critical` (ThreadIsCritical), `allow` (AllowThreadToBeInterrupted),
`expires` (UninterruptibleDuration > -1), `lines` (UninterruptedLineCount is not 0),
`timers` (AllowTimers), `paused` (IsPaused), `pc` (where the
subroutine stands), `filter` (the last value of MSG_FILTER_MAX, while a
retrieval waits), `prev` and `held` (locals of ExitApp and of MsgSleep), and `fast`
(what a fast-mode callback saved). `pc` and `by` together stand for the C++ stack.

* *Script*: `Peek` is LONG_OPERATION_UPDATE, `RunLine` the rest of ExecUntil's loop
  head (line count, pause), `NextLine`, `ReturnExpr`; the built-ins `Sleep`, `Send`,
  `Critical`, `ThreadPriority`, `ThreadNoTimers`, `ThreadInterrupt`,
  `PauseCurrentThread`, `PauseUnderlyingThread`, `CallExitApp`.
* *Pump*: `EvaluateFilter` evaluates MSG_FILTER_MAX, and the retrieval that
  follows takes an event (`TakeEvent`, only if the filter lets it), runs a monitor
  (`MonitorMessage`) or a timer (`TimerTick`), toggles Pause, exits, or finds
  nothing. A sent message is delivered inside the retrieval, whose filter stays.
* *Epilogue*: one action for each launcher; `EndCriterion` may go on with the event
  in the slot it launches; `NextTimer` reuses the slot of the timer before it.

Time is abstract: whether a grace period is over is open whenever it is read.

**ThreadStack** is what the script may rely on: a stack of threads, each with
launcher, priority, Critical and NoTimers; only the top one changes; at most
#MaxThreads, besides OnExit and the idle thread. PseudoThreads implements it under
the mapping `ScriptView` (`ImplementsThreadStack`).

### ScriptTimers

The linked list of timers, by address, and a stack of frames: script, sleeping
layer, or a pass, which runs a callback, looks at a timer to delete it, is inside the
`__Delete` of a deleted timer's callback, or searches for the next due timer.
`running` is mExistingThreads, `locked` mDeleteLocked. `StartPass`, `LaunchNext`,
`CallbackReturns`, `Keep`, `Reap`, `Reaped`, `EndPass` are CheckScriptTimers;
`CreateTimer`, `UpdateTimer`, `DeleteTimer` are SetTimer; `Sleep` and `SleepReturns`
are the layers of MsgSleep that share the Windows timer. Whether a period is over
is open.

### MsgMonitorList

The array `mMonitor` and the chain of passes `mTop`, innermost last, each with
`index`, `count` and `deleted`, which `Add`, `Delete` and `Dispose` correct. `list`, chosen
in Init among `Lists` and never changed, says what the list is for, and its `kind`
chooses the code that iterates: `MsgMonitor` (OnMessage; also the entries that
stand for a Gui) or `MsgMonitorList::Call` (events, OnExit...). The fields `key`,
`gone` and `todo` are history variables: which callback the pass is really
calling, and which it has yet to look at.

### Hotkeys

`HookPress` is the decision of the hook thread (CriterionFiringIsCertain) and the
post; `RegisteredPress` a WM_HOTKEY of the system; `TakeMessage`, `Pass`, `Fire`,
`Eval`, `EvalReturns`, `SearchEnds` are MsgSleep with CriterionAllowsFiring, step by
step, because a #HotIf expression runs script code; `ThreadEnds` is the end of
PerformInNewThreadMadeByCaller, with the buffered press posted again. `Enable`,
`Disable`, `ToggleSuspendState`, `SetMaxThreads` and `ResetRunAgainAfterFinished`
are what the script does. `Criterion`, chosen in Init among `Criteria`, is each variant's, and the first
limits are any, as #MaxThreadsPerHotkey may change between two hotkeys. Whether
a variant buffers (mMaxThreadsBuffer), whether
the thread's priority refuses it, and whether a buffered press is too old are open.

### HookThread

`call` is AddRemoveHooks (ChangeHookState) or WaitHookIdle while the main thread is in
it, with the locals that matter; `thread` has for each hook thread its place in
HookThreadProc, its hooks and its message queue; `replies` are the messages back. A
thread may be starting, waiting for a message, in a hook procedure, or in one that
evaluates #HotIf and waits for the main thread. Every wait of the main thread may run out
of time, WaitHookIdle's excepted. `active`, `handle`, `threadID`, `mutexes`, `mem` and
`synced` are the globals of those names. SendInput removes hooks temporarily: `saved` is what it will
restore. `asked`, `older` and `late` are history: the hooks of the last call that returned in
time; the events that began before WaitHookIdle; and that a call has run out of time.

### InputHooks

`head` and `prev` are `g_input` and `input_type::Prev`. The script creates, starts, stops and discards
objects; the hook thread walks the chain twice for each event (`CollectInput`, then
`CollectInputHook`, which posts notifications), one input a step, in `hook`, and either of them
may end an input. The posted AHK_INPUT_END is retrieved by the main thread, which unlinks
the input, waits for the hook to be idle, and gives up the reference or runs OnEnd.
`due` (inputs the walk has yet to come to) and `twice` (an input ended by both threads) are history.

### KeyHook

(KeyboardState declares what this model and SendModifiers share: `physical`, what the user holds; `system`, what is down for
Windows; and `absent`, whether the hook sees the keys. Each of the two has its own specification: they are not composed.)

One action per event of a key: `Down` (a press or its repetition) and `Up`, or `UnseenKey` while the hook is absent. The event's way through
LowLevelCommon is a value (`Way`): what it posts, and how it leaves - suppressed or passed on,
and with what it writes into `kvk`. `PrefixDown`, `SuffixDown`, `PrefixUp` and `SuffixUp`
are the function's Cases 1 to 4; `Deliver` is UpdateKeybdState with
SuppressThisKeyFunc or AllowIt. Hotkeys are records, and the tables that ChangeHookState builds
from them are operators. The script changes the selection, the criterion changes, and the hook
misses events while `absent`, at most MaxChanges times altogether. `press` is history: what the present
press of a key has done, and whether something changed during it.

### Promises

Each interpreter has a stack of activations of callPromise and of AsyncCall. A call is a message, then a
run-once timer of the called interpreter, then a frame; so is its answer at the caller. An AsyncCall is a frame that
waits in SendMessage, where the interpreter gets what is sent to it; such a message may run script
(`ScriptRuns`), which does all that script may do, taking the answer included, before `SendReturns`. `refs` is the
object's reference count, `mState` and `mResult` its fields, `handlers` what Then and Catch have
set. A frame walks through callPromise step by step, because the other thread may set a handler, or give up a
reference, between two of them; the critical section is `Locked`. An interpreter in MayExit may exit at any
time, which destroys its timers and messages. `lost`, `runs`, `early` and `unclaimed` (promises whose answer was dealt with before
AsyncCall had returned them) are history.

### SendModifiers

The modifier keys as four parties see them: `physical` (the user), `system` (Windows),
`g_modifiersLR_physical` and `g_modifiersLR_logical` (the hook), and the script's
`sModifiersLR_persistent` and `sModifiersLR_remapped`. `send` has the locals of SendKeys. `BeginSend`
is its start; `Key`, `ModifierDown`, `ModifierUp`, `ModifierTap` are its items;
SetModifierLRState is one event a step, in any order, because the user may press or release
between two of them. SendEvent sends at once; SendInput builds an array (`Appended`), removes the
hook, plays it in one step, and corrects what the hook believes (`HookRemoved`, `Played`, `HookCorrected`,
`HookRestored`). `asked`, `lasting`, `letGo` are history: what the script has asked for; `raced`:
a modifier that the user changed when SendKeys no longer looked, at one of the moments
that `TooLate` names.

The MC modules define values only (MCKeyHook also states that its hotkeys meet `PlainPrefixes`, `SuppressedPrefixes` and `CertainCounterparts`). Operators marked *(Mutant)* are plausible
wrong versions of the operator that follows them; no action uses them. Each property
of a passing run is violated when one of them replaces the operator it follows, so
each says something that the code could get wrong. TypeOK of ScriptTimers, MsgMonitorList
and Hotkeys documents their state and no run lists it; it is a theorem for Hotkeys and, as a part of the
inductive invariant, for ScriptTimers.

## 4. The runs

| Run | What it asks | Bounds |
|---|---|---|
| PT_limits | Do limits, priorities and OnExit hold, and is ThreadStack implemented? | 2 threads, 2 priorities, 1 queued event |
| PT_critical | Is a Critical or NoTimers thread left alone, whatever Thread "Interrupt" says? | 2 threads, 1 queued event |
| PT_pause | Is every paused slot counted, with Pause from the script, from above, from the tray, and with fast callbacks? | 1 thread and the idle one, 1 fast callback per slot |
| ST_passes | Does the list of timers survive its callbacks? | 3 timers, 3 nested passes, 1 sleeping layer |
| MM_passes | Do positions and counts stay true, does a pass visit what it should, while callbacks come and go? | OnMessage: 3 entries, one of a Gui, limits 1 and 2; events: 4 entries of 2 kinds; 2 nested callbacks |
| HK_presses | Do limits, buffered presses and Off/Suspend hold, with window criteria and with #HotIf, the global variant before or after it? | 2 hotkeys, 3 variants, limits 1 and 2, 2 threads, 2 messages |
| HT_hooks | Do the two threads agree on the hooks, and does every call return? | 2 hooks, 2 hook threads, 2 messages each way; no call late |
| IH_chain | Does the chain survive both threads, and does an ended input leave it? | 2 inputs, 3 references, 3 messages, 2 OnEnd threads; no input ended twice |
| KH_keys | Is a key stuck, does anything fire twice, or not? | 3 keys (suffix, modifier, toggle key), two sets of hotkeys, 2 changes |
| PR_calls | Do promises live long enough and no longer, and do their handlers run, once? | 2 interpreters, 2 promises, #MaxThreads 2, 2 frames on each stack |
| SM_sends | Are the modifiers as the user and the script want them after any sequence of Sends? | 2 modifiers, one of them on the user's keyboard and sometimes suppressed as a hotkey |
| PT_v_paused | A disagreement with what a comment says; see section 6 | the smallest that shows it |

Why these bounds suffice for the cases of interest. Two counted threads are the
fewest where the limit is reached by a thread on top of another; OnExit then makes
the third, and the array has one slot more than that. What the actions compare
is a slot with its neighbour, so deeper stacks repeat the pairs that occur. A
second priority is what a comparison needs. Three timers let the one before, the
one itself and the one after a launched timer be deleted and created again;
addresses are reused. Three passes are an outer one, one in its callback and one in a
`__Delete`. Two callbacks on the stack and three entries give a deletion before, at and
after each position. Two hook threads are one that is being left behind and its successor. Two inputs
give a chain with a first and a last, each of which may be unlinked. One key of each kind makes every Case
of the hook meet every other. Two promises let an interpreter be called while it
waits in a handler, and two frames on a stack let script run in an AsyncCall with an activation above or below it. Modifiers are independent of one another in SendKeys but for the single
steps of SetModifierLRState: one that the user touches, beside one that only the script does,
is enough for these.

`MaxQueue`, `MaxFast`, `MaxPaused`, `MaxPasses`, `MaxLayers`, `MinCount`, `MaxMessages`, `MaxRefs`,
`MaxChanges`, `MaxDepth`, the number of `Threads` in HookThread, and `MaxThreads` of MsgMonitorList and
InputHooks appear in guards only as bounds of the model (the last also stands for #MaxThreads).
`MaxPaused` cuts the run where PausedCountExact is violated, as the count may
grow for ever. `Symmetry` in ST_passes permutes addresses and callbacks, which
are only compared for equality; the run has no temporal property. The constraints `InTime` (HT_hooks)
and `EndedOnce` (IH_chain) leave out what follows a known defect: section 6 says what does, and the
properties say "as long as" in their own formulas.

Deadlock is checked in all runs but two: the idle pump can always wait again, and
a program that has ended may stutter (`Terminated`). In IH_chain objects that leak (Start, Stop, Start,
Stop; see section 6) use up the two addresses, and in PR_calls
both addresses may be leaked by an exit; then the model has nothing left to do.

Fairness is assumed where the operating system or the code's own loops give it:

* HookThread: the main thread's straight code goes on (`MainReturns`), and so does each hook
  thread (`ThreadSteps`, weak), whose priority is the highest the process can have; a message posted to it is
  retrieved (`HandleChange`, `HandleSync`, strong), as GetMessage hands out posted messages however often it calls hook
  procedures in between. Waits that may run out of time are not fair: they may always
  be long enough.
* InputHooks: the main thread retrieves messages (`Pump`), the hook thread walks on (`HookSteps`), and the
  wait for an idle hook ends (`Release`, strong: each event of the hook ends, though more follow).
* Promises: the steps of callPromise go on, functions and handlers return, SendMessage returns when the call was taken and what it ran has
  returned, and an interpreter that has not
  exited comes back to its queue and its timers again and again (strong for answers, whose timer
  is held back at the thread limit). A script that never returns from a handler is outside what PR_calls promises.

The other modules state no fairness: their scheduler is the user, or the message queue, which a legal
script can keep busy for ever.

## 5. The proofs

In PseudoThreads_proofs:

* `TypeCorrect`: `Spec => []TypeOK`.
* `SlotsNeverOverflow`: `Spec => []SlotsInBounds`. `g` never leaves `g_array`, whose
  size is #MaxThreads + TOTAL_ADDITIONAL_THREADS, and `g_nThreads` agrees with it. The code
  relies on it (script.cpp, ExitApp: "MUST NOT create a new thread when
  g_OnExitIsRunning because g_array allows only one extra thread") and no bounds
  check guards the array.

* `CriticalStaysCritical`: `Spec => []CriticalNeverTimesOut`.
* `CriticalKeepsOthersOut`: `Spec => []CriticalUndisturbed`, provided that no fast-mode
  callback arrives (`"fast" \notin Arrivals`). One of those runs in the slot it
  interrupts; if it calls Critical, the pump below it goes on with the filter it
  had computed before, and the next event is launched over a critical thread.

About OnExit:

* `ExitRunsOnce`: `Spec => []OneExitThread`.
* `ExitUninterrupted`: `Spec => []OnExitUninterrupted`, provided that scripts send no keys
  (`"send" \notin ScriptOps`). SendKeys ends with `g_AllowInterruption = TRUE`, whoever had set it
  to FALSE, so an OnExit function that sends keys can be interrupted afterwards; TLC finds the violation.

About the stack:

* `NoTimersKept`: `Spec => []NoTimersRespected`.
* `PriorityKept`: `Spec => PriorityRespected`, provided that timers do not run or threads do not change
  their priority (`"timer" \notin Arrivals \/ "priority" \notin ScriptOps`). The later timers of a pass
  are compared with the slot of the earlier one, which may have lowered its priority; TLC finds the violation.
* `PausedCountIsEnough`: `Spec => []PausedNotForgotten`.
* `StackImplemented`: `Spec => ImplementsThreadStack`, the refinement of ThreadStack.

The theorems about PseudoThreads hold for every thread limit, every set of priorities, every subset of
built-ins and of arrivals; besides these three provisos the only assumption is
`ConstantsAssumption` (#MaxThreads is a positive number, priorities are integers).

SlotsInBounds alone is not inductive. That a popped slot is not the
auto-execute one must be known, or `g_nThreads` and `g` would drift apart; that slot
0 is the auto-execute or idle thread's, and no other slot is; and that slots above
`g` are unused, so that a pushed one is new. The invariant `IInv` is therefore the conjunction
of `SlotsTyped`, `SlotsInBounds`, `SlotZero` and `AboveUnused` (together `SlotsInv`)
and of `OtherTypes` for the variables that do not concern the slots. All actions
change the slots in one of three ways: they rewrite the top slot (`SetTopKeeps`), push
one (`PushOverKeeps`), or pop one (`ResumeKeeps`). Each way is one lemma; an
action's step shows which way it is and that the new record is a `Slot`. OnExit is
the one push at the limit: `ExitAppKeeps` uses that it happens only when
g_OnExitIsRunning is FALSE.

OneExitThread counts the slots in use. Its inductive form `OneExit` names the slot
instead: if the flag is set, one slot of the whole array and no other runs the
handlers; if not, none does. `ExitRefused` is the only step that ends such a
slot, and it needs the uniqueness to reset the flag; every other step but ExitApp
keeps the set of those slots (`ExitKept`).

OnExitUninterrupted is about any depth above the exit slot, where callbacks and monitors may have pumps of
their own. Its invariant `ExitGuarded` says that as long as the exit slot is there, g_AllowInterruption is
FALSE, no filter of that slot or of one above it, or saved by a fast callback there, lets launches through, and
nothing that can be deferred runs above it; a criterion counts as such, as its slot may become its
event's. With the proviso no slot at all has the end of SendKeys still ahead of it (`Silent`).

CriticalNeverTimesOut becomes inductive when it is stated of every slot
(`AllUntimed`). CriticalUndisturbed does not: an event is launched by a filter that was evaluated
earlier. Its invariant `CInv` adds that a slot whose filter lets every message through still waits in
the pump that evaluated it and is interruptible (`FilterSafe`), and that a criterion,
whose slot may become its event's, is held back like an event (`HeldBack`). A timer that
takes over the slot of the one before it needs no new check, because the slot below has
not changed meanwhile.

The theorems about the stack rest on `StepShape`: every step has one of five shapes, whatever code made it. The running
thread goes on (`Continues`); a criterion's slot goes on to its event (`Proceeds`); a
thread interrupts (`Interrupts`), ends (`Ends`), or the auto-execute thread becomes the idle one (`BecomesIdle`). Each shape says what
of the slots it keeps and with which priority it launches, and is a step of ThreadStack: the first two are its
`Continue`, the others `Launch`, `Finish` and `BecomeIdle`. PausedNotForgotten is proved through `PausedCounted`, which
compares g_nPausedThreads with the number of paused slots of the whole array; `PausedStep` says how
both change, and finite-set theorems count the slots.

In Hotkeys_proofs:

* `TypeCorrect`: `Spec => []TypeOK`. No thread count goes below zero.
* `BufferedPressWaits`: `Spec => []BufferedPressHasThread`.
* `LaunchesWithinLimit`: `Spec => LimitRespected`.
* `SilentWhenOff`: `Spec => TurnedOffStaysSilent`.

They hold for any number of hotkeys and variants, lists in any order, any criteria and limits, any
length of the queue. The one assumption, `HotkeysAssumption`, types the constants and says that
limits are at least 1 (hotkey.cpp:1200 clamps them), which BufferedPressHasThread needs: a variant
that may not be launched has a thread. Its inductive form adds to it only that a thread's
frame names a variant and a callback's frame a position in the list (`FramesSound`). Four
actions end in `Consider`, on top of all frames or of those below the top; `ConsiderKeeps`
treats it once for any frames below that hold the same threads. How the number of threads changes
(`CountPush`) is an argument about finite sets and their cardinalities.

TurnedOffStaysSilent needs to know where the variant of each frame and message comes from. `SInv`
says that only the top frame searches (`SearchOnTop`), so that the script changes nothing while
one does; that a message names a variant only when the hook has evaluated its expression
(`QueueTraced`); that what a search has found comes earlier in the list (`FramesTraced`); and that it is still
eligible, unless an expression that comes after it was evaluated since (`Fresh`).

In ScriptTimers_proofs:

* `ListSound`: `Spec => []ListWellFormed`.
* `CountsSound`: `Spec => []CountsExact`.
* `TimerWhenNeeded`: `Spec => []MainTimerWhenNeeded`.
* `PassesHold`: `Spec => []PassesSound`.

They hold for any finite number of addresses, callbacks, passes and layers; `TimersAssumption` only types the
constants. The four have one invariant, as none is inductive alone: that the list is well formed must be
known of a pass's next step, that a suspended pass holds its timer (`FramesSound`: mDeleteLocked counts
exactly the passes that hold it, `HeldExactly`) of a deletion, and the counts of the Windows timer. The list is
stated as a sequence of distinct addresses, read off the links by the recursive function `Nth`.
What Nth gives is the one induction over data in these proofs: a set of natural numbers has a least
element (`LeastNat`, from the library's theorems on well-founded relations), hence a first position at which two walks
could differ, and none does. The two ways links are written, when a timer is created and when one is unlinked, each have
a lemma on what the list then reads (`AppendListed`, `UnlinkListed`).

In MsgMonitorList_proofs:

* `PositionsKept`: `Spec => []PositionsCorrect`.
* `RunningMeansRunning`: `Spec => []RunningIsTrue`.
* `NothingMissed`: `Spec => []SameItemsVisited`.
* `NothingNewCalled`: `Spec => OnlyItemsFromTheStart`, an action property.
* `LimitsHold`: `Spec => []InstancesCounted`.

They hold for any lists, limits and depth of nesting, without a proviso (`MonitorsAssumption` types the lists). What ties a pass to an array that moves under it
is the part still ahead of it: the positions from `Coming(inst)`, the next it will look at, to `inst.count`.
The invariant says of every pass that this part is within the array and consists of callbacks it has yet to visit (`Ahead`);
that the callback it is calling is at its index unless it was deleted (`Found`); and that, when none is appended, nothing that it
has to visit is elsewhere (`NothingElse`). `Add`, `Delete` and `Dispose` are then lemmas about what
inserting into and removing from a sequence does to such a part, at, before and after it.

In HookThread_proofs:

* `HooksSound`: `Spec => []InstalledSoundly`.
* `HooksInEffect`: `Spec => []InEffectInTime`.
* `IdleMeansIdle`: `Spec => []IdleWhenSynced`.

They hold for any set of hooks and any number of hook threads; `HookAssumption` only types the constants. "As long as no
call has run out of time" is part of the properties (section 6 says why), and no constraint cuts the state space here. The invariant is
`Typed /\ (~late => OneThread /\ Phased)`: only the thread in `threadID` matters, the others are on
their way out and keep no hook (`Forgotten`); and at most one request is on its way, so `Phased` can say for each place of the main
thread where that request is: not posted yet, in the queue, being carried out, answered, and so on, each with what the
thread's hooks and the globals then are.

In Promises_proofs:

* `ReferencesCounted`: `Spec => []ReferencesSound`.
* `HandlerOnce`: `Spec => []HandlerRunsOnce`.
* `ResultWhole`: `Spec => []ResultComplete`.

They hold for any number of interpreters, promises and threads; `PromisesAssumption` only types the constants. ReferencesSound says when a promise may
not be freed; its inductive form is the exact account of the count (`Account`): one for the script's variable;
the one it was created with, which passes from the call to the answer and is lost if an exit destroys what carries it; one each for a timer or activation
of the call and of the answer; and one for each handler that Then or Catch runs. To know what
the other thread may find there, `Phased` and `Left` relate mState, mResult and
the place of the call's activation; that there is one such activation at most (`Framed`) is an argument about sets of stack positions.
`Sending` says what holds while an AsyncCall has not returned its promise: no handler is set and no variable refers to it, and it has
the reference it was created with unless it is `unclaimed`. ReferencesSound makes two exceptions: what an exit has destroyed (`lost`)
may leak, and an AsyncCall whose promise is `unclaimed` refers to what may be deleted, because the code frees it then (section 6).

In InputHooks_proofs:

* `ChainKept`: `Spec => []ChainSound`.
* `WalksComplete`: `Spec => []WalkComplete`.

They hold for any finite number of inputs and any number of references, messages and OnEnd threads; `InputAssumption` only types
the constants, and the constraint EndedOnce plays no part: both properties say "as long as no input has been ended by both threads" (`twice`),
and so does the invariant. That the chain ends is of no use by itself: the step that unlinks an input must know what the links
read. `Inv` therefore says that a sequence without repetitions enumerates it (`Links`), and that an input in progress is on it (`Active`). What
keeps an object alive is a lower bound on its references (`Accounted`): one for the script's variable, and one for each OnEnd
thread, each message that ends it, its being in progress, and the main thread's wait; an input on the chain that has ended still has its message
(`Announced`), so it has a reference too. `Walking` says where the hook thread may stand: on the chain, or on the one
input just unlinked, from which it comes back to the chain, and it has everything that is due still ahead of it.
Linking, unlinking and ending each have one lemma about the sequence and one about the count of messages.

In Keys_proofs, about KeyHook:

* `KeyFiresOnce`: `Spec => []FiredOnce`.
* `NoKeyIsStuck`: `Spec => []UpMatchesDown`, provided `PlainPrefixes`.
* `NothingIsLeftOfAKey`: `Spec => []NothingLeftBehind`, under the same hypothesis.
* `UsedKeysAreSilent`: `Spec => UsedPrefixSilent`, provided `SuppressedPrefixes`.
* `CounterpartsFire`: `Spec => CounterpartFires`, provided `CertainCounterparts`.

They hold for any keys, hotkeys, selections of hotkeys and number of changes. `PlainPrefixes` says that a prefix key that is neither a modifier nor a toggle
key has no key-down hotkey of its own under a criterion; without it there are hotkeys with which such a key is stuck (section 6). MCKeyHook assumes it, so that TLC evaluates it on the hotkeys of the run; there the only prefix is a toggle
key, and the theorem says the same of hotkeys of every other shape. `HookInv` is about each key by itself. A key that has fired and is
held has `down_performed_action` set (`Firing`). A held key is `Tracked`: if the system has seen its press, the flags that the press has left
are among those that pass the release on, whichever of the Cases 2 to 4 the release goes through, and whatever hotkeys are then
eligible; and a key that is up is `Clean`. Each way out of LowLevelCommon has a lemma that says what it does to
the key, its flags and pPrefixKey: `DownWaysAre` gathers those of a press, `UpWaysAre` those of a release, and `DownStep`, `UpStep`
put them together with UpdateKeybdState. A change of the hotkeys, of the criterion or of the hook disturbs
every key that is held (`ChangesStep`, `UnseenStep`).

The last two are action properties: what a release fires depends on what came between it and the press. `UseInv` says what
the hook remembers of that. A key that owes a key-up hotkey has an enabled one in `hotkey_to_fire_upon_release` (`Promised`). A key that
has modified another one is marked as used, and does not repeat, as another key was pressed after it; the one that is pPrefixKey can be marked (`Remembered`,
`Markable`). While the hook is absent, no press that it sees the end of is an ordinary one (`Unseen`). `OtherUse` is about the keys that an
event is not about, `DownUse` and `UpUse` about the one that it is. Both hypotheses are about the hotkeys only, and the proof does not use them to
rule out any behaviour of the user; TLC finds a counterexample if a clause of either is given up (section 6). `PlainPrefixes` is not needed for these two.

In Keys_proofs, about SendModifiers:

* `UserIsObeyed`: `SendSpec => []AsTheUserHolds`.
* `ScriptIsObeyed`: `SendSpec => []AskedKept`.

They hold for any modifiers, of which any are on the user's keyboard, are Win or Alt, or are hotkeys (`ModifiersAssumption` types these sets). What is down after a Send
follows from decisions taken at its start and at each of its items, about state that has changed since. `SendInv` says at each
stage of a Send what has been decided: `Stages`, how far it is and which events of SetModifierLRState are still to be sent; `Lasting`, which of
the variables will put down again what is to last (`LastingItems` while items are sent, the array's events after that); and
`Held`, of each modifier that is not in `raced`, that what is going to be down is what the user holds, or what was asked for (`Settled`). No modifier depends on another, so
each action's step looks at one. An array is played in one step, and `HeldPlayed` says what the hook is then corrected by.

Only model-checked: the liveness properties (CallReturnsInTime, EndedInputLeaves, HandlerRuns) stay with TLC for
good: the prover cannot reason about fairness and ENABLED. Neither can it do induction over data, except where, as in
ScriptTimers and InputHooks, it can be had from the least element of a set of numbers; nor modules that reach RECURSIVE operators, which no
module here declares.

## 6. Where the code and its comments disagree

One run is of kind "violation"; PROJECT.json quotes the comment.

* **PT_v_paused.** A thread paused from above while it evaluates its last expression
  ends without looking at IsPaused: `g_nPausedThreads` stays above 0, and timers
  off, for ever.

The modules show further differences, which have no run of their own. Where a property is weaker than one
would like, it is because of one of these.

*Threads and timers*

* A nested SLEEP_WITHOUT_INTERRUPTION (a monitor that sends keys on top of a
  thread that does) makes the outer SendKeys interruptible (keyboard_mouse.cpp:289
  says it is not designed to be): the macro (application.h:30-49) ends with `g_AllowInterruption = TRUE`
  whatever it was. An OnExit function that sends keys becomes interruptible in the same way; so does
  the thread below the dialog about too many hotkeys (hotkey.cpp:878).
* From the second timer of a pass on, CheckScriptTimers compares priorities with
  the slot of the timer before (application.cpp:1558), which may have lowered its own;
  PT_limits therefore has no timers, as PriorityRespected would fail.
* The number of paused threads is looked at when a pass begins, not between its timers
  (application.cpp:1543).
* The filter of a retrieval that waits is not evaluated again when a fast-mode
  callback makes the thread critical; PT_critical therefore has no fast callbacks.
* Two timers of zero period that create each other anew keep one pass busy for ever
  (application.cpp:1553), which a legal script can do: nothing is fair about the pump.
* `g->CurrentTimer` is not reset when its timer is deleted, and the `__Delete` of its callback
  runs with it (application.cpp:1630, 1654; script2.cpp:2626).

*Monitors and hotkeys*

* `MsgMonitorInstance::Delete` shortens every pass on the stack, also
  when the deleted callback was added after the pass began: it misses one (script.h:2030).
* `deleted` stays set after a Gui entry is deleted during its pass
  (application.cpp:1763), and the next monitor is not counted down: InstancesCounted
  states that threads are never undercounted, not that the count is exact.
* `MsgMonitorList::Call` never resets `deleted`, and IsRunning then misses the pass:
  RunningIsTrue states only that it claims nothing false.
* A queued press of a #HotIf variant launches it although it has been turned off
  since (application.cpp:865). A global variant that precedes a #HotIf one in the list is found
  first, kept while the expression runs, and launched when that returns false, though its callback, or
  a thread that interrupted it, has turned the variant off or suspended the script
  (hotkey.cpp:597-620, which says of a hotkey suspended meanwhile that "aborting the firing seems like the best choice").
  Created in the other order it would be looked at again. TurnedOffStaysSilent exempts these two.

*The hook thread*

* A permanent removal gives up after 500 ms if the hook thread is in a #HotIf evaluation, for
  which it waits for the main thread. `sThreadHandle` stays set, the thread exits later, and the next
  WaitHookIdle (hook.cpp:4515-4518) waits for ever: CallReturns holds only of runs in which no call is late.
* After a temporary removal that is late, the restoring call returns at once, and the late removal
  then leaves the hooks off (hook.cpp:4022ff. expects the opposite).
* "sThreadHandle should be NULL" (hook.cpp:3933) fails without any lateness: SendInput's temporary removal leaves
  a thread without hooks, and a permanent request made then starts a second one. The first leaks, and so do mutex handles.

*Inputs*

* Start, Stop, Start, Stop before the first message is retrieved leaks a reference
  (lib/input.cpp:51-52, 521): the second Start takes one, and one AHK_INPUT_END gives one back.
* Both threads may end an input at once: the hook thread has read InProgress, the main thread ends the input, and
  `ASSERT(InProgress())` (lib/input.cpp:477) fails; with a restart in between the object is released twice (`twice`).

*Keys*

* With CapsLock & a up, a queued key-up combination does not mark CapsLock as used (hook.cpp:973-976, 1464), so its
  toggle is not put back. If another key is pressed after the combination, `was_just_used` is overwritten, with the same result.
* b is passed on, then CapsLock & b becomes the way its repeat goes: the combination fires, the release is suppressed, and b is stuck
  (hook.cpp:1392-1393; `second` in `press`). With ^b and ^b up, pressing b, then Ctrl, and releasing b gives the same.
* With a & b up beside b and b up, the release fires the combination's key-up hotkey, not b up.
* A release that the hook does not see (SendInput, a window of higher integrity) leaves `down_performed_action`: the next press's
  release is suppressed. A hotkey turned off while its key is held leaves this flag and `pPrefixKey`, because of the early
  return at hook.cpp:629-633. A prefix released during SendInput remains `pPrefixKey`.
* Auto-repeat after the prefix is released passes the key on while its release is suppressed; hook.cpp:905-925 knows of it, and
  hook.cpp:893-897 says otherwise. The comment at hook.cpp:1373ff. says that key-up hotkeys never suppress releases; they do.

These are the exemptions `changed` and `second` of KH_keys. The following are excluded by the hypotheses of the theorems (`PlainPrefixes`, `SuppressedPrefixes`,
`CertainCounterparts`), which the hotkeys of that run meet:

* With `a & b::` and `a::` under the same `#HotIf WinActive`, and `^a up::`, a press of a in another window is passed on without
  NO_SUPPRESS_NEXT_UP_EVENT (hook.cpp:1436). Its release falls through from Case 2 because there is a key-up hotkey, finds none for its
  modifiers, and is suppressed as that of a prefix (hook.cpp:1373): a is stuck.
* A prefix marked as AS_PASSTHROUGH_PREFIX is not marked as used any more (hook.cpp:805, 999), so that its own hotkey fires upon release although it has
  modified another key. With `~a & b::`, `+a::` and `^a up::`: press a with Ctrl, release Ctrl, let a repeat, hold Shift, press b and release a. With `a & c::` and
  `a::` under a criterion that does not hold, `+a::`, `d & c::` and `c::`: hold a, then d, and press c, whose own hotkey fires in place of `a & c` and makes a the
  prefix. With a modifier as prefix, whose combinations are turned on after it was pressed alone and which is pressed again after another prefix.
* The key-up counterpart of a hotkey that has fired is not queued if the hotkey stood in for a combination that the criterion has turned off (`a & b::` beside `b::` and
  `b up::`, with a held), so that another modifier upon release is enough to lose it. It is queued in vain if the criterion turns it off, or if a key-up combination
  that is turned off took its place; or if its key is a toggle key that was used as a prefix, whose release only puts the toggle back (hook.cpp:980).

*Promises*

* AsyncCall adds the reference of its variable only after SendMessage (script_h.cpp:3862, 3867). If script runs inside SendMessage, by
  ahkFunction from another thread (script2.cpp:480) or an OnMessage function, and waits in Sleep, its pump may take the answer; callPromise finds no handler
  and calls Release (exports.cpp:125), the timer drops its reference, and the promise is deleted before AsyncCall calls AddRef on it. Here the
  promise is `unclaimed`, and ReferencesSound does not ask it to live; nothing is said of what the script does with it afterwards.
  If the called thread's timer still has its reference when AddRef is called, the promise survives, and Then runs a handler at once.
* Then, called while the answer has become a timer, runs the handler at once, and the timer runs it again: callPromise does not look at
  whether it has been called (`early`).
* `new Promise(func, !!atls.teb)` (script_h.cpp:3857): `atls.teb` is never NULL, so the function is never AddRef'd. A closure
  that is passed to an AsyncCall of the thread's own interpreter may be gone when its timer runs.
* At the thread limit the call's own timer counts, so callFuncDll refuses (exports.cpp:58); Catch runs although nothing threw, and with
  #MaxThreads 1 no AsyncCall ever runs its function.
* The last Release may be the called thread's, which then frees the caller's handlers.
* SetTimer without a callback, in a handler, re-arms the promise's timer; callPromise then runs again and releases once too often.

*Sent modifiers.* The moments of `TooLate`, and others:

* A modifier that the user releases between the reading of `g_modifiersLR_physical` (keyboard_mouse.cpp:867) and the event that restores it is
  stuck. So is one released between the start of a SendInput and its call: the comment at 832-835 considers only
  what is released during the call.
* A suffix hotkey's modifier that is pressed during a SendEvent, and suppressed, is taken at the end for one that is
  newly pressed: it is put down, and its release is suppressed. The comment at 889-897 considers only the state at the *start*.
* `{m Up}`, while the user holds an m that the hook suppresses and a `{m Down}` had put down, brings m back at the end, and its release is suppressed.
* The hook misses what happens while it is removed, if the system's state does not show it: a suppressed modifier that is released
  then remains in `g_modifiersLR_physical`. The comment at 2759 relies on GetModifierLRState(true) to correct the hook's state, which it
  does not do while `g_KeybdHook` is NULL; the lines after it do.
* `{Blind#}{LWin Up}` does not release a LWin that `{Blind#}` has selected: `mods_released_for_selective_blind` restores it.
* In a blind SendEvent `{m Down}` of a modifier that was held at the start is undone if the user releases it meanwhile; `Lasts` exempts it.
* A modifier that the script has let go and the user releases and presses again during a Send is up after it.
* "abc{100}def" in SendInput: the last segment passes `aLastEventCount` as its length instead of what is left (keyboard_mouse.cpp:2745-2748).
  (Sleep items are not modelled.)

## 7. What is not modelled

* In PseudoThreads: `g_MenuIsVisible`, `g_DeferMessagesForUnderlyingPump` and the
  pumps of modal dialogs, during which messages are left to the dialog's own loop; the
  termination of a worker's threads (IsPaused = -1); ExitIfNotPersistent, which
  depends on windows and hotkeys, is an `ExitMessage` that may come at any
  time in the idle pump.
* In ScriptTimers: periods and joystick polling, which shares the Windows timer.
* In MsgMonitorList: what the messages say; the threads' settings.
* In Hotkeys: the dialog about too many hotkeys, alt-tab actions, the choice between
  hook and RegisterHotKey, the fallback to another hotkey with the same suffix, the data of
  a press (A_EventInfo), the range of the T option (mMaxThreads is a UCHAR, and 256 becomes 0 before it is clamped).
* In HookThread: what the mutexes are for (other instances), failures of CreateThread, what the hook procedures do.
* In InputHooks: the text that is collected and matched; which key ends an input, or is hidden.
* In KeyHook: wildcards, neutral modifiers, scan codes, mouse events, Alt-Tab, keys that are sent rather than pressed, the forced toggle
  state, variants of one hotkey, the keystrokes that mask menus.
* In Promises: that AHK_EXECUTE runs lines without a thread of their own (all script that runs inside SendMessage counts as one thread here, and all of one
  wait is one step of `ScriptRuns`), the reuse of an address that AsyncCall returned after its deletion; parameters and values, priorities, the lifetime of the function object, the registry `g_ahkThreads` and the creation of
  interpreters, Worker.Wait; `ahkPause`, `ahkExec` and the reading of variables, which borrow another thread's thread_local state (AutoTLS) while
  that thread runs: ahkPause from another OS thread changes IsPaused and `g_nPausedThreads` unsynchronised (exports.cpp:138).
* In SendModifiers: AltGr, the keystrokes that disguise Win and Alt, SendPlay, ControlSend, Sleep items, the best guess without
  a hook, `{CtrlDown}` and the like, auto-repeat of what the user holds, the exclusion of a modifier pressed in the last 20 ms, and that the
  array's order is that of its events (only its outcome counts here).
* Components with status not_modelled in PROJECT.json, each with its reason: hotstrings are text matching in
  the hook's buffer, apart from their launch; the loader, expressions, objects,
  GUI, menus, COM, the debugger and the wrappers of system calls are sequential, or their
  correctness is a matter of text, or of the operating system; vendored libraries are
  other projects.
