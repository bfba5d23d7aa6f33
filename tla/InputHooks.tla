---------------------------- MODULE InputHooks ----------------------------
(* InputHook objects (lib/input.cpp, input_object.cpp): the chain g_input, which the
   main thread changes while the hook thread walks it; the end of an input, which
   either thread can cause and the main thread completes when AHK_INPUT_END
   arrives; and the references that keep an active object alive. *)
EXTENDS Integers, Sequences, SequencesExt, FiniteSets

CONSTANTS
  Inputs,     \* addresses of InputObject, whose `input` is embedded
  Null,
  WithOnEnd,  \* inputs whose OnEnd is set
  MaxRefs,    \* bound: references to an object
  MaxQueue,   \* bound: messages posted and not yet retrieved
  MaxThreads  \* bound: OnEnd callbacks running, one on top of another

ASSUME InputAssumption ==
  /\ IsFiniteSet(Inputs) /\ Null \notin Inputs /\ WithOnEnd \subseteq Inputs
  /\ {MaxRefs, MaxQueue, MaxThreads} \subseteq Nat

VARIABLES
  head,      \* g_input
  prev,      \* input_type::Prev
  progress,  \* input_type::Status = INPUT_IN_PROGRESS
  refs,      \* the reference count of the object; 0: it is deleted
  held,      \* objects that a script variable refers to
  queue,     \* AHK_INPUT_END and the key notifications, in order
  main,      \* what the main thread is doing, and with which input
  ending,    \* inputs whose OnEnd is running, innermost last
  hook,      \* where the hook thread stands in CollectInput, CollectInputHook
  installed, \* the keyboard hook
  due,       \* history: inputs that the walk has yet to come to
  twice      \* history: an input has been ended by both threads

vars == <<head, prev, progress, refs, held, queue, main, ending, hook, installed, due, twice>>

Script == [pc |-> "script", input |-> Null]
\* pass: 0 outside, 1 in CollectInput's loop, 2 in CollectInputHook's.  `old`: the
\* event began before the main thread's WaitHookIdle.
Outside == [pass |-> 0, at |-> Null, saw |-> FALSE, old |-> FALSE]
EndOf(i) == [type |-> "end", input |-> i]
NotifyOf(i) == [type |-> "notify", input |-> i]

\* The inputs on the chain, in order from g_input.
Walked[n \in 0..Cardinality(Inputs)] ==
  IF n = 0 THEN head ELSE IF Walked[n - 1] = Null THEN Null ELSE prev[Walked[n - 1]]
Chain == {Walked[n] : n \in 0..Cardinality(Inputs)} \ {Null}

\* The script can reach an object through a variable or the parameter of OnEnd.
Reachable(i) == i \in held \/ i \in ToSet(ending)

Init ==
  /\ head = Null
  /\ prev = [i \in Inputs |-> Null]
  /\ progress = [i \in Inputs |-> FALSE]
  /\ refs = [i \in Inputs |-> 0]
  /\ held = {}
  /\ queue = <<>>
  /\ main = Script
  /\ ending = <<>>
  /\ hook = Outside
  /\ installed = FALSE
  /\ due = {}
  /\ twice = FALSE

----------------------------------------------------------------------------
(* The script *)

\* InputHook(): a new object, possibly where a deleted one was.
New(i) ==
  /\ main = Script
  /\ refs[i] = 0
  /\ refs' = [refs EXCEPT ![i] = 1]
  /\ held' = held \cup {i}
  /\ prev' = [prev EXCEPT ![i] = Null]
  /\ progress' = [progress EXCEPT ![i] = FALSE]
  /\ UNCHANGED <<head, queue, main, ending, hook, installed, due, twice>>

Discard(i) ==
  /\ main = Script
  /\ i \in held
  /\ held' = held \ {i}
  /\ refs' = [refs EXCEPT ![i] = @ - 1]
  /\ UNCHANGED <<head, prev, progress, queue, main, ending, hook, installed, due, twice>>

\* (Mutant) Only the head of the chain is unlinked.
UnlinkHead(i) == head' = (IF head = i THEN prev[i] ELSE head) /\ UNCHANGED prev

\* InputFindLink and the assignment of *found.
Unlink(i) ==
  IF head = i THEN head' = prev[i] /\ UNCHANGED prev
  ELSE /\ prev' = [prev EXCEPT ![CHOOSE p \in Chain : prev[p] = i] = prev[i]]
       /\ UNCHANGED head

\* WaitHookIdle begins: an event that is being processed must end first.
\* (Mutant) Nothing is waited for.
HookUnmarked == hook
HookMarked == [hook EXCEPT !.old = (hook.pass # 0)]
HookIsIdle == ~hook.old

\* The rest of InputStart.
Link(i) ==
  /\ prev' = [prev EXCEPT ![i] = head]
  /\ head' = i
  /\ progress' = [progress EXCEPT ![i] = TRUE]
  /\ installed' = TRUE

\* InputObject::Start.  The input is still on the chain if its AHK_INPUT_END is queued.
Start(i) ==
  /\ main = Script
  /\ Reachable(i) /\ ~progress[i]
  /\ refs[i] < MaxRefs
  /\ refs' = [refs EXCEPT ![i] = @ + 1]
  /\ IF i \in Chain
       THEN /\ Unlink(i)
            /\ hook' = HookMarked
            /\ main' = [pc |-> "restarting", input |-> i]
            /\ UNCHANGED <<progress, installed>>
       ELSE /\ Link(i)
            /\ UNCHANGED <<hook, main>>
  /\ UNCHANGED <<held, queue, ending, due, twice>>

Restart ==
  /\ main.pc = "restarting"
  /\ HookIsIdle
  /\ Link(main.input)
  /\ main' = Script
  /\ UNCHANGED <<refs, held, queue, ending, hook, due, twice>>

\* EndByReason, called by the main thread.
EndedByMain(i) ==
  /\ progress[i]
  /\ Len(queue) < MaxQueue
  /\ progress' = [progress EXCEPT ![i] = FALSE]
  /\ queue' = Append(queue, EndOf(i))
  /\ due' = due \ {i}
  /\ UNCHANGED <<head, prev, refs, held, main, ending, hook, installed, twice>>

Stop(i) == main = Script /\ Reachable(i) /\ EndedByMain(i)

\* InputTimeout, a timer procedure: it also runs while WaitHookIdle pumps.
Timeout(i) == i \in Chain /\ EndedByMain(i)

----------------------------------------------------------------------------
(* The message pump *)

MaybeUninstallHook(newHead) ==
  /\ newHead = Null => hook.pass = 0
  /\ installed' = (newHead # Null)

Released(i) == refs' = [refs EXCEPT ![i] = @ - 1]

\* What follows InputRelease: OnEnd runs in a new thread, unless the thread limit or
\* the current thread's priority forbids it; without it the reference is given up.
\* (Mutant) The reference is given up before OnEnd as well as after it.
CompletedAndReleased(i) ==
  \/ /\ i \in WithOnEnd
     /\ Len(ending) < MaxThreads
     /\ ending' = Append(ending, i)
     /\ Released(i)
  \/ /\ Released(i)
     /\ UNCHANGED ending

Completed(i) ==
  \/ /\ i \in WithOnEnd
     /\ Len(ending) < MaxThreads
     /\ ending' = Append(ending, i)
     /\ UNCHANGED refs
  \/ /\ Released(i)
     /\ UNCHANGED ending

\* AHK_INPUT_END.  An input that has been started again since stays where it is.
TakeEnd ==
  /\ main = Script
  /\ queue # <<>> /\ Head(queue).type = "end"
  /\ queue' = Tail(queue)
  /\ LET i == Head(queue).input
     IN  \/ /\ i \notin Chain
            /\ UNCHANGED <<head, prev, refs, main, ending, hook, installed>>
         \/ /\ i \in Chain /\ progress[i]
            /\ Completed(i)
            /\ UNCHANGED <<head, prev, main, hook, installed>>
         \/ /\ i \in Chain /\ ~progress[i]
            /\ Unlink(i)
            /\ hook' = HookMarked
            /\ main' = [pc |-> "releasing", input |-> i]
            /\ UNCHANGED <<refs, ending, installed>>
  /\ UNCHANGED <<progress, held, due, twice>>

Release ==
  /\ main.pc = "releasing"
  /\ HookIsIdle
  /\ prev' = [prev EXCEPT ![main.input] = Null]
  /\ MaybeUninstallHook(head)
  /\ Completed(main.input)
  /\ main' = Script
  /\ UNCHANGED <<head, progress, held, queue, hook, due, twice>>

\* AHK_INPUT_KEYDOWN, AHK_INPUT_CHAR, AHK_INPUT_KEYUP: dropped unless the input is
\* on the chain.  The callback is script code: any action of the script.
TakeNotify ==
  /\ main = Script
  /\ queue # <<>> /\ Head(queue).type = "notify"
  /\ queue' = Tail(queue)
  /\ UNCHANGED <<head, prev, progress, refs, held, main, ending, hook, installed, due, twice>>

OnEndReturns ==
  /\ main = Script
  /\ ending # <<>>
  /\ ending' = Front(ending)
  /\ Released(Last(ending))
  /\ UNCHANGED <<head, prev, progress, held, queue, main, hook, installed, due, twice>>

----------------------------------------------------------------------------
(* The hook thread *)

othersOfHook == <<head, prev, refs, held, main, ending, installed>>

EventBegins ==
  /\ installed
  /\ hook.pass = 0
  /\ hook' = [hook EXCEPT !.pass = 1, !.at = head]
  /\ UNCHANGED <<othersOfHook, progress, queue, due, twice>>

\* The first loop is over; the second starts again from g_input.
SecondPass ==
  /\ hook.pass = 1 /\ hook.at = Null
  /\ hook' = [hook EXCEPT !.pass = 2, !.at = head]
  /\ due' = {i \in Chain : progress[i]}
  /\ UNCHANGED <<othersOfHook, progress, queue, twice>>

EventEnds ==
  /\ hook.pass \in {1, 2}
  /\ \/ hook.pass = 2 /\ hook.at = Null
     \/ hook.pass = 1 /\ hook.saw  \* a suppressed key-up
  /\ hook' = Outside
  /\ due' = {}
  /\ UNCHANGED <<othersOfHook, progress, queue, twice>>

Advanced == [hook EXCEPT !.at = prev[hook.at], !.saw = FALSE]

\* InProgress is read here, and what follows relies on it.
Visit ==
  /\ hook.at # Null /\ ~hook.saw
  /\ hook' = IF progress[hook.at] THEN [hook EXCEPT !.saw = TRUE] ELSE Advanced
  /\ due' = due \ {hook.at}
  /\ UNCHANGED <<othersOfHook, progress, queue, twice>>

\* The key is of no interest to the input, or is collected, maybe with a notification.
\* An input that hides the key from the others ends the walk.
Collect ==
  /\ hook.at # Null /\ hook.saw
  /\ \/ UNCHANGED queue
     \/ /\ Len(queue) < MaxQueue
        /\ queue' = Append(queue, NotifyOf(hook.at))
  /\ \/ hook' = Advanced /\ UNCHANGED due
     \/ hook.pass = 2 /\ hook' = Outside /\ due' = {}
  /\ UNCHANGED <<othersOfHook, progress, twice>>

\* EndByKey, EndByChar or EndByMatch.
EndsByKey ==
  /\ hook.pass = 2
  /\ hook.at # Null /\ hook.saw
  /\ Len(queue) < MaxQueue
  /\ progress' = [progress EXCEPT ![hook.at] = FALSE]
  /\ queue' = Append(queue, EndOf(hook.at))
  /\ twice' = (twice \/ ~progress[hook.at])
  /\ \/ hook' = Advanced /\ UNCHANGED due
     \/ hook' = Outside /\ due' = {}
  /\ UNCHANGED othersOfHook

----------------------------------------------------------------------------
Pump == TakeEnd \/ TakeNotify \/ Release \/ Restart
HookSteps == SecondPass \/ EventEnds \/ Visit \/ Collect \/ EndsByKey

Next ==
  \/ \E i \in Inputs : New(i) \/ Discard(i) \/ Start(i) \/ Stop(i) \/ Timeout(i)
  \/ Pump \/ OnEndReturns
  \/ EventBegins \/ HookSteps

\* The script comes back to its message pump, and an event is processed to its end.
\* To remove the hook is a message that the hook thread takes between two events.
Fairness == WF_vars(Pump) /\ SF_vars(Release) /\ WF_vars(HookSteps)

Spec == Init /\ [][Next]_vars /\ Fairness

----------------------------------------------------------------------------
(* Properties.  Each holds as long as no input is ended by both threads at once;
   section 6 of the README tells what follows then. *)

\* The chain ends: no input is on it twice ("to prevent the list from looping back on
\* itself"), and an input in progress is on it and the hook installed, or nothing would
\* be collected for it.  "Keep the object alive while it is active, even if the script
\* discards it": what is on the chain, or being read by the hook, is not deleted.
ChainSound ==
  ~twice =>
  /\ Walked[Cardinality(Inputs)] = Null
  /\ \A i \in Inputs : progress[i] => i \in Chain /\ installed
  /\ \A i \in Chain : refs[i] > 0
  /\ hook.at # Null => refs[hook.at] > 0

\* The hook comes to every input that was in progress when its walk began and still
\* is, whatever the main thread unlinks meanwhile.
WalkComplete == ~twice /\ hook.pass = 2 /\ hook.at = Null => due = {}

\* An input that has ended leaves the chain, unless it is started again.
EndedInputLeaves ==
  []~twice => \A i \in Inputs : (i \in Chain /\ ~progress[i]) ~> (i \notin Chain \/ progress[i])
============================================================================
