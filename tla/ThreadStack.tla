---------------------------- MODULE ThreadStack ----------------------------
(***************************************************************************)
(* What the quasi-threads promise a script, without the messages, pumps    *)
(* and grace periods that bring it about: threads interrupt one another    *)
(* like nested calls; an interrupted thread finds its priority, its        *)
(* Critical and its NoTimers setting as it left them; there are never more *)
(* than MaxThreads of them, besides the one that runs the OnExit functions *)
(* and, once the auto-execute thread has ended, the idle one.              *)
(***************************************************************************)
EXTENDS Integers

CONSTANTS
  MaxThreads,    \* #MaxThreads
  Prios,         \* the priorities a thread may have
  Launchers      \* what may launch a thread; "auto", "exit" and "none" among it

VARIABLES
  threads,       \* per slot, the thread's launcher and settings
  top,           \* the slot of the running thread
  idle           \* the auto-execute thread has become the idle thread

vars == <<threads, top, idle>>

Slots == 0 .. MaxThreads + 1

Thread == [by : Launchers \ {"none"}, prio : Prios, critical : BOOLEAN,
           timers : BOOLEAN]

NoThread == [by |-> "none", prio |-> 0, critical |-> FALSE, timers |-> TRUE]

Counted == IF idle THEN top ELSE top + 1

ExitThreadRuns == \E i \in Slots : threads[i].by = "exit"

\* A thread interrupts the running one, within the limit; or the OnExit
\* functions do, whatever the limit.
Launch(t) ==
  /\ t.by \notin {"auto", "exit"} => Counted < MaxThreads
  /\ t.by # "auto"
  /\ t.by = "exit" => ~ExitThreadRuns
  /\ top' = top + 1
  /\ threads' = [threads EXCEPT ![top + 1] = t]
  /\ UNCHANGED idle

\* The running thread changes its own settings, or its slot goes on to the
\* next subroutine; no other thread changes.
Continue(t) ==
  /\ \A by \in {"auto", "exit"} : t.by = by <=> threads[top].by = by
  /\ threads' = [threads EXCEPT ![top] = t]
  /\ UNCHANGED <<top, idle>>

\* The running thread ends, and the one it interrupted goes on.
Finish ==
  /\ top > 0
  /\ threads' = [threads EXCEPT ![top] = NoThread]
  /\ top' = top - 1
  /\ UNCHANGED idle

\* The auto-execute thread ends: its slot stays, as the idle thread.
BecomeIdle(t) ==
  /\ ~idle /\ top = 0
  /\ t.by = "auto"
  /\ threads' = [threads EXCEPT ![0] = t]
  /\ idle' = TRUE
  /\ UNCHANGED top

Init ==
  /\ threads = [i \in Slots |->
                  IF i = 0 THEN [NoThread EXCEPT !.by = "auto"] ELSE NoThread]
  /\ top = 0
  /\ idle = FALSE

Next ==
  \/ \E t \in Thread : Launch(t) \/ Continue(t) \/ BecomeIdle(t)
  \/ Finish

Spec == Init /\ [][Next]_vars

============================================================================
