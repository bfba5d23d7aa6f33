------------------------------ MODULE Hotkeys ------------------------------
(***************************************************************************)
(* From a key press to a hotkey's thread.  The hook thread decides whether *)
(* a hotkey may fire and posts it; later the main thread takes the message *)
(* from its queue, finds the variant to fire again, and launches it,       *)
(* buffers it until a thread of the variant has finished, or drops it.     *)
(* Meanwhile the script may turn variants and the whole keyboard off, and  *)
(* finding the variant may itself run script code (#HotIf).                *)
(***************************************************************************)
EXTENDS Naturals, Sequences, FiniteSets

CONSTANTS
  HotkeyIDs,       \* shk[]
  Variants,        \* HotkeyVariant objects
  VariantsOf,      \* per hotkey, its list from mFirstVariant on
  Criteria,        \* the values of Criterion to look at
  Hooked,          \* hotkeys implemented by the hook, not by RegisterHotKey
  SuspendExempt,   \* variants that work while the script is suspended
  None,            \* no variant
  MaxThreadsTotal, \* #MaxThreads
  Limits,          \* values the script gives mMaxThreads, within its range
  MaxQueue         \* bound on the messages in the queue

ASSUME HotkeysAssumption ==
  /\ None \notin Variants
  /\ VariantsOf \in [HotkeyIDs -> Seq(Variants)]
  /\ Criteria \subseteq [Variants -> {"none", "window", "hotif"}]
  /\ Hooked \subseteq HotkeyIDs
  /\ SuspendExempt \subseteq Variants
  /\ MaxThreadsTotal \in Nat /\ MaxQueue \in Nat
  /\ Limits \subseteq 1 .. MaxThreadsTotal /\ Limits # {}

VARIABLES
  Criterion,     \* per variant: "none", "window" (active or exists), "hotif";
                 \* never changes
  mEnabled, mMaxThreads, mExistingThreads, mRunAgainAfterFinished,
  g_IsSuspended,
  windows,       \* variants whose window criterion holds at present
  queue,         \* WM_HOTKEY and AHK_HOOK_HOTKEY messages
  frames         \* the main thread's stack above the idle thread

vars == <<Criterion, mEnabled, mMaxThreads, mExistingThreads, mRunAgainAfterFinished,
          g_IsSuspended, windows, queue, frames>>

switches == <<mEnabled, g_IsSuspended>>

\* The wParam of a message: the hotkey, and the variant when its expression
\* has been evaluated already.
Message == [hk : HotkeyIDs, variant : Variants \cup {None}]

\* A thread of variant v; or CriterionAllowsFiring for a message, at the i-th
\* variant, v being the global variant found so far ("search"), or in the
\* callback that evaluates the i-th variant's criterion ("eval").
Frame == [at : {"thread", "search", "eval"}, hk : HotkeyIDs,
          v : Variants \cup {None}, i : Nat]

Depth == Len(frames)
Top == frames[Depth]
At(place) == Depth > 0 /\ Top.at = place
Below == SubSeq(frames, 1, Depth - 1)

\* Script code, or the idle loop, is where the main thread stands.
Pumping == ~At("search")

\* g_nThreads when these are the frames.
ThreadsOf(stack) == Cardinality({j \in DOMAIN stack : stack[j].at # "search"})
ThreadLimitReached(stack) == ThreadsOf(stack) >= MaxThreadsTotal

(***************************************************************************)
(* Which variant may fire                                                  *)
(***************************************************************************)

Eligible(v) == mEnabled[v] /\ (~g_IsSuspended \/ v \in SuspendExempt)

Indices(hk) == DOMAIN VariantsOf[hk]

\* What the hook may put into the message of hk, true being the variants whose
\* #HotIf expression is true: a variant whose expression it has evaluated, the
\* first of those whose criterion holds, or None when it has only found that
\* some variant can fire.
Certain(hk, true) ==
  LET Fires(i) == LET v == VariantsOf[hk][i]
                  IN  /\ Eligible(v)
                      /\ \/ Criterion[v] = "window" /\ v \in windows
                         \/ Criterion[v] = "hotif" /\ v \in true
      IsGlobal(i) == LET v == VariantsOf[hk][i]
                     IN  Eligible(v) /\ Criterion[v] = "none"
      First(i) == Fires(i) /\ \A j \in Indices(hk) : Fires(j) => i <= j
  IN  {None : i \in {j \in Indices(hk) : IsGlobal(j)}} \cup
      {IF Criterion[VariantsOf[hk][i]] = "hotif" THEN VariantsOf[hk][i] ELSE None
         : i \in {j \in Indices(hk) : First(j)}}

IsCompletelyDisabled(hk) ==
  \A i \in Indices(hk) : ~mEnabled[VariantsOf[hk][i]]
IsExemptFromSuspend(hk) ==
  \E i \in Indices(hk) : VariantsOf[hk][i] \in SuspendExempt
Inactive(hk) ==
  (g_IsSuspended /\ ~IsExemptFromSuspend(hk)) \/ IsCompletelyDisabled(hk)

(***************************************************************************)
(* Key presses                                                             *)
(***************************************************************************)

Post(message) ==
  /\ Len(queue) < MaxQueue
  /\ queue' = Append(queue, message)

\* The hook thread: CriterionFiringIsCertain, then PostMessage.  The variant
\* goes into the message only when its expression has been evaluated.
HookPress(hk, true) ==
  /\ hk \in Hooked
  /\ \E v \in Certain(hk, true) :
       Post([hk |-> hk, variant |-> v])
  /\ UNCHANGED <<mEnabled, mMaxThreads, mExistingThreads,
                 mRunAgainAfterFinished, g_IsSuspended, windows, frames>>

\* The system posts WM_HOTKEY for a registered hotkey.
RegisteredPress(hk) ==
  /\ hk \notin Hooked /\ ~Inactive(hk)
  /\ Post([hk |-> hk, variant |-> None])
  /\ UNCHANGED <<mEnabled, mMaxThreads, mExistingThreads,
                 mRunAgainAfterFinished, g_IsSuspended, windows, frames>>

\* Windows open, close and become active on their own.
WindowsChange(v) ==
  /\ Criterion[v] = "window"
  /\ windows' = IF v \in windows THEN windows \ {v} ELSE windows \cup {v}
  /\ UNCHANGED <<mEnabled, mMaxThreads, mExistingThreads,
                 mRunAgainAfterFinished, g_IsSuspended, queue, frames>>

(***************************************************************************)
(* MsgSleep: a hotkey message                                              *)
(***************************************************************************)

\* (Mutant) One thread too many.
PerformIsAlmostAllowed(v) == mExistingThreads[v] <= mMaxThreads[v]

PerformIsAllowed(v) == mExistingThreads[v] < mMaxThreads[v]

\* What MsgSleep does with variant v, the frames being those below: buffer
\* the press, launch the variant, or drop it for the thread limit or the
\* priority of the running thread.
Consider(hk, v, below) ==
  IF ~PerformIsAllowed(v)
  THEN /\ frames' = below
       /\ \E buffer \in BOOLEAN :   \* mMaxThreadsBuffer
            mRunAgainAfterFinished' =
              [mRunAgainAfterFinished EXCEPT ![v] = @ \/ buffer]
       /\ UNCHANGED mExistingThreads
  ELSE /\ UNCHANGED mRunAgainAfterFinished
       /\ \/ /\ frames' = below
             /\ UNCHANGED mExistingThreads
          \/ /\ ~ThreadLimitReached(below)
             /\ frames' = Append(below, [at |-> "thread", hk |-> hk, v |-> v,
                                         i |-> 0])
             /\ mExistingThreads' = [mExistingThreads EXCEPT ![v] = @ + 1]

\* The message names its variant, or the search for one begins.
TakeMessage ==
  /\ Pumping /\ queue # <<>>
  /\ queue' = Tail(queue)
  /\ LET m == Head(queue)
     IN  IF m.variant # None
         THEN Consider(m.hk, m.variant, frames)
         ELSE /\ frames' = Append(frames, [at |-> "search", hk |-> m.hk,
                              v |-> None, i |-> 1])
              /\ UNCHANGED <<mExistingThreads, mRunAgainAfterFinished>>
  /\ UNCHANGED <<switches, mMaxThreads, windows>>

Searching == At("search") /\ Top.i \in Indices(Top.hk)
Candidate == VariantsOf[Top.hk][Top.i]

\* A variant that may not fire, or a global one, which fires if no other does.
Pass ==
  /\ Searching
  /\ Eligible(Candidate) /\ Criterion[Candidate] = "window"
       => Candidate \notin windows
  /\ Eligible(Candidate) /\ Criterion[Candidate] = "hotif"
       => ThreadLimitReached(frames)
  /\ frames' = [frames EXCEPT ![Depth].i = @ + 1,
       ![Depth].v = IF Eligible(Candidate) /\ Criterion[Candidate] = "none"
                    THEN Candidate ELSE @]
  /\ UNCHANGED <<switches, mMaxThreads, mExistingThreads,
                 mRunAgainAfterFinished, windows, queue>>

\* (Mutant) mEnabled and g_IsSuspended are not looked at.
FireAnyway ==
  /\ Searching
  /\ Criterion[Candidate] = "window" /\ Candidate \in windows
  /\ Consider(Top.hk, Candidate, Below)
  /\ UNCHANGED <<switches, mMaxThreads, windows, queue>>

Fire ==
  /\ Searching
  /\ Eligible(Candidate)
  /\ Criterion[Candidate] = "window" /\ Candidate \in windows
  /\ Consider(Top.hk, Candidate, Below)
  /\ UNCHANGED <<switches, mMaxThreads, windows, queue>>

\* HotkeyCriterion::Eval: a thread for the expression.
Eval ==
  /\ Searching
  /\ Eligible(Candidate) /\ Criterion[Candidate] = "hotif"
  /\ ~ThreadLimitReached(frames)
  /\ frames' = [frames EXCEPT ![Depth].at = "eval"]
  /\ UNCHANGED <<switches, mMaxThreads, mExistingThreads,
                 mRunAgainAfterFinished, windows, queue>>

EvalReturns(result) ==
  /\ At("eval")
  /\ IF result
     THEN Consider(Top.hk, Candidate, Below)
     ELSE /\ frames' = [frames EXCEPT ![Depth].at = "search",
                                      ![Depth].i = @ + 1]
          /\ UNCHANGED <<mExistingThreads, mRunAgainAfterFinished>>
  /\ UNCHANGED <<switches, mMaxThreads, windows, queue>>

SearchEnds ==
  /\ At("search") /\ Top.i \notin Indices(Top.hk)
  /\ IF Top.v = None
     THEN /\ frames' = Below
          /\ UNCHANGED <<mExistingThreads, mRunAgainAfterFinished>>
     ELSE Consider(Top.hk, Top.v, Below)
  /\ UNCHANGED <<switches, mMaxThreads, windows, queue>>

CountedDown(v) == [mExistingThreads EXCEPT ![v] = @ - 1]

\* (Mutant) The buffered press is kept after it was posted or found too old.
StillBuffered(v) == mRunAgainAfterFinished

BufferCleared(v) == [mRunAgainAfterFinished EXCEPT ![v] = FALSE]

\* PerformInNewThreadMadeByCaller after the callback: a buffered press that
\* is not too old is posted again, as WM_HOTKEY of the same hotkey.
ThreadEnds(failed, old) ==
  /\ At("thread")
  /\ frames' = Below
  /\ mExistingThreads' = CountedDown(Top.v)
  /\ mRunAgainAfterFinished' = BufferCleared(Top.v)
  /\ IF mRunAgainAfterFinished[Top.v] /\ ~failed /\ ~old
     THEN Post([hk |-> Top.hk, variant |-> None])
     ELSE UNCHANGED queue
  /\ UNCHANGED <<switches, mMaxThreads, windows>>

(***************************************************************************)
(* The script changes its hotkeys                                          *)
(***************************************************************************)

\* ManifestAllHotkeysHotstringsHooks forgets the buffered presses of every
\* registered hotkey that has become inactive.
Unregistered(v) ==
  \E hk \in HotkeyIDs \ Hooked :
    /\ \E i \in Indices(hk) : VariantsOf[hk][i] = v
    /\ Inactive(hk)'

\* Hotkey "On" / "Off".
Enable(v) ==
  /\ Pumping /\ ~mEnabled[v]
  /\ mEnabled' = [mEnabled EXCEPT ![v] = TRUE]
  /\ UNCHANGED <<mMaxThreads, mExistingThreads, mRunAgainAfterFinished,
                 g_IsSuspended, windows, queue, frames>>

Disable(v) ==
  /\ Pumping /\ mEnabled[v]
  /\ mEnabled' = [mEnabled EXCEPT ![v] = FALSE]
  /\ UNCHANGED g_IsSuspended
  /\ mRunAgainAfterFinished' =
       [u \in Variants |->
          mRunAgainAfterFinished[u] /\ u # v /\ ~Unregistered(u)]
  /\ UNCHANGED <<mMaxThreads, mExistingThreads, windows, queue, frames>>

ToggleSuspendState ==
  /\ Pumping
  /\ g_IsSuspended' = ~g_IsSuspended
  /\ UNCHANGED mEnabled
  /\ mRunAgainAfterFinished' =
       [u \in Variants |-> mRunAgainAfterFinished[u] /\ ~Unregistered(u)]
  /\ UNCHANGED <<mMaxThreads, mExistingThreads, windows, queue, frames>>

\* Pause, and the warning that too many hotkeys have been received.
ResetRunAgainAfterFinished ==
  /\ Pumping
  /\ mRunAgainAfterFinished' = [v \in Variants |-> FALSE]
  /\ UNCHANGED <<switches, mMaxThreads, mExistingThreads, windows, queue,
                 frames>>

\* The T option of Hotkey.
SetMaxThreads(v, limit) ==
  /\ Pumping
  /\ mMaxThreads' = [mMaxThreads EXCEPT ![v] = limit]
  /\ UNCHANGED <<switches, mExistingThreads, mRunAgainAfterFinished, windows,
                 queue, frames>>

----------------------------------------------------------------------------

Init ==
  /\ Criterion \in Criteria
  /\ mEnabled = [v \in Variants |-> TRUE]
  /\ mMaxThreads \in [Variants -> Limits]   \* #MaxThreadsPerHotkey
  /\ mExistingThreads = [v \in Variants |-> 0]
  /\ mRunAgainAfterFinished = [v \in Variants |-> FALSE]
  /\ g_IsSuspended = FALSE
  /\ windows = {}
  /\ queue = <<>> /\ frames = <<>>

Steps ==
  \/ \E hk \in HotkeyIDs :
       RegisteredPress(hk) \/ \E true \in SUBSET Variants : HookPress(hk, true)
  \/ \E v \in Variants :
       \/ WindowsChange(v) \/ Enable(v) \/ Disable(v)
       \/ \E n \in Limits : SetMaxThreads(v, n)
  \/ ToggleSuspendState \/ ResetRunAgainAfterFinished
  \/ TakeMessage \/ Pass \/ Fire \/ Eval \/ SearchEnds
  \/ \E result \in BOOLEAN : EvalReturns(result)
  \/ \E failed, old \in BOOLEAN : ThreadEnds(failed, old)

Next == Steps /\ UNCHANGED Criterion

Spec == Init /\ [][Next]_vars

----------------------------------------------------------------------------
(***************************************************************************)
(* Properties                                                              *)
(***************************************************************************)

\* Every variable has its type.
TypeOK ==
  /\ mEnabled \in [Variants -> BOOLEAN] /\ mMaxThreads \in [Variants -> Limits]
  /\ mExistingThreads \in [Variants -> Nat]
  /\ mRunAgainAfterFinished \in [Variants -> BOOLEAN]
  /\ g_IsSuspended \in BOOLEAN
  /\ windows \subseteq Variants
  /\ queue \in Seq(Message) /\ frames \in Seq(Frame)

ThreadsOfVariant(v, stack) ==
  Cardinality({j \in DOMAIN stack : stack[j].at = "thread" /\ stack[j].v = v})

\* mExistingThreads is the number of threads the variant has on the stack, and a
\* buffered press waits for one of them, which will end and answer it: it never
\* outlives them to go off after some later press.
BufferedPressHasThread ==
  \A v \in Variants :
    /\ mExistingThreads[v] = ThreadsOfVariant(v, frames)
    /\ mRunAgainAfterFinished[v] => ThreadsOfVariant(v, frames) > 0

\* A step launches a thread of variant v.
Launches(v) == ThreadsOfVariant(v, frames') > ThreadsOfVariant(v, frames)

\* No more threads of a variant than its limit are launched, however its
\* message reached the main thread and whatever ran in between.
LimitRespected ==
  [][\A v \in Variants :
       Launches(v) => ThreadsOfVariant(v, frames') <= mMaxThreads[v]]_vars

\* In some hotkey's list, v comes before a variant with a #HotIf expression, so
\* that the search may run script code after it has looked at v.
BeforeHotIf(v) ==
  \E hk \in HotkeyIDs :
    \E i, j \in Indices(hk) :
      /\ i < j /\ VariantsOf[hk][i] = v
      /\ Criterion[VariantsOf[hk][j]] = "hotif"

\* A press that is still queued when its variant is turned off, or the script
\* suspended, does not launch the variant.  Only script code that runs within
\* the search itself comes too late: a variant with a #HotIf expression is not
\* looked at again once that has been evaluated, and a global variant not again
\* after the expressions that follow it in the list.
TurnedOffStaysSilent ==
  [][\A v \in Variants :
       Launches(v) =>
         Eligible(v) \/ Criterion[v] = "hotif" \/ BeforeHotIf(v)]_vars

============================================================================
