---------------------------- MODULE ScriptTimers ----------------------------
(***************************************************************************)
(* The list of script timers (SetTimer), the passes of CheckScriptTimers   *)
(* over it, and the one Windows timer that drives them.                    *)
(*                                                                         *)
(* A pass runs the callbacks of the timers that are due, and a callback    *)
(* may create, change or delete any timer, and sleep, which lets a nested  *)
(* pass start.  Deleting a timer releases its callback object, whose       *)
(* __Delete method is script code too.  frames is the C++ stack of these   *)
(* activations.  Whether a period has elapsed is left open.                *)
(***************************************************************************)
EXTENDS Naturals, Sequences, FiniteSets

CONSTANTS
  Callbacks,   \* callback objects the script passes to SetTimer
  Timers,      \* addresses of ScriptTimer objects
  Null,        \* the null pointer
  MaxPasses,   \* bound on nested passes, as the thread limit gives one
  MaxLayers    \* bound on nested Sleep calls

ASSUME TimersAssumption ==
  /\ IsFiniteSet(Timers) /\ IsFiniteSet(Callbacks)
  /\ Null \notin Timers
  /\ MaxPasses \in Nat /\ MaxLayers \in Nat

VARIABLES
  timers,              \* the ScriptTimer objects, by address
  alloc,               \* addresses holding an object
  mFirstTimer, mLastTimer,
  mTimerCount, mTimerEnabledCount,
  g_nLayersNeedingTimer,
  g_MainTimerExists,
  frames               \* the C++ stack

list == <<mFirstTimer, mLastTimer, mTimerCount, alloc>>
vars == <<timers, list, mTimerEnabledCount, g_nLayersNeedingTimer,
          g_MainTimerExists, frames>>

Pointer == Timers \cup {Null}
NoCallback == Null

Timer == [cb : Callbacks \cup {NoCallback}, enabled : BOOLEAN, once : BOOLEAN,
          running : Nat, locked : Nat, next : Pointer]

Free == [cb |-> NoCallback, enabled |-> FALSE, once |-> FALSE,
         running |-> 0, locked |-> 0, next |-> Null]

\* A frame: the script itself ("script"), a MsgSleep layer ("sleep"), or a
\* pass, which is running the callback of timer cur ("run"), looking at timer
\* this to delete it ("reap"), in a __Delete of the callback of a timer it
\* deleted ("deleting"), or about to look for the next due timer from this on
\* ("scan").
Frame == [at : {"script", "sleep", "run", "reap", "deleting", "scan"},
          cur : Pointer, this : Pointer, nxt : Pointer]

NewFrame(at) == [at |-> at, cur |-> Null, this |-> Null, nxt |-> Null]

Depth == Len(frames)
Top == frames[Depth]
At(places) == Top.at \in places
Replace(frame) == frames' = [frames EXCEPT ![Depth] = frame]
Pop == frames' = SubSeq(frames, 1, Depth - 1)
FramesAt(places) == {i \in 1 .. Depth : frames[i].at \in places}

\* Script code is running.
InScript == At({"script", "run", "deleting"})

\* The timers from pointer p on, in list order: Nth(p)[k] is the k-th.
Nth(p) ==
  LET nth[k \in 0 .. Cardinality(Timers)] ==
        IF k = 0 THEN p
        ELSE IF nth[k - 1] = Null THEN Null ELSE timers[nth[k - 1]].next
  IN  nth
From(p) == {Nth(p)[k] : k \in 0 .. Cardinality(Timers)} \ {Null}

TimerOf(cb) == {t \in From(mFirstTimer) : timers[t].cb = cb}

(***************************************************************************)
(* The Windows timer                                                       *)
(***************************************************************************)

\* KILL_MAIN_TIMER, under the condition its callers share.
\* (Mutant) The sleeping layers are forgotten.
MainTimerForTimers(enabled, layers) == g_MainTimerExists /\ enabled > 0

MainTimerAfter(enabled, layers) ==
  g_MainTimerExists /\ (enabled > 0 \/ layers > 0)

(***************************************************************************)
(* SetTimer                                                                *)
(***************************************************************************)

\* ScriptTimer::Disable, given the objects with t's mEnabled cleared.
CountDisabled ==
  /\ mTimerEnabledCount' = mTimerEnabledCount - 1
  /\ g_MainTimerExists' =
       MainTimerAfter(mTimerEnabledCount - 1, g_nLayersNeedingTimer)

CountEnabled ==
  /\ mTimerEnabledCount' = mTimerEnabledCount + 1
  /\ g_MainTimerExists' = TRUE

CountUnchanged == UNCHANGED <<mTimerEnabledCount, g_MainTimerExists>>

\* UpdateOrCreateTimer on a callback that has no timer: append one.
CreateTimer(cb, once) ==
  /\ InScript /\ TimerOf(cb) = {}
  /\ \E t \in Timers \ alloc :
       LET new == [Free EXCEPT !.cb = cb, !.enabled = TRUE, !.once = once]
       IN  /\ alloc' = alloc \cup {t}
           /\ mLastTimer' = t
           /\ IF mFirstTimer = Null
              THEN /\ mFirstTimer' = t
                   /\ timers' = [timers EXCEPT ![t] = new]
              ELSE /\ UNCHANGED mFirstTimer
                   /\ timers' = [timers EXCEPT ![t] = new,
                                               ![mLastTimer].next = t]
  /\ mTimerCount' = mTimerCount + 1
  /\ CountEnabled
  /\ UNCHANGED <<g_nLayersNeedingTimer, frames>>

CountUpdated(t) ==
  IF timers[t].enabled THEN CountUnchanged ELSE CountEnabled

\* UpdateOrCreateTimer on an existing timer, enabled or marked for deletion.
UpdateTimer(cb, once) ==
  /\ InScript
  /\ \E t \in TimerOf(cb) :
       /\ timers' = [timers EXCEPT ![t].enabled = TRUE, ![t].once = once]
       /\ CountUpdated(t)
  /\ UNCHANGED <<list, g_nLayersNeedingTimer, frames>>

\* The timer before t in the list.
Previous(t) == {p \in From(mFirstTimer) : timers[p].next = t}

\* Unlinks t and deletes it.
Unlink(t) ==
  /\ alloc' = alloc \ {t}
  /\ mTimerCount' = mTimerCount - 1
  /\ mFirstTimer' = IF mFirstTimer = t THEN timers[t].next ELSE mFirstTimer
  /\ mLastTimer' = IF mLastTimer # t THEN mLastTimer
                   ELSE IF Previous(t) = {} THEN Null
                   ELSE CHOOSE p \in Previous(t) : TRUE

\* (Mutant) The timer before t still points at it.
UnlinkedForgetful(t) == [timers EXCEPT ![t] = Free]

Unlinked(t) ==
  [s \in Timers |->
     IF s = t THEN Free
     ELSE IF s \in Previous(t) THEN [timers[s] EXCEPT !.next = timers[t].next]
     ELSE timers[s]]

\* (Mutant) The next timer of a pass is not protected.
HeldByThread(t) == timers[t].running > 0

\* Whether the timer is held by a pass, hence only disabled.
Held(t) == timers[t].running > 0 \/ timers[t].locked > 0

CountDeleted(t) ==
  IF timers[t].enabled THEN CountDisabled ELSE CountUnchanged

\* SetTimer cb, 0 from the script.
DeleteTimer(cb) ==
  /\ InScript
  /\ \E t \in TimerOf(cb) :
       /\ CountDeleted(t)
       /\ IF Held(t)
          THEN /\ timers' = [timers EXCEPT ![t].enabled = FALSE]
               /\ UNCHANGED list
          ELSE /\ timers' = Unlinked(t)
               /\ Unlink(t)
  /\ UNCHANGED <<g_nLayersNeedingTimer, frames>>

(***************************************************************************)
(* MsgSleep                                                                *)
(***************************************************************************)

\* A layer that waits: it needs the timer to be woken when its time is over.
Sleep ==
  /\ InScript /\ g_nLayersNeedingTimer < MaxLayers
  /\ g_nLayersNeedingTimer' = g_nLayersNeedingTimer + 1
  /\ g_MainTimerExists' = TRUE
  /\ frames' = Append(frames, NewFrame("sleep"))
  /\ UNCHANGED <<timers, list, mTimerEnabledCount>>

\* RETURN_FROM_MSGSLEEP.
SleepReturns ==
  /\ At({"sleep"})
  /\ g_nLayersNeedingTimer' = g_nLayersNeedingTimer - 1
  /\ g_MainTimerExists' =
       MainTimerAfter(mTimerEnabledCount, g_nLayersNeedingTimer - 1)
  /\ Pop
  /\ UNCHANGED <<timers, list, mTimerEnabledCount>>

(***************************************************************************)
(* CheckScriptTimers                                                       *)
(***************************************************************************)

\* Timers the loop may launch, from pointer p on.
Runnable(p) == {t \in From(p) : timers[t].enabled /\ timers[t].running = 0}

\* Marks t as running, disabling it first when it is to run only once.
Launch(t) ==
  /\ timers' = [timers EXCEPT ![t].running = @ + 1,
                              ![t].enabled = ~timers[t].once]
  /\ IF timers[t].once THEN CountDisabled ELSE CountUnchanged

\* A pass starts from the pump of a sleeping layer, or from MsgSleep(-1)
\* between two lines of the script, and finds timer t due.
StartPass(t) ==
  /\ At({"script", "run", "deleting", "sleep"})
  /\ Cardinality(FramesAt({"run", "reap", "deleting", "scan"})) < MaxPasses
  /\ mTimerEnabledCount > 0
  /\ t \in Runnable(mFirstTimer)
  /\ Launch(t)
  /\ frames' = Append(frames, [NewFrame("run") EXCEPT !.cur = t])
  /\ UNCHANGED <<list, g_nLayersNeedingTimer>>

\* The pass goes on and finds a later timer due.
LaunchNext(t) ==
  /\ At({"scan"})
  /\ t \in Runnable(Top.this)
  /\ Launch(t)
  /\ Replace([NewFrame("run") EXCEPT !.cur = t])
  /\ UNCHANGED <<list, g_nLayersNeedingTimer>>

\* The callback has returned.
CallbackReturns ==
  /\ At({"run"})
  /\ timers' = [timers EXCEPT ![Top.cur].running = @ - 1]
  /\ Replace([Top EXCEPT !.at = "reap", !.this = Top.cur])
  /\ CountUnchanged
  /\ UNCHANGED <<list, g_nLayersNeedingTimer>>

\* The timer looked at stays: go on after it if it is the one that ran, or
\* with it, as it may be due itself.
Keep ==
  /\ At({"reap"}) /\ Top.this # Null
  /\ timers[Top.this].enabled \/ Held(Top.this)
  /\ Replace([Top EXCEPT !.at = "scan",
                !.this = IF @ = Top.cur THEN timers[@].next ELSE @])
  /\ CountUnchanged
  /\ UNCHANGED <<timers, list, g_nLayersNeedingTimer>>

\* The timer looked at is disabled and nobody holds it: lock the next one and
\* delete it, which may run its callback's __Delete.
Reap ==
  /\ At({"reap"}) /\ Top.this # Null
  /\ ~timers[Top.this].enabled /\ ~Held(Top.this)
  /\ LET t == Top.this
         n == timers[t].next
         unlinked == Unlinked(t)
     IN  /\ timers' = IF n = Null THEN unlinked
                      ELSE [unlinked EXCEPT ![n].locked = @ + 1]
         /\ Unlink(t)
         /\ Replace([Top EXCEPT !.at = "deleting", !.nxt = n])
  /\ CountUnchanged
  /\ UNCHANGED g_nLayersNeedingTimer

\* (Mutant) The next timer stays locked.
LeftLocked(t) == timers

Unlocked(t) ==
  IF t = Null THEN timers ELSE [timers EXCEPT ![t].locked = @ - 1]

LooksAtNext == [Top EXCEPT !.at = "reap", !.this = Top.nxt, !.nxt = Null]

\* Unlocks the next timer and looks at it in turn.
Reaped ==
  /\ At({"deleting"})
  /\ timers' = Unlocked(Top.nxt)
  /\ Replace(LooksAtNext)
  /\ CountUnchanged
  /\ UNCHANGED <<list, g_nLayersNeedingTimer>>

EndPass ==
  /\ \/ At({"scan"})
     \/ At({"reap"}) /\ Top.this = Null
  /\ Pop
  /\ CountUnchanged
  /\ UNCHANGED <<timers, list, g_nLayersNeedingTimer>>

----------------------------------------------------------------------------

Init ==
  /\ timers = [t \in Timers |-> Free]
  /\ alloc = {}
  /\ mFirstTimer = Null /\ mLastTimer = Null
  /\ mTimerCount = 0 /\ mTimerEnabledCount = 0
  /\ g_nLayersNeedingTimer = 0
  /\ g_MainTimerExists = FALSE
  /\ frames = <<NewFrame("script")>>

Next ==
  \/ \E cb \in Callbacks, once \in BOOLEAN :
       CreateTimer(cb, once) \/ UpdateTimer(cb, once)
  \/ \E cb \in Callbacks : DeleteTimer(cb)
  \/ \E t \in Timers : StartPass(t) \/ LaunchNext(t)
  \/ Sleep \/ SleepReturns
  \/ CallbackReturns \/ Keep \/ Reap \/ Reaped \/ EndPass

Spec == Init /\ [][Next]_vars

----------------------------------------------------------------------------
(***************************************************************************)
(* Properties                                                              *)
(***************************************************************************)

\* Every variable has its type.
TypeOK ==
  /\ timers \in [Timers -> Timer]
  /\ alloc \subseteq Timers
  /\ mFirstTimer \in Pointer /\ mLastTimer \in Pointer
  /\ mTimerCount \in Nat /\ mTimerEnabledCount \in Nat
  /\ g_nLayersNeedingTimer \in Nat /\ g_MainTimerExists \in BOOLEAN
  /\ frames \in Seq(Frame) /\ frames # <<>>

\* The list links every timer object once, from mFirstTimer to mLastTimer, and a
\* callback has one timer, whatever was created and deleted while passes were
\* walking it.
ListWellFormed ==
  /\ From(mFirstTimer) = alloc
  /\ mTimerCount = Cardinality(alloc)
  /\ IF alloc = {} THEN mFirstTimer = Null /\ mLastTimer = Null
     ELSE mLastTimer \in alloc /\ timers[mLastTimer].next = Null
  /\ \A t, u \in alloc : timers[t].cb = timers[u].cb => t = u

\* The counters say what is so, whatever nested passes and callbacks did meanwhile.
\* mTimerEnabledCount is the number of enabled timers; mExistingThreads says whether
\* the callback is on the stack, where it never interrupts itself; mDeleteLocked
\* counts the passes that will go on with the timer.
CountsExact ==
  /\ mTimerEnabledCount = Cardinality({t \in alloc : timers[t].enabled})
  /\ \A t \in alloc :
       /\ timers[t].running <= 1
       /\ timers[t].running =
            Cardinality({i \in FramesAt({"run"}) : frames[i].cur = t})
       /\ timers[t].locked =
            Cardinality({i \in FramesAt({"deleting"}) : frames[i].nxt = t})

\* The Windows timer exists whenever an enabled timer needs it, or a sleeping
\* layer whose end it announces; without it neither would ever wake up.
MainTimerWhenNeeded ==
  mTimerEnabledCount > 0 \/ g_nLayersNeedingTimer > 0 => g_MainTimerExists

\* A suspended pass goes on through pointers to objects that still exist:
\* the timer whose callback runs, and the next timer while a __Delete runs.
NoDanglingPass ==
  \A i \in 1 .. Depth :
    LET f == frames[i]
    IN  /\ f.at = "run" => f.cur \in alloc
        /\ f.at \in {"reap", "scan"} => f.this \in alloc \cup {Null}
        /\ f.at = "deleting" => f.nxt \in alloc \cup {Null}

\* A timer that is marked for deletion is never forgotten: some pass on the
\* stack still holds it, or is about to look at it.
NoOrphans ==
  \A t \in alloc : ~timers[t].enabled =>
    \/ Held(t)
    \/ \E i \in FramesAt({"reap"}) : frames[i].this = t

\* The passes of CheckScriptTimers and the list agree, although timers are deleted
\* while passes are suspended: neither dangling pointers nor forgotten timers.
PassesSound == NoDanglingPass /\ NoOrphans

============================================================================
