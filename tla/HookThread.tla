---------------------------- MODULE HookThread ----------------------------
(* The thread that holds the keyboard and mouse hooks (hook.cpp): how the main
   thread starts it, tells it which hooks to hold, stops it, and waits until it
   is idle.  The two threads talk by posted messages; the main thread waits for
   500 ms at most, and one that is evaluating #HotIf waits for the main thread. *)
EXTENDS Sequences, Integers

CONSTANTS
  Hooks,        \* HOOK_KEYBD, HOOK_MOUSE
  Threads,      \* identities of hook threads; their number bounds the leaked ones
  MaxMessages,  \* bound: messages waiting for a thread, replies waiting for main
  None

ASSUME HookAssumption == None \notin Threads

VARIABLES
  call,     \* AddRemoveHooks or WaitHookIdle, while the main thread is in it
  active,   \* which of the main thread's g_KeybdHook, g_MouseHook are not NULL
  handle,   \* sThreadHandle
  threadID, \* g_HookThreadID
  mutexes,  \* which of sKeybdMutex, sMouseMutex are not NULL
  mem,      \* kvk, ksc, kvkm, kscm and hotkey_up are allocated
  saved,    \* hooks to restore after SendInput or a break (active_hooks, mDisabledHooks)
  synced,   \* sHookSyncd
  replies,  \* AHK_CHANGE_HOOK_STATE posted to the main thread: TRUE reports a problem
  thread,   \* the hook threads
  asked,    \* history: the hooks of the last call that returned in time, or None
  older,    \* history: threads in an event that began before WaitHookIdle
  late      \* history: a call has run out of time while the thread it asked was alive

mainVars == <<call, handle, threadID, mutexes, mem, saved, asked, late>>
vars == <<call, active, handle, threadID, mutexes, mem, saved, synced,
          replies, thread, asked, older, late>>

Requests == [type : {"change"}, hooks : SUBSET Hooks, permanent : BOOLEAN]
Sync == [type |-> "sync"]

\* pc: gone, starting (no message queue yet), pumping; in an event, where it may be
\* evaluating #HotIf or have decided; or done with changing or publishing its hooks.
NoThread == [pc |-> "gone", hooks |-> {}, queue |-> <<>>,
             permanent |-> FALSE, wanted |-> {}, problem |-> FALSE]
Idle == [pc |-> "idle", want |-> {}, temporary |-> FALSE, orig |-> {}, failed |-> FALSE]

Alive(t) == thread[t].pc # "gone"
HasQueue(t) == thread[t].pc \notin {"gone", "starting"}

Init ==
  /\ call = Idle
  /\ active = {}
  /\ handle = None /\ threadID = None
  /\ mutexes = {} /\ mem = FALSE
  /\ saved = None
  /\ synced = FALSE
  /\ replies = <<>>
  /\ thread = [t \in Threads |-> NoThread]
  /\ asked = None
  /\ older = {}
  /\ late = FALSE

----------------------------------------------------------------------------
(* The main thread: AddRemoveHooks *)

Posting(want, temporary) ==
  [pc |-> "posting", want |-> want, temporary |-> temporary, orig |-> active, failed |-> FALSE]

\* The start of AddRemoveHooks; `allocated` says whether the hooks' arrays exist.
Enter(want, temporary, allocated) ==
  /\ call.pc = "idle"
  /\ mem' = allocated
  /\ \/ /\ want = active
        /\ asked' = want
        /\ UNCHANGED <<call, handle, threadID, thread>>
     \/ /\ want # active
        /\ active = {} /\ ~temporary
        /\ \E t \in Threads \ {handle} :
             /\ ~Alive(t)
             /\ thread' = [thread EXCEPT ![t] = [NoThread EXCEPT !.pc = "starting"]]
             /\ handle' = t /\ threadID' = t
        /\ call' = Posting(want, temporary)
        /\ UNCHANGED asked
     \/ /\ want # active
        /\ active # {} \/ temporary
        /\ call' = Posting(want, temporary)
        /\ UNCHANGED <<handle, threadID, thread, asked>>

\* ChangeHookState: hotkeys, hotstrings, InputHook or Suspend need these hooks.
ChangeHookState(want) ==
  /\ Enter(want, FALSE, IF want = {} THEN mem ELSE TRUE)
  /\ UNCHANGED <<late, active, mutexes, saved, synced, replies, older>>

\* InstallKeybdHook, InstallMouseHook with the second parameter true.
ForceRemove(h) ==
  /\ Enter(active \ {h}, FALSE, mem)
  /\ UNCHANGED <<late, active, mutexes, saved, synced, replies, older>>

\* SendInput removes the hooks that its events would go through; a break of the
\* debugger removes both.
TemporaryRemove(which) ==
  /\ saved = None /\ active # {}
  /\ saved' = active
  /\ Enter(active \ which, TRUE, mem)
  /\ UNCHANGED <<late, active, mutexes, synced, replies, older>>

TemporaryRestore ==
  /\ saved # None
  /\ saved' = None
  /\ Enter(saved, TRUE, mem)
  /\ UNCHANGED <<late, active, mutexes, synced, replies, older>>

\* PostThreadMessage fails until the thread has a queue, and once it is gone.
Request == [type |-> "change", hooks |-> call.want, permanent |-> ~call.temporary]
\* (Mutant) Nothing is waited for after the request.
PostAndReturn ==
  /\ call.pc = "posting"
  /\ threadID # None
  /\ HasQueue(threadID) /\ Len(thread[threadID].queue) < MaxMessages
  /\ thread' = [thread EXCEPT ![threadID].queue = Append(@, Request)]
  /\ call' = Idle
  /\ UNCHANGED <<late, active, handle, threadID, mutexes, mem, saved, synced,
                 replies, asked, older>>

\* (Mutant) The request is posted again although it was posted.
PostTwice ==
  /\ call.pc = "posting"
  /\ threadID # None
  /\ HasQueue(threadID) /\ Len(thread[threadID].queue) = 0
  /\ thread' = [thread EXCEPT ![threadID].queue = <<Request, Request>>]
  /\ call' = [call EXCEPT !.pc = "waiting"]
  /\ UNCHANGED <<late, active, handle, threadID, mutexes, mem, saved, synced,
                 replies, asked, older>>

Post ==
  /\ call.pc = "posting"
  /\ threadID # None
  /\ HasQueue(threadID) /\ Len(thread[threadID].queue) < MaxMessages
  /\ thread' = [thread EXCEPT ![threadID].queue = Append(@, Request)]
  /\ call' = [call EXCEPT !.pc = "waiting"]
  /\ UNCHANGED <<late, active, handle, threadID, mutexes, mem, saved, synced,
                 replies, asked, older>>

GiveUpPosting ==
  /\ call.pc = "posting"
  /\ threadID = None \/ ~Alive(threadID)
  /\ call' = [call EXCEPT !.pc = "waiting"]
  /\ UNCHANGED <<late, active, handle, threadID, mutexes, mem, saved, synced,
                 replies, thread, asked, older>>

\* The end of AddRemoveHooks: the mutexes that tell other instances of the hooks.
MutexesAfter ==
  IF call.temporary THEN mutexes
  ELSE (mutexes \cup (active \ call.orig)) \ (call.orig \ active)
Return(result) ==
  /\ call' = Idle
  /\ mutexes' = MutexesAfter
  /\ asked' = result

\* The thread reports; if it is about to exit because nothing could be installed,
\* its exit is awaited instead.
\* (Mutant) The exit of a thread that could install nothing is not awaited.
ExpectsExitNever(problem) == FALSE
ExpectsExit(problem) == problem /\ active = {} /\ ~call.temporary
TakeReply ==
  /\ call.pc = "waiting" /\ call.want # {}
  /\ replies # <<>>
  /\ replies' = Tail(replies)
  /\ IF ExpectsExit(Head(replies))
       THEN /\ call' = [call EXCEPT !.want = {}, !.failed = TRUE]
            /\ UNCHANGED <<mutexes, asked>>
       ELSE Return(IF Head(replies) THEN None ELSE call.want)
  /\ UNCHANGED <<late, active, handle, threadID, mem, saved, synced, thread, older>>

\* (Mutant) The memory is freed though the hooks will be back.
SeesNoHooksAndFrees ==
  /\ call.pc = "waiting" /\ call.want = {} /\ call.temporary
  /\ active = {}
  /\ mem' = FALSE
  /\ Return({})
  /\ UNCHANGED <<late, active, handle, threadID, saved, synced, replies, thread, older>>

SeesNoHooks ==
  /\ call.pc = "waiting" /\ call.want = {} /\ call.temporary
  /\ active = {}
  /\ Return({})
  /\ UNCHANGED <<late, active, handle, threadID, mem, saved, synced, replies,
                 thread, older>>

ExitSeen == handle # None /\ ~Alive(handle)
SeesExit ==
  /\ call.pc = "waiting" /\ call.want = {} /\ ~call.temporary
  /\ ExitSeen
  /\ handle' = None
  /\ mem' = FALSE
  /\ Return(IF call.failed THEN None ELSE {})
  /\ UNCHANGED <<late, active, threadID, saved, synced, replies, thread, older>>

\* 500 ms have passed: the thread is gone, or it is waiting for the main thread,
\* which looks at messages only while it waits for a reply.
NoAnswer ==
  \/ threadID = None
  \/ ~Alive(threadID)
  \/ thread[threadID].pc = "evaluating" /\ call.want = {}
TimesOut ==
  /\ call.pc = "waiting"
  /\ NoAnswer
  /\ ~(call.want # {} /\ replies # <<>>)
  /\ ~(call.want = {} /\ call.temporary /\ active = {})
  /\ ~(call.want = {} /\ ~call.temporary /\ ExitSeen)
  /\ Return(None)
  /\ late' = (late \/ (threadID # None /\ Alive(threadID)))
  /\ UNCHANGED <<active, handle, threadID, mem, saved, synced, replies, thread, older>>

----------------------------------------------------------------------------
(* The main thread: WaitHookIdle *)

InEvent == {t \in Threads : thread[t].pc \in {"event", "evaluating", "decided"}}

\* (Mutant) The flag of the previous call is still set.
SyncedStill == synced
SyncedReset == FALSE

WaitHookIdle ==
  /\ call.pc = "idle"
  /\ handle # None
  /\ synced' = SyncedReset
  /\ call' = [Idle EXCEPT !.pc = "syncing"]
  /\ older' = InEvent
  /\ IF HasQueue(threadID)
       THEN /\ Len(thread[threadID].queue) < MaxMessages
            /\ thread' = [thread EXCEPT ![threadID].queue = Append(@, Sync)]
       ELSE UNCHANGED thread
  /\ UNCHANGED <<late, active, handle, threadID, mutexes, mem, saved, replies, asked>>

\* The loop of WaitHookIdle: there is no time limit.
StillWaits ==
  /\ call.pc = "syncing"
  /\ ~synced
  /\ UNCHANGED vars

SeesSynced ==
  /\ call.pc = "syncing"
  /\ synced
  /\ call' = Idle
  /\ UNCHANGED <<late, active, handle, threadID, mutexes, mem, saved, synced,
                 replies, thread, asked, older>>

----------------------------------------------------------------------------
(* A hook thread *)

Becomes(t, pc) == thread' = [thread EXCEPT ![t].pc = pc]
othersOfThread == <<mainVars, active, synced, replies>>

\* The thread has called GetMessage and has a queue.
Begin(t) ==
  /\ thread[t].pc = "starting"
  /\ Becomes(t, "pumping")
  /\ UNCHANGED <<othersOfThread, older>>

\* A key or mouse event: the system calls the hook while the thread pumps.
EventBegins(t) ==
  /\ thread[t].pc = "pumping" /\ thread[t].hooks # {}
  /\ Becomes(t, "event")
  /\ UNCHANGED <<othersOfThread, older>>

EventEnds(t) ==
  /\ thread[t].pc \in {"event", "decided"}
  /\ Becomes(t, "pumping")
  /\ older' = older \ {t}
  /\ UNCHANGED othersOfThread

\* HotCriterionAllowsFiring: AHK_HOT_IF_EVAL is sent to the main thread, with a
\* time limit, and this thread is blocked until it has answered.
Evaluates(t) ==
  /\ thread[t].pc = "event"
  /\ Becomes(t, "evaluating")
  /\ UNCHANGED <<othersOfThread, older>>

MainPumps == call.pc \in {"idle", "syncing"} \/ (call.pc = "waiting" /\ call.want # {})
Evaluated(t) ==
  /\ thread[t].pc = "evaluating"
  /\ MainPumps
  /\ Becomes(t, "decided")
  /\ UNCHANGED <<othersOfThread, older>>

EvaluationTimesOut(t) ==
  /\ thread[t].pc = "evaluating"
  /\ ~MainPumps
  /\ Becomes(t, "decided")
  /\ UNCHANGED <<othersOfThread, older>>

\* AHK_CHANGE_HOOK_STATE: hooks are removed and installed; installing may fail.
HandleChange(t) ==
  /\ thread[t].pc = "pumping" /\ thread[t].queue # <<>>
  /\ LET msg == Head(thread[t].queue)
     IN  /\ msg.type = "change"
         /\ \E installed \in SUBSET (msg.hooks \ thread[t].hooks) :
              thread' = [thread EXCEPT ![t] =
                [pc |-> "changed",
                 hooks |-> (thread[t].hooks \cap msg.hooks) \cup installed,
                 queue |-> Tail(thread[t].queue),
                 permanent |-> msg.permanent,
                 wanted |-> msg.hooks,
                 problem |-> installed # msg.hooks \ thread[t].hooks]]
  /\ UNCHANGED <<othersOfThread, older>>

\* The main thread's g_KeybdHook and g_MouseHook are set.
Publish(t) ==
  /\ thread[t].pc = "changed"
  /\ active' = thread[t].hooks
  /\ Becomes(t, "published")
  /\ UNCHANGED <<mainVars, synced, replies, older>>

\* A reply unless no hook was asked for; the thread exits if it has none left
\* and the change is permanent.
Exits(t) == thread[t].permanent /\ thread[t].hooks = {}
Finish(t) ==
  /\ thread[t].pc = "published"
  /\ IF thread[t].wanted = {} THEN UNCHANGED replies
     ELSE /\ Len(replies) < MaxMessages
          /\ replies' = Append(replies, thread[t].problem)
  /\ thread' = [thread EXCEPT ![t] =
       IF Exits(t) THEN NoThread
       ELSE [NoThread EXCEPT !.pc = "pumping", !.hooks = thread[t].hooks,
                             !.queue = thread[t].queue]]
  /\ UNCHANGED <<mainVars, active, synced, older>>

HandleSync(t) ==
  /\ thread[t].pc = "pumping" /\ thread[t].queue # <<>>
  /\ Head(thread[t].queue) = Sync
  /\ synced' = TRUE
  /\ thread' = [thread EXCEPT ![t].queue = Tail(@)]
  /\ UNCHANGED <<mainVars, active, replies, older>>

----------------------------------------------------------------------------
MainReturns ==
  Post \/ GiveUpPosting \/ TakeReply \/ SeesNoHooks \/ SeesExit \/ TimesOut \/ SeesSynced
MainCalls ==
  \/ \E want \in SUBSET Hooks : ChangeHookState(want) \/ TemporaryRemove(want)
  \/ \E h \in Hooks : ForceRemove(h)
  \/ TemporaryRestore
  \/ WaitHookIdle
ThreadSteps(t) ==
  \/ Begin(t) \/ EventEnds(t) \/ Evaluated(t) \/ EvaluationTimesOut(t)
  \/ HandleChange(t) \/ Publish(t) \/ Finish(t) \/ HandleSync(t)

Next ==
  \/ MainReturns \/ MainCalls \/ StillWaits
  \/ \E t \in Threads : ThreadSteps(t) \/ EventBegins(t) \/ Evaluates(t)

\* The main thread goes on when it can, and so does the hook thread, which has the
\* highest priority; a user who keeps typing does not keep it from its messages.
Fairness ==
  /\ WF_vars(MainReturns)
  /\ \A t \in Threads : WF_vars(ThreadSteps(t)) /\ SF_vars(HandleChange(t))
                        /\ SF_vars(HandleSync(t))

Spec == Init /\ [][Next]_vars /\ Fairness

----------------------------------------------------------------------------
(* Properties.  Each holds until the first call that runs out of time while the
   thread is alive; section 6 of the README tells what follows then. *)

Installed == UNION {thread[t].hooks : t \in Threads}

\* A hook procedure indexes kvk and ksc for every event: FreeHookMem may only be
\* reached when no thread has a hook left ("there should be no hooks now").  And no
\* hook is installed twice, although a thread that SendInput has left without hooks
\* can live beside a new one: the script would see every event twice.
InstalledSoundly ==
  ~late => /\ Installed # {} => mem
           /\ \A t, u \in Threads : t # u => thread[t].hooks \cap thread[u].hooks = {}

\* "our caller can rely on the new hook state being in effect immediately": after a
\* call that neither failed nor ran out of time, the hooks it asked for are the ones
\* installed, and the ones the main thread believes in, until the next call.
InEffect == call.pc = "idle" /\ asked # None => active = asked /\ Installed = asked
InEffectInTime == ~late => InEffect

\* When WaitHookIdle returns, every event that began before it has been processed:
\* what the hook was reading can be freed.
IdleWhenSynced == ~late /\ call.pc = "syncing" /\ synced => older = {}

\* Every call of AddRemoveHooks and WaitHookIdle returns.
CallReturns == call.pc # "idle" ~> call.pc = "idle"
CallReturnsInTime == []~late => CallReturns
============================================================================
