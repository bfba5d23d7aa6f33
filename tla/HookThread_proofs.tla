------------------------- MODULE HookThread_proofs -------------------------
(***************************************************************************)
(* What the main thread believes of its hook thread is so, as long as no   *)
(* call has run out of time: proofs for any set of hooks and any number of *)
(* hook threads.                                                           *)
(*                                                                         *)
(* There is one request at most between the two threads.  The inductive    *)
(* invariant says, for each place in which the main thread can be, where   *)
(* that request stands.                                                    *)
(***************************************************************************)
EXTENDS HookThread, TLAPS

----------------------------------------------------------------------------
(* Types *)

Messages == Requests \cup {Sync}
Places ==
  {"gone", "starting", "pumping", "event", "evaluating", "decided", "changed", "published"}
ThreadTyped ==
  [pc : Places, hooks : SUBSET Hooks, queue : Seq(Messages), permanent : BOOLEAN,
   wanted : SUBSET Hooks, problem : BOOLEAN]
CallTyped ==
  [pc : {"idle", "posting", "waiting", "syncing"}, want : SUBSET Hooks,
   temporary : BOOLEAN, orig : SUBSET Hooks, failed : BOOLEAN]

Typed ==
  /\ call \in CallTyped
  /\ active \in SUBSET Hooks
  /\ threadID \in Threads \cup {None}
  /\ handle \in {None, threadID}
  /\ mem \in BOOLEAN
  /\ saved \in (SUBSET Hooks) \cup {None}
  /\ synced \in BOOLEAN
  /\ replies \in Seq(BOOLEAN)
  /\ thread \in [Threads -> ThreadTyped]
  /\ asked \in (SUBSET Hooks) \cup {None}
  /\ older \in SUBSET Threads
  /\ late \in BOOLEAN

----------------------------------------------------------------------------
(* The inductive invariant *)

InHook == {"event", "evaluating", "decided"}
Starting == [NoThread EXCEPT !.pc = "starting"]

\* The thread is done with a temporary removal, whose call may have returned when
\* it saw that no hooks were left.
Leaving(r) == r.pc = "published" /\ r.hooks = {} /\ r.wanted = {} /\ ~r.permanent

\* The thread is, or soon will be, at its next message.
Serves(r) == r.pc \in InHook \cup {"pumping"} \/ Leaving(r)

\* A thread that is gone, or left without hooks and messages, for good.
Forgotten(r) ==
  r.hooks = {} /\ r.queue = <<>> /\ (r.pc \in {"gone", "pumping"} \/ Leaving(r))

\* What a thread's place says of the rest of it.
Shaped(r) ==
  /\ r.pc = "gone" => r = NoThread
  /\ r.pc = "starting" => r = Starting
  /\ r.pc \in InHook => r.hooks # {}

\* The thread that the main thread talks to has the hooks that the main thread
\* believes in, and these messages.
Served(messages) ==
  /\ Serves(thread[handle])
  /\ thread[handle].hooks = active
  /\ thread[handle].queue = messages

\* Only one thread matters, and the main thread knows whether it lives.
OneThread ==
  /\ handle = None => threadID = None \/ ~Alive(threadID)
  /\ threadID # None /\ Alive(threadID) => mem
  /\ \A t \in Threads : Shaped(thread[t])
  /\ \A t \in Threads : t # threadID => Forgotten(thread[t])
  /\ older \subseteq InEvent

AsAsked == asked # None => active = asked

\* Nobody asks for anything.
AtRest ==
  /\ replies = <<>> /\ AsAsked
  /\ IF handle = None THEN active = {} ELSE Served(<<>>)

\* WaitHookIdle has posted its message.
Syncing ==
  /\ replies = <<>> /\ AsAsked
  /\ handle # None
  /\ Served(IF synced THEN <<>> ELSE <<Sync>>)
  /\ synced => older = {}

\* A request that is not posted yet.
ToPost ==
  /\ replies = <<>> /\ ~call.failed /\ call.want # active
  /\ IF handle = None THEN active = {} /\ call.temporary
     ELSE Served(<<>>) \/ (thread[handle] = Starting /\ active = {})

\* A request that could not be posted.
Unposted ==
  /\ replies = <<>> /\ call.temporary /\ call.want # {}
  /\ handle = None /\ active = {}

\* A request in the queue.
Posted ==
  /\ replies = <<>> /\ ~call.failed /\ call.want # active
  /\ handle # None /\ Served(<<Request>>)

\* A request that the thread is carrying out.
Changing ==
  /\ replies = <<>> /\ ~call.failed
  /\ handle # None
  /\ thread[handle].pc \in {"changed", "published"}
  /\ thread[handle].queue = <<>>
  /\ thread[handle].wanted = call.want
  /\ thread[handle].permanent = ~call.temporary
  /\ thread[handle].hooks \subseteq call.want
  /\ thread[handle].problem <=> thread[handle].hooks # call.want
  /\ IF thread[handle].pc = "changed" THEN call.want # active
     ELSE active = thread[handle].hooks

\* The reply waits for the main thread.
Answered ==
  /\ call.want # {} /\ ~call.failed
  /\ \E problem \in BOOLEAN : replies = <<problem>> /\ (problem <=> active # call.want)
  /\ handle # None
  /\ IF Alive(handle) THEN Served(<<>>) /\ (active = {} => call.temporary)
     ELSE active = {} /\ ~call.temporary

\* The hooks are removed for a time, and the thread goes on.
Removed ==
  /\ replies = <<>> /\ ~call.failed /\ call.temporary /\ call.want = {}
  /\ handle # None /\ active = {} /\ Served(<<>>)

\* The thread has ended, because it has no hooks any more or could install none.
Ended ==
  /\ replies = <<>> /\ ~call.temporary /\ call.want = {}
  /\ handle # None /\ active = {} /\ ~Alive(handle)

Phased ==
  /\ call.pc = "idle" => AtRest
  /\ call.pc = "syncing" => Syncing
  /\ call.pc = "posting" => ToPost
  /\ call.pc = "waiting" =>
       Unposted \/ Posted \/ Changing \/ Answered \/ Removed \/ Ended

Sound == OneThread /\ Phased
Inv == Typed /\ (~late => Sound)

----------------------------------------------------------------------------
(* Types *)

LEMMA IdleTyped == Idle \in CallTyped /\ Idle.pc = "idle"
  BY SMT DEF Idle, CallTyped

LEMMA CallPcTyped ==
  ASSUME NEW c \in CallTyped, NEW pc \in {"idle", "posting", "waiting", "syncing"}
  PROVE  [c EXCEPT !.pc = pc] \in CallTyped
  BY SMT DEF CallTyped

LEMMA PcChangeTyped ==
  ASSUME NEW r \in ThreadTyped, NEW pc \in Places
  PROVE  [r EXCEPT !.pc = pc] \in ThreadTyped
  BY SMT DEF ThreadTyped, Places

LEMMA QueueChangeTyped ==
  ASSUME NEW r \in ThreadTyped, NEW q \in Seq(Messages)
  PROVE  [r EXCEPT !.queue = q] \in ThreadTyped
  BY SMT DEF ThreadTyped

LEMMA NoThreadTyped == NoThread \in ThreadTyped /\ Starting \in ThreadTyped
  <1>1. <<>> \in Seq(Messages)
    OBVIOUS
  <1>2. NoThread \in ThreadTyped
    BY <1>1, SMT DEF NoThread, ThreadTyped, Places
  <1>3. "starting" \in Places
    BY DEF Places
  <1> QED
    BY <1>2, <1>3, PcChangeTyped DEF Starting

LEMMA RequestTyped ==
  ASSUME Typed
  PROVE  Request \in Messages /\ Request.type = "change" /\ Request # Sync
         /\ Request.hooks = call.want /\ Request.permanent = ~call.temporary
  <1>1. Request \in Requests
    BY SMT DEF Request, Requests, Typed, CallTyped
  <1>2. Request.type = "change" /\ Request.hooks = call.want
        /\ Request.permanent = ~call.temporary
    BY SMT DEF Request
  <1>3. Sync.type = "sync"
    BY SMT DEF Sync
  <1> QED
    BY <1>1, <1>2, <1>3, SMT DEF Messages

LEMMA InitInv == Init => Inv
  <1> SUFFICES ASSUME Init PROVE Inv
    OBVIOUS
  <1>1. Typed
    <2>1. thread \in [Threads -> ThreadTyped]
      BY NoThreadTyped, SMT DEF Init
    <2>2. call \in CallTyped /\ replies \in Seq(BOOLEAN)
      BY IdleTyped DEF Init
    <2>3. /\ active \in SUBSET Hooks /\ saved \in (SUBSET Hooks) \cup {None}
          /\ asked \in (SUBSET Hooks) \cup {None} /\ older \in SUBSET Threads
      BY SMT DEF Init
    <2>4. /\ threadID \in Threads \cup {None} /\ handle \in {None, threadID}
      BY DEF Init
    <2>5. mem \in BOOLEAN /\ synced \in BOOLEAN /\ late \in BOOLEAN
      BY DEF Init
    <2> QED
      BY <2>1, <2>2, <2>3, <2>4, <2>5 DEF Typed
  <1>2. \A t \in Threads : thread[t] = NoThread
    BY SMT DEF Init
  <1>3. \A t \in Threads : Shaped(thread[t]) /\ Forgotten(thread[t])
    BY <1>2, SMT DEF Shaped, Forgotten, NoThread, InHook
  <1>4. OneThread
    BY <1>3, SMT DEF Init, OneThread
  <1>5. Phased
    BY IdleTyped, SMT DEF Init, Phased, AtRest, AsAsked
  <1> QED
    BY <1>1, <1>4, <1>5 DEF Inv, Sound

\* A message appended to a thread's queue keeps the types.
LEMMA AppendTyped ==
  ASSUME Typed, NEW t \in Threads, NEW m \in Messages
  PROVE  [thread EXCEPT ![t].queue = Append(@, m)] \in [Threads -> ThreadTyped]
  <1>1. thread \in [Threads -> ThreadTyped]
    BY DEF Typed
  <1>2. thread[t].queue \in Seq(Messages)
    BY <1>1, SMT DEF ThreadTyped
  <1>3. Append(thread[t].queue, m) \in Seq(Messages)
    BY <1>2
  <1>4. [thread[t] EXCEPT !.queue = Append(thread[t].queue, m)] \in ThreadTyped
    BY <1>1, <1>3, QueueChangeTyped
  <1> QED
    BY <1>1, <1>4, Zenon

\* A new request keeps the types.
LEMMA EnterTyped ==
  ASSUME Typed, NEW want \in SUBSET Hooks, NEW temporary \in BOOLEAN,
         NEW allocated \in BOOLEAN, Enter(want, temporary, allocated),
         UNCHANGED <<late, active, synced, replies, older>>,
         saved' \in (SUBSET Hooks) \cup {None}
  PROVE  Typed'
  <1>1. Posting(want, temporary) \in CallTyped
    BY SMT DEF Posting, CallTyped, Typed
  <1>2. call' \in CallTyped
    BY <1>1, SMT DEF Enter, Typed
  <1>3. thread' \in [Threads -> ThreadTyped]
    BY NoThreadTyped, SMT DEF Enter, Typed, Starting
  <1>4. threadID' \in Threads \cup {None} /\ handle' \in {None, threadID'}
    BY SMT DEF Enter, Typed
  <1>5. asked' \in (SUBSET Hooks) \cup {None}
    BY SMT DEF Enter, Typed
  <1>6. mem' \in BOOLEAN
    BY SMT DEF Enter
  <1> QED
    <2>1. active' \in SUBSET Hooks /\ older' \in SUBSET Threads /\ synced' \in BOOLEAN
          /\ late' \in BOOLEAN /\ replies' \in Seq(BOOLEAN)
      BY DEF Typed
    <2> QED
      BY <1>2, <1>3, <1>4, <1>5, <1>6, <2>1 DEF Typed

LEMMA MainTyped == Typed /\ MainCalls => Typed'
  <1> SUFFICES ASSUME Typed, MainCalls PROVE Typed'
    OBVIOUS
  <1>1. ASSUME NEW want \in SUBSET Hooks, ChangeHookState(want) PROVE Typed'
    <2>1. mem \in BOOLEAN /\ saved \in (SUBSET Hooks) \cup {None}
      BY DEF Typed
    <2> QED
      BY <1>1, <2>1, EnterTyped DEF ChangeHookState
  <1>2. ASSUME NEW h \in Hooks, ForceRemove(h) PROVE Typed'
    <2>1. mem \in BOOLEAN /\ saved \in (SUBSET Hooks) \cup {None} /\ active \in SUBSET Hooks
      BY DEF Typed
    <2>2. active \ {h} \in SUBSET Hooks
      BY <2>1
    <2> QED
      BY <1>2, <2>1, <2>2, EnterTyped DEF ForceRemove
  <1>3. ASSUME NEW which \in SUBSET Hooks, TemporaryRemove(which) PROVE Typed'
    <2>1. mem \in BOOLEAN /\ active \in SUBSET Hooks
      BY DEF Typed
    <2>2. active \ which \in SUBSET Hooks /\ saved' \in (SUBSET Hooks) \cup {None}
      BY <1>3, <2>1 DEF TemporaryRemove
    <2> QED
      BY <1>3, <2>1, <2>2, EnterTyped DEF TemporaryRemove
  <1>4. ASSUME TemporaryRestore PROVE Typed'
    <2>1. mem \in BOOLEAN /\ saved \in SUBSET Hooks
      BY <1>4, SMT DEF Typed, TemporaryRestore
    <2>2. saved' \in (SUBSET Hooks) \cup {None}
      BY <1>4 DEF TemporaryRestore
    <2> QED
      BY <1>4, <2>1, <2>2, EnterTyped DEF TemporaryRestore
  <1>5. ASSUME WaitHookIdle PROVE Typed'
    <2>1. call' \in CallTyped
      BY <1>5, IdleTyped, CallPcTyped DEF WaitHookIdle
    <2>2. thread' \in [Threads -> ThreadTyped]
      <3>1. threadID \in Threads
        BY <1>5, SMT DEF WaitHookIdle, Typed
      <3>2. Sync \in Messages
        BY DEF Messages
      <3>3. thread \in [Threads -> ThreadTyped]
        BY DEF Typed
      <3> QED
        BY <1>5, <3>1, <3>2, <3>3, AppendTyped DEF WaitHookIdle
    <2>3. synced' \in BOOLEAN
      BY <1>5 DEF WaitHookIdle, SyncedReset
    <2>4. older' \in SUBSET Threads
      BY <1>5 DEF WaitHookIdle, InEvent
    <2> QED
      BY <1>5, <2>1, <2>2, <2>3, <2>4, SMT DEF WaitHookIdle, Typed
  <1> QED
    BY <1>1, <1>2, <1>3, <1>4, <1>5 DEF MainCalls


LEMMA IdleCallTyped == Idle \in CallTyped
  BY IdleTyped

\* What the main thread does in a call keeps the types.
LEMMA ReturnsTyped == Typed /\ MainReturns => Typed'
  <1> SUFFICES ASSUME Typed, MainReturns PROVE Typed'
    OBVIOUS
  <1>0. /\ call \in CallTyped /\ active \in SUBSET Hooks /\ synced \in BOOLEAN
        /\ saved \in (SUBSET Hooks) \cup {None} /\ older \in SUBSET Threads
        /\ asked \in (SUBSET Hooks) \cup {None} /\ late \in BOOLEAN
        /\ thread \in [Threads -> ThreadTyped] /\ replies \in Seq(BOOLEAN)
        /\ mem \in BOOLEAN
        /\ threadID \in Threads \cup {None} /\ handle \in {None, threadID}
    BY DEF Typed
  <1>1. CASE Post
    <2>1. thread' \in [Threads -> ThreadTyped]
      <3>1. threadID \in Threads
        BY <1>1, <1>0 DEF Post
      <3>2. Request \in Messages
        BY RequestTyped
      <3> QED
        BY <1>0, <1>1, <3>1, <3>2, AppendTyped DEF Post
    <2>2. call' \in CallTyped
      BY <1>0, <1>1, CallPcTyped DEF Post
    <2> QED
      BY <1>0, <1>1, <2>1, <2>2 DEF Post, Typed
  <1>2. CASE GiveUpPosting
    <2>1. call' \in CallTyped
      BY <1>0, <1>2, CallPcTyped DEF GiveUpPosting
    <2> QED
      BY <1>0, <1>2, <2>1 DEF GiveUpPosting, Typed
  <1>3. CASE TakeReply
    <2>1. replies' \in Seq(BOOLEAN)
      <3>1. replies # <<>> /\ replies' = Tail(replies)
        BY <1>3 DEF TakeReply
      <3> QED
        BY <1>0, <3>1
    <2>2. call' \in CallTyped /\ asked' \in (SUBSET Hooks) \cup {None}
      <3>1. CASE ExpectsExit(Head(replies))
        <4>1. [call EXCEPT !.want = {}, !.failed = TRUE] \in CallTyped
          <5>1. ASSUME NEW c \in CallTyped
                PROVE  [c EXCEPT !.want = {}, !.failed = TRUE] \in CallTyped
            BY Zenon DEF CallTyped
          <5> QED
            BY <1>0, <5>1
        <4> QED
          BY <1>0, <1>3, <3>1, <4>1 DEF TakeReply
      <3>2. CASE ~ExpectsExit(Head(replies))
        <4>1. call.want \in SUBSET Hooks
          BY <1>0, SMT DEF CallTyped
        <4> QED
          BY <1>0, <1>3, <3>2, <4>1, IdleCallTyped DEF TakeReply, Return
      <3> QED
        BY <3>1, <3>2
    <2> QED
      BY <1>0, <1>3, <2>1, <2>2 DEF TakeReply, Typed
  <1>4. CASE SeesNoHooks
    BY <1>0, <1>4, IdleCallTyped DEF SeesNoHooks, Return, Typed
  <1>5. CASE SeesExit
    BY <1>0, <1>5, IdleCallTyped DEF SeesExit, Return, Typed
  <1>6. CASE TimesOut
    BY <1>0, <1>6, IdleCallTyped DEF TimesOut, Return, Typed
  <1>7. CASE SeesSynced
    BY <1>0, <1>7, IdleCallTyped DEF SeesSynced, Typed
  <1> QED
    BY <1>1, <1>2, <1>3, <1>4, <1>5, <1>6, <1>7 DEF MainReturns

\* What a hook thread does keeps the types.
LEMMA StepsTyped ==
  ASSUME Typed, NEW t \in Threads,
         ThreadSteps(t) \/ EventBegins(t) \/ Evaluates(t)
  PROVE  Typed'
  <1>0. /\ call \in CallTyped /\ active \in SUBSET Hooks /\ synced \in BOOLEAN
        /\ saved \in (SUBSET Hooks) \cup {None} /\ older \in SUBSET Threads
        /\ asked \in (SUBSET Hooks) \cup {None} /\ late \in BOOLEAN
        /\ thread \in [Threads -> ThreadTyped] /\ replies \in Seq(BOOLEAN)
        /\ mem \in BOOLEAN
        /\ threadID \in Threads \cup {None} /\ handle \in {None, threadID}
    BY DEF Typed
  <1>1. ASSUME NEW r \in ThreadTyped, thread' = [thread EXCEPT ![t] = r]
        PROVE  thread' \in [Threads -> ThreadTyped]
    BY <1>0, <1>1, Zenon
  <1>2. ASSUME NEW pc \in Places, Becomes(t, pc)
        PROVE  thread' \in [Threads -> ThreadTyped]
    <2>1. [thread[t] EXCEPT !.pc = pc] \in ThreadTyped
      BY <1>0, PcChangeTyped
    <2>2. thread' = [thread EXCEPT ![t] = [thread[t] EXCEPT !.pc = pc]]
      BY <1>2 DEF Becomes
    <2> QED
      BY <1>1, <2>1, <2>2
  <1>3. \A pc \in {"pumping", "event", "evaluating", "decided", "published"} : pc \in Places
    BY DEF Places
  <1>4. ASSUME UNCHANGED othersOfThread, older' \in SUBSET Threads,
               thread' \in [Threads -> ThreadTyped]
        PROVE  Typed'
    BY <1>0, <1>4 DEF othersOfThread, mainVars, Typed
  <1>5. CASE Begin(t) \/ EventBegins(t) \/ EventEnds(t) \/ Evaluates(t)
             \/ Evaluated(t) \/ EvaluationTimesOut(t)
    <2>1. older' \in SUBSET Threads
      BY <1>0, <1>5
         DEF Begin, EventBegins, EventEnds, Evaluates, Evaluated, EvaluationTimesOut
    <2>2. thread' \in [Threads -> ThreadTyped]
      BY <1>2, <1>3, <1>5
         DEF Begin, EventBegins, EventEnds, Evaluates, Evaluated, EvaluationTimesOut
    <2>3. UNCHANGED othersOfThread
      BY <1>5 DEF Begin, EventBegins, EventEnds, Evaluates, Evaluated, EvaluationTimesOut
    <2> QED
      BY <1>4, <2>1, <2>2, <2>3
  <1>6. CASE HandleChange(t)
    <2>1. PICK installed \in SUBSET (Head(thread[t].queue).hooks \ thread[t].hooks) :
            thread' = [thread EXCEPT ![t] =
                [pc |-> "changed",
                 hooks |-> (thread[t].hooks \cap Head(thread[t].queue).hooks) \cup installed,
                 queue |-> Tail(thread[t].queue),
                 permanent |-> Head(thread[t].queue).permanent,
                 wanted |-> Head(thread[t].queue).hooks,
                 problem |-> installed # Head(thread[t].queue).hooks \ thread[t].hooks]]
      BY <1>6 DEF HandleChange
    <2>2. /\ thread[t].queue \in Seq(Messages) /\ thread[t].queue # <<>>
          /\ thread[t].hooks \in SUBSET Hooks
      BY <1>0, <1>6, SMT DEF HandleChange, ThreadTyped
    <2>3. Head(thread[t].queue) \in Messages /\ Tail(thread[t].queue) \in Seq(Messages)
      BY <2>2
    <2>4. Head(thread[t].queue).type = "change"
      BY <1>6 DEF HandleChange
    <2>5. Head(thread[t].queue) \in Requests
      BY <2>3, <2>4, SMT DEF Messages, Sync
    <2>6. Head(thread[t].queue).hooks \in SUBSET Hooks
          /\ Head(thread[t].queue).permanent \in BOOLEAN
      BY <2>5, SMT DEF Requests
    <2>7. ASSUME NEW q \in Seq(Messages), NEW p \in BOOLEAN, NEW w \in SUBSET Hooks,
                 NEW h \in SUBSET Hooks, NEW b \in BOOLEAN
          PROVE  [pc |-> "changed", hooks |-> h, queue |-> q, permanent |-> p,
                  wanted |-> w, problem |-> b] \in ThreadTyped
      BY <2>7, SMT DEF ThreadTyped, Places
    <2>8. (thread[t].hooks \cap Head(thread[t].queue).hooks) \cup installed \in SUBSET Hooks
      BY <2>2, <2>6
    <2>9. (installed # Head(thread[t].queue).hooks \ thread[t].hooks) \in BOOLEAN
      OBVIOUS
    <2>10. thread' \in [Threads -> ThreadTyped]
      BY <1>1, <2>1, <2>3, <2>6, <2>7, <2>8, <2>9
    <2> QED
      BY <1>0, <1>4, <1>6, <2>10 DEF HandleChange
  <1>7. CASE Publish(t)
    <2>1. active' \in SUBSET Hooks
      BY <1>0, <1>7, SMT DEF Publish, ThreadTyped
    <2>2. thread' \in [Threads -> ThreadTyped]
      BY <1>2, <1>3, <1>7 DEF Publish
    <2> QED
      BY <1>0, <1>7, <2>1, <2>2 DEF Publish, mainVars, Typed
  <1>8. CASE Finish(t)
    <2>0. thread[t] \in ThreadTyped /\ thread[t].problem \in BOOLEAN
      BY <1>0, SMT DEF ThreadTyped
    <2>1. replies' \in Seq(BOOLEAN)
      BY <1>0, <1>8, <2>0, SMT DEF Finish
    <2>2. ASSUME NEW n \in ThreadTyped, NEW r \in ThreadTyped
          PROVE  [n EXCEPT !.pc = "pumping", !.hooks = r.hooks, !.queue = r.queue]
                   \in ThreadTyped
      BY Zenon DEF ThreadTyped, Places
    <2>3. [NoThread EXCEPT !.pc = "pumping", !.hooks = thread[t].hooks,
                           !.queue = thread[t].queue] \in ThreadTyped
      BY <2>0, <2>2, NoThreadTyped
    <2>4. thread' \in [Threads -> ThreadTyped]
      BY <1>1, <1>8, <2>3, NoThreadTyped DEF Finish
    <2> QED
      BY <1>0, <1>8, <2>1, <2>4 DEF Finish, mainVars, Typed
  <1>9. CASE HandleSync(t)
    <2>1. Tail(thread[t].queue) \in Seq(Messages)
      BY <1>0, <1>9, SMT DEF HandleSync, ThreadTyped
    <2>2. [thread[t] EXCEPT !.queue = Tail(thread[t].queue)] \in ThreadTyped
      BY <1>0, <2>1, QueueChangeTyped
    <2>3. thread' = [thread EXCEPT ![t] =
                       [thread[t] EXCEPT !.queue = Tail(thread[t].queue)]]
      BY <1>9 DEF HandleSync
    <2>4. thread' \in [Threads -> ThreadTyped]
      BY <1>1, <2>2, <2>3
    <2> QED
      BY <1>0, <1>9, <2>4 DEF HandleSync, mainVars, Typed
  <1> QED
    BY <1>5, <1>6, <1>7, <1>8, <1>9 DEF ThreadSteps

LEMMA TypedKept == Typed /\ [Next]_vars => Typed'
  <1> SUFFICES ASSUME Typed, [Next]_vars PROVE Typed'
    OBVIOUS
  <1>1. CASE MainReturns
    BY <1>1, ReturnsTyped
  <1>2. CASE MainCalls
    BY <1>2, MainTyped
  <1>3. ASSUME NEW t \in Threads, ThreadSteps(t) \/ EventBegins(t) \/ Evaluates(t)
        PROVE  Typed'
    BY <1>3, StepsTyped
  <1>4. CASE StillWaits \/ UNCHANGED vars
    BY <1>4 DEF StillWaits, vars, Typed
  <1> QED
    BY <1>1, <1>2, <1>3, <1>4 DEF Next


----------------------------------------------------------------------------
(* The main thread *)

\* Which thread can act: the one the main thread talks to, or one that it has left
\* without hooks.
LEMMA Acting ==
  ASSUME Typed, OneThread, NEW t \in Threads, Alive(t)
  PROVE  \/ t = handle /\ t = threadID
         \/ /\ t # handle /\ t # threadID /\ Forgotten(thread[t])
            /\ thread[t].pc \in {"pumping", "published"}
  <1>1. CASE t = threadID
    BY <1>1, SMT DEF Typed, OneThread
  <1>2. CASE t # threadID
    <2>1. Forgotten(thread[t])
      BY <1>2 DEF OneThread
    <2>2. thread[t].pc \in {"pumping", "published"}
      BY <2>1 DEF Forgotten, Leaving, Alive
    <2>3. t # handle
      BY <1>2, HookAssumption DEF Typed
    <2> QED
      BY <1>2, <2>1, <2>2, <2>3
  <1> QED
    BY <1>1, <1>2

LEMMA OneThreadSame ==
  ASSUME OneThread, UNCHANGED <<handle, threadID, mem, thread, older>>
  PROVE  OneThread'
  BY DEF OneThread, Alive, InEvent

\* The main thread is at rest again.
LEMMA BackAtRest ==
  ASSUME call' = Idle, AtRest'
  PROVE  Phased'
  <1>1. call'.pc = "idle"
    BY IdleTyped
  <1> QED
    BY <1>1 DEF Phased

\* The main thread waits.
LEMMA NowWaiting ==
  ASSUME call'.pc = "waiting",
         Unposted' \/ Posted' \/ Changing' \/ Answered' \/ Removed' \/ Ended'
  PROVE  Phased'
  BY DEF Phased

LEMMA PostKeeps ==
  ASSUME Typed, Typed', Sound, Post
  PROVE  Sound'
  <1>1. call.pc = "posting" /\ threadID # None /\ HasQueue(threadID)
    BY DEF Post
  <1>2. ToPost
    BY <1>1 DEF Sound, Phased
  <1>3. handle = threadID /\ handle \in Threads /\ handle # None
    BY <1>1, <1>2 DEF Sound, OneThread, Typed, Alive, HasQueue
  <1>4. Served(<<>>)
    <2>1. Starting.pc = "starting"
      BY SMT DEF Starting, NoThread
    <2> QED
      BY <1>1, <1>2, <1>3, <2>1 DEF ToPost, HasQueue
  <1>5. thread \in [Threads -> ThreadTyped]
    BY DEF Typed
  <1>6. /\ thread'[handle].pc = thread[handle].pc
        /\ thread'[handle].hooks = thread[handle].hooks
        /\ thread'[handle].wanted = thread[handle].wanted
        /\ thread'[handle].permanent = thread[handle].permanent
        /\ thread'[handle].queue = Append(thread[handle].queue, Request)
    BY <1>3, <1>5, SMT DEF Post, ThreadTyped
  <1>7. \A t \in Threads : t # handle => thread'[t] = thread[t]
    BY <1>3, <1>5, SMT DEF Post
  <1>8. UNCHANGED <<handle, threadID, active, mem, older, replies>>
    BY DEF Post
  <1>9. call'.pc = "waiting" /\ call'.want = call.want /\ call'.failed = call.failed
        /\ call'.temporary = call.temporary
    BY SMT DEF Post, Typed, CallTyped
  <1>10. Request' = Request
    BY <1>9 DEF Request
  <1>11. Posted'
    <2>1. thread'[handle].queue = <<Request>>
      BY <1>4, <1>6 DEF Served
    <2>2. Served(<<Request>>)'
      BY <1>4, <1>6, <1>8, <1>10, <2>1 DEF Served, Serves, Leaving
    <2> QED
      BY <1>2, <1>3, <1>8, <1>9, <2>2 DEF ToPost, Posted
  <1>12. OneThread'
    <2>1. ASSUME NEW t \in Threads PROVE Shaped(thread'[t])
      <3>1. CASE t = handle
        BY <1>3, <1>4, <1>6, <3>1, SMT DEF Sound, OneThread, Shaped, InHook, Served, Serves, Leaving
      <3>2. CASE t # handle
        BY <1>7, <3>2 DEF Sound, OneThread
      <3> QED
        BY <3>1, <3>2
    <2>2. ASSUME NEW t \in Threads, t # threadID' PROVE Forgotten(thread'[t])
      BY <1>3, <1>7, <1>8, <2>2 DEF Sound, OneThread
    <2>3. InEvent' = InEvent
      BY <1>3, <1>6, <1>7, SMT DEF InEvent
    <2>4. Alive(threadID)' = Alive(threadID)
      BY <1>3, <1>6, <1>8 DEF Alive
    <2> QED
      BY <1>3, <1>8, <2>1, <2>2, <2>3, <2>4 DEF Sound, OneThread
  <1> QED
    BY <1>9, <1>11, <1>12, NowWaiting DEF Sound

LEMMA GiveUpPostingKeeps ==
  ASSUME Typed, Typed', Sound, GiveUpPosting
  PROVE  Sound'
  <1>1. call.pc = "posting" /\ (threadID = None \/ ~Alive(threadID))
    BY DEF GiveUpPosting
  <1>2. ToPost
    BY <1>1 DEF Sound, Phased
  <1>3. handle = None
    <2>1. Starting.pc = "starting"
      BY SMT DEF Starting, NoThread
    <2>2. CASE handle # None
      <3>1. ~Alive(handle) /\ (Served(<<>>) \/ thread[handle] = Starting)
        BY <1>1, <1>2, <2>2 DEF ToPost, Typed
      <3> QED
        BY <2>1, <3>1 DEF Served, Serves, Leaving, Alive, InHook
    <2> QED
      BY <2>2
  <1>4. UNCHANGED <<handle, threadID, active, mem, older, replies, thread>>
    BY DEF GiveUpPosting
  <1>5. call'.pc = "waiting" /\ call'.want = call.want /\ call'.temporary = call.temporary
    BY SMT DEF GiveUpPosting, Typed, CallTyped
  <1>6. Unposted'
    BY <1>2, <1>3, <1>4, <1>5 DEF ToPost, Unposted
  <1> QED
    BY <1>4, <1>5, <1>6, NowWaiting, OneThreadSame DEF Sound

LEMMA TakeReplyKeeps ==
  ASSUME Typed, Typed', Sound, TakeReply
  PROVE  Sound'
  <1>1. call.pc = "waiting" /\ call.want # {} /\ replies # <<>> /\ replies' = Tail(replies)
        /\ UNCHANGED <<handle, threadID, active, mem, older, thread>>
    BY DEF TakeReply
  <1>2. Answered
    BY <1>1 DEF Sound, Phased, Unposted, Posted, Changing, Removed, Ended
  <1>3. PICK problem \in BOOLEAN : replies = <<problem>> /\ (problem <=> active # call.want)
    BY <1>2 DEF Answered
  <1>4. Head(replies) = problem /\ replies' = <<>>
    BY <1>1, <1>3, SMT
  <1>5. (Head(replies) /\ active # call.want) \/ (~Head(replies) /\ active = call.want)
    <2>1. (problem = TRUE /\ active # call.want) \/ (problem = FALSE /\ active = call.want)
      BY <1>3, SMT
    <2> QED
      BY <1>4, <2>1, Zenon
  <1>6. OneThread'
    BY <1>1, OneThreadSame DEF Sound
  <1>7. CASE ExpectsExit(Head(replies))
    <2>1. active = {} /\ ~call.temporary
      BY <1>7 DEF ExpectsExit
    <2>2. ~Alive(handle)
      BY <1>2, <2>1 DEF Answered
    <2>3. call' = [call EXCEPT !.want = {}, !.failed = TRUE]
      BY <1>7 DEF TakeReply
    <2>4. call'.pc = "waiting" /\ call'.want = {} /\ call'.temporary = call.temporary
      BY <1>1, <2>3, SMT DEF Typed, CallTyped
    <2>5. Ended'
      BY <1>1, <1>2, <1>4, <2>1, <2>2, <2>4 DEF Ended, Answered, Alive
    <2> QED
      BY <1>6, <2>4, <2>5, NowWaiting DEF Sound
  <1>8. CASE ~ExpectsExit(Head(replies))
    <2>1. call' = Idle /\ asked' = IF Head(replies) THEN None ELSE call.want
      BY <1>8 DEF TakeReply, Return
    <2>2. handle # None /\ Served(<<>>)
      BY <1>1, <1>2, <1>8, <1>5 DEF Answered, ExpectsExit
    <2>3. Served(<<>>)'
      BY <1>1, <2>2 DEF Served
    <2>4. AsAsked'
      BY <1>1, <1>5, <2>1 DEF AsAsked
    <2>5. AtRest'
      BY <1>1, <1>4, <2>2, <2>3, <2>4 DEF AtRest
    <2> QED
      BY <1>6, <2>1, <2>5, BackAtRest DEF Sound
  <1> QED
    BY <1>7, <1>8

LEMMA SeesNoHooksKeeps ==
  ASSUME Typed, Typed', Sound, SeesNoHooks
  PROVE  Sound'
  <1>1. call.pc = "waiting" /\ call.want = {} /\ call.temporary /\ active = {}
        /\ UNCHANGED <<handle, threadID, active, mem, older, thread, replies>>
        /\ call' = Idle /\ asked' = {}
    BY DEF SeesNoHooks, Return
  <1>2. Changing \/ Removed
    BY <1>1 DEF Sound, Phased, Unposted, Posted, Answered, Ended
  <1>3. handle # None /\ replies = <<>> /\ Served(<<>>)
    <2>1. CASE Removed
      BY <2>1 DEF Removed
    <2>2. CASE Changing
      <3>1. thread[handle].pc = "published" /\ thread[handle].hooks = {}
        BY <1>1, <2>2 DEF Changing
      <3> QED
        BY <1>1, <2>2, <3>1 DEF Changing, Served, Serves, Leaving
    <2> QED
      BY <1>2, <2>1, <2>2
  <1>4. Served(<<>>)'
    BY <1>1, <1>3 DEF Served
  <1>5. AtRest'
    BY <1>1, <1>3, <1>4 DEF AtRest, AsAsked
  <1> QED
    BY <1>1, <1>5, BackAtRest, OneThreadSame DEF Sound

LEMMA SeesExitKeeps ==
  ASSUME Typed, Typed', Sound, SeesExit
  PROVE  Sound'
  <1>1. call.pc = "waiting" /\ call.want = {} /\ ~call.temporary
        /\ handle # None /\ ~Alive(handle)
        /\ UNCHANGED <<threadID, active, older, thread, replies>>
        /\ call' = Idle /\ asked' \in {None, {}} /\ handle' = None
    BY DEF SeesExit, Return, ExitSeen
  <1>2. Ended
    BY <1>1 DEF Sound, Phased, Unposted, Posted, Answered, Changing, Removed, Served,
                Serves, Leaving, Alive, InHook
  <1>3. AtRest'
    BY <1>1, <1>2 DEF AtRest, AsAsked, Ended
  <1>4. handle = threadID
    BY <1>1 DEF Typed
  <1>5. OneThread'
    BY <1>1, <1>4 DEF Sound, OneThread, Alive, InEvent
  <1> QED
    BY <1>1, <1>3, <1>5, BackAtRest DEF Sound

LEMMA TimesOutKeeps ==
  ASSUME Typed, Typed', Sound, TimesOut, ~late'
  PROVE  Sound'
  <1>1. call.pc = "waiting" /\ (threadID = None \/ ~Alive(threadID))
        /\ ~(call.want # {} /\ replies # <<>>)
        /\ ~(call.want = {} /\ call.temporary /\ active = {})
        /\ ~(call.want = {} /\ ~call.temporary /\ ExitSeen)
        /\ UNCHANGED <<handle, threadID, active, mem, older, thread, replies>>
        /\ call' = Idle /\ asked' = None
    BY DEF TimesOut, Return
  <1>2. handle # None => ~Alive(handle)
    BY <1>1 DEF Typed
  <1>3. Unposted
    <2>1. ~Posted /\ ~Changing /\ ~Removed
      BY <1>2 DEF Posted, Changing, Removed, Served, Serves, Leaving, Alive, InHook
    <2>2. ~Answered
      <3>1. \A b \in BOOLEAN : <<b>> # <<>>
        OBVIOUS
      <3> QED
        BY <1>1, <3>1 DEF Answered
    <2>3. ~Ended
      BY <1>1 DEF Ended, ExitSeen
    <2> QED
      BY <1>1, <2>1, <2>2, <2>3 DEF Sound, Phased
  <1>4. AtRest'
    BY <1>1, <1>3 DEF AtRest, AsAsked, Unposted
  <1> QED
    BY <1>1, <1>4, BackAtRest, OneThreadSame DEF Sound

LEMMA SeesSyncedKeeps ==
  ASSUME Typed, Typed', Sound, SeesSynced
  PROVE  Sound'
  <1>1. call.pc = "syncing" /\ synced
        /\ UNCHANGED <<handle, threadID, active, mem, older, thread, replies, asked>>
        /\ call' = Idle
    BY DEF SeesSynced
  <1>2. Syncing
    BY <1>1 DEF Sound, Phased
  <1>3. handle # None /\ replies = <<>> /\ AsAsked /\ Served(<<>>)
    BY <1>1, <1>2 DEF Syncing
  <1>4. AtRest'
    BY <1>1, <1>3 DEF AtRest, AsAsked, Served
  <1> QED
    BY <1>1, <1>4, BackAtRest, OneThreadSame DEF Sound


\* A call begins.  A thread is created only when hooks are asked for and allocated.
LEMMA EnterKeeps ==
  ASSUME Typed, Typed', Sound, NEW want, NEW temporary \in BOOLEAN, NEW allocated,
         Enter(want, temporary, allocated),
         mem => allocated,
         want # {} /\ ~temporary => allocated,
         UNCHANGED <<active, synced, replies, older>>
  PROVE  Sound'
  <1>1. call.pc = "idle" /\ mem' = allocated /\ UNCHANGED <<active, synced, replies, older>>
    BY DEF Enter
  <1>2. AtRest
    BY <1>1 DEF Sound, Phased
  <1>3. CASE want = active /\ asked' = want /\ UNCHANGED <<call, handle, threadID, thread>>
    <2>1. AtRest'
      BY <1>1, <1>2, <1>3 DEF AtRest, AsAsked, Served
    <2>2. Phased'
      BY <1>1, <1>3, <2>1 DEF Phased
    <2>3. OneThread'
      BY <1>1, <1>3 DEF Sound, OneThread, Alive, InEvent
    <2> QED
      BY <2>2, <2>3 DEF Sound
  <1>4. CASE /\ want # active
             /\ active # {} \/ temporary
             /\ call' = Posting(want, temporary)
             /\ UNCHANGED <<handle, threadID, thread, asked>>
    <2>1. call'.pc = "posting" /\ call'.want = want /\ call'.temporary = temporary
          /\ ~call'.failed
      BY <1>4, SMT DEF Posting
    <2>2. ToPost'
      BY <1>1, <1>2, <1>4, <2>1 DEF ToPost, AtRest, Served
    <2>3. OneThread'
      BY <1>1, <1>4 DEF Sound, OneThread, Alive, InEvent
    <2> QED
      BY <2>1, <2>2, <2>3 DEF Sound, Phased
  <1>5. CASE /\ want # active
             /\ active = {} /\ ~temporary
             /\ \E t \in Threads \ {handle} :
                  /\ ~Alive(t)
                  /\ thread' = [thread EXCEPT ![t] = [NoThread EXCEPT !.pc = "starting"]]
                  /\ handle' = t /\ threadID' = t
             /\ call' = Posting(want, temporary)
    <2>1. PICK t \in Threads \ {handle} :
                  /\ ~Alive(t)
                  /\ thread' = [thread EXCEPT ![t] = Starting]
                  /\ handle' = t /\ threadID' = t
      BY <1>5 DEF Starting
    <2>2. call'.pc = "posting" /\ call'.want = want /\ call'.temporary = temporary
          /\ ~call'.failed
      BY <1>5, SMT DEF Posting
    <2>3. thread \in [Threads -> ThreadTyped] /\ t \in Threads /\ t # None
      BY <2>1, HookAssumption DEF Typed
    <2>4. thread'[t] = Starting /\ \A u \in Threads : u # t => thread'[u] = thread[u]
      BY <2>1, <2>3, Zenon
    <2>5. ToPost'
      BY <1>1, <1>2, <1>5, <2>1, <2>2, <2>3, <2>4 DEF ToPost, AtRest
    <2>6. Starting.pc = "starting"
      BY SMT DEF Starting, NoThread
    <2>7. ASSUME NEW u \in Threads PROVE Shaped(thread'[u])
      <3>1. CASE u = t
        BY <2>4, <2>6, <3>1 DEF Shaped, InHook
      <3>2. CASE u # t
        BY <2>4, <3>2 DEF Sound, OneThread
      <3> QED
        BY <3>1, <3>2
    <2>8. ASSUME NEW u \in Threads, u # t PROVE Forgotten(thread'[u])
      <3>1. thread'[u] = thread[u]
        BY <2>4, <2>8
      <3>2. CASE u # threadID
        BY <3>1, <3>2 DEF Sound, OneThread
      <3>3. CASE u = threadID /\ handle = None
        <4>1. thread[u] = NoThread
          BY <3>3, HookAssumption DEF Sound, OneThread, Alive, Shaped
        <4> QED
          BY <3>1, <4>1, SMT DEF Forgotten, NoThread
      <3>4. CASE u = threadID /\ handle = u
        <4>1. Served(<<>>) /\ thread[u].hooks = {}
          BY <1>2, <1>5, <3>4, HookAssumption DEF AtRest, Served
        <4>2. thread[u].pc \notin InHook
          BY <4>1 DEF Sound, OneThread, Shaped
        <4> QED
          BY <3>1, <3>4, <4>1, <4>2 DEF Served, Serves, Forgotten
      <3> QED
        BY <3>2, <3>3, <3>4 DEF Typed
    <2>9. older' \subseteq InEvent'
      <3>1. t \notin InEvent
        BY <2>1 DEF Alive, InEvent
      <3>2. InEvent \subseteq InEvent'
        BY <2>4, <3>1 DEF InEvent
      <3> QED
        BY <1>1, <3>2 DEF Sound, OneThread
    <2>10. mem'
      BY <1>1, <1>5
    <2>11. OneThread'
      BY <2>1, <2>3, <2>7, <2>8, <2>9, <2>10 DEF OneThread
    <2> QED
      BY <2>2, <2>5, <2>11 DEF Sound, Phased
  <1> QED
    BY <1>3, <1>4, <1>5 DEF Enter

LEMMA WaitHookIdleKeeps ==
  ASSUME Typed, Typed', Sound, WaitHookIdle
  PROVE  Sound'
  <1>1. call.pc = "idle" /\ handle # None /\ synced' = FALSE /\ older' = InEvent
        /\ UNCHANGED <<handle, threadID, active, mem, replies, asked>>
    BY DEF WaitHookIdle, SyncedReset
  <1>2. AtRest
    BY <1>1 DEF Sound, Phased
  <1>3. Served(<<>>) /\ replies = <<>> /\ AsAsked
    BY <1>1, <1>2 DEF AtRest
  <1>4. handle = threadID /\ handle \in Threads
    BY <1>1 DEF Typed
  <1>5. HasQueue(threadID)
    BY <1>3, <1>4 DEF HasQueue, Served, Serves, Leaving, InHook
  <1>6. thread \in [Threads -> ThreadTyped]
    BY DEF Typed
  <1>7. /\ thread'[handle].pc = thread[handle].pc
        /\ thread'[handle].hooks = thread[handle].hooks
        /\ thread'[handle].wanted = thread[handle].wanted
        /\ thread'[handle].permanent = thread[handle].permanent
        /\ thread'[handle].queue = Append(thread[handle].queue, Sync)
    BY <1>4, <1>5, <1>6, SMT DEF WaitHookIdle, ThreadTyped
  <1>8. \A t \in Threads : t # handle => thread'[t] = thread[t]
    BY <1>4, <1>5, <1>6, SMT DEF WaitHookIdle
  <1>9. call'.pc = "syncing"
    BY SMT DEF WaitHookIdle, Idle
  <1>10. Syncing'
    <2>1. thread'[handle].queue = <<Sync>>
      BY <1>3, <1>7 DEF Served
    <2>2. Served(IF synced THEN <<>> ELSE <<Sync>>)'
      BY <1>1, <1>3, <1>7, <2>1 DEF Served, Serves, Leaving
    <2> QED
      BY <1>1, <1>3, <2>2 DEF Syncing, AsAsked
  <1>11. OneThread'
    <2>1. ASSUME NEW t \in Threads PROVE Shaped(thread'[t])
      <3>1. CASE t = handle
        BY <1>3, <1>4, <1>7, <3>1, SMT DEF Sound, OneThread, Shaped, InHook, Served, Serves, Leaving
      <3>2. CASE t # handle
        BY <1>8, <3>2 DEF Sound, OneThread
      <3> QED
        BY <3>1, <3>2
    <2>2. ASSUME NEW t \in Threads, t # threadID' PROVE Forgotten(thread'[t])
      BY <1>1, <1>4, <1>8, <2>2 DEF Sound, OneThread
    <2>3. InEvent' = InEvent
      BY <1>4, <1>7, <1>8, SMT DEF InEvent
    <2>4. Alive(threadID)' = Alive(threadID)
      BY <1>1, <1>4, <1>7 DEF Alive
    <2> QED
      BY <1>1, <2>1, <2>2, <2>3, <2>4 DEF Sound, OneThread
  <1> QED
    BY <1>9, <1>10, <1>11 DEF Sound, Phased

LEMMA MainCallsKeep ==
  ASSUME Typed, Typed', Sound, MainCalls
  PROVE  Sound'
  <1>1. ASSUME NEW want \in SUBSET Hooks, ChangeHookState(want) PROVE Sound'
    BY <1>1, EnterKeeps DEF ChangeHookState
  <1>2. ASSUME NEW h \in Hooks, ForceRemove(h) PROVE Sound'
    <2>1. Enter(active \ {h}, FALSE, mem)
          /\ UNCHANGED <<active, synced, replies, older>>
      BY <1>2 DEF ForceRemove
    <2>2. active \ {h} # {} => mem
      <3>1. AtRest /\ OneThread
        BY <2>1 DEF Sound, Phased, Enter
      <3>2. ASSUME active # {} PROVE mem
        <4>1. handle # None /\ Served(<<>>)
          BY <3>1, <3>2 DEF AtRest
        <4>2. Alive(handle)
          BY <4>1 DEF Served, Serves, Leaving, Alive, InHook
        <4> QED
          BY <3>1, <4>1, <4>2 DEF OneThread, Typed
      <3> QED
        BY <3>2
    <2> QED
      BY <2>1, <2>2, EnterKeeps
  <1>3. ASSUME NEW which \in SUBSET Hooks, TemporaryRemove(which) PROVE Sound'
    BY <1>3, EnterKeeps DEF TemporaryRemove
  <1>4. ASSUME TemporaryRestore PROVE Sound'
    BY <1>4, EnterKeeps DEF TemporaryRestore
  <1>5. CASE WaitHookIdle
    BY <1>5, WaitHookIdleKeeps
  <1> QED
    BY <1>1, <1>2, <1>3, <1>4, <1>5 DEF MainCalls


----------------------------------------------------------------------------
(* The hook threads *)

\* A thread that the main thread has left without hooks does nothing but end its
\* last change.
LEMMA ForgottenActs ==
  ASSUME Typed, NEW t \in Threads, Forgotten(thread[t]),
         ThreadSteps(t) \/ EventBegins(t) \/ Evaluates(t)
  PROVE  Finish(t) /\ Leaving(thread[t])
  <1>1. thread[t].pc \in {"gone", "pumping", "published"} /\ thread[t].queue = <<>>
        /\ thread[t].hooks = {}
        /\ (thread[t].pc = "published" => Leaving(thread[t]))
    BY DEF Forgotten, Leaving
  <1>2. ~Begin(t) /\ ~EventBegins(t) /\ ~EventEnds(t) /\ ~Evaluates(t) /\ ~Evaluated(t)
        /\ ~EvaluationTimesOut(t) /\ ~Publish(t)
    BY <1>1 DEF Begin, EventBegins, EventEnds, Evaluates, Evaluated, EvaluationTimesOut,
                Publish
  <1>3. ~HandleChange(t) /\ ~HandleSync(t)
    BY <1>1 DEF HandleChange, HandleSync
  <1>4. Finish(t)
    BY <1>2, <1>3 DEF ThreadSteps
  <1> QED
    BY <1>1, <1>4 DEF Finish

\* What the threads' records say together, when one of them changes.
LEMMA OneChanged ==
  ASSUME Typed, OneThread, NEW t \in Threads,
         UNCHANGED <<handle, threadID, mem>>,
         \A u \in Threads : u # t => thread'[u] = thread[u],
         Alive(t), Shaped(thread'[t]),
         t # threadID => Forgotten(thread'[t]),
         older' \subseteq older,
         t \in older' => thread'[t].pc \in InHook
  PROVE  OneThread'
  <1>1. \A u \in Threads : Shaped(thread'[u])
    BY DEF OneThread
  <1>2. \A u \in Threads : u # threadID' => Forgotten(thread'[u])
    BY DEF OneThread
  <1>3. older' \subseteq InEvent'
    <2>1. ASSUME NEW u \in older' PROVE u \in InEvent'
      <3>1. u \in InEvent
        BY <2>1 DEF OneThread
      <3> QED
        BY <2>1, <3>1 DEF InEvent, InHook
    <2> QED
      BY <2>1
  <1>4. handle' = None => threadID' = None \/ ~Alive(threadID)'
    BY DEF OneThread, Typed, Alive
  <1>5. threadID' # None /\ Alive(threadID)' => mem'
    BY DEF OneThread, Typed, Alive
  <1> QED
    BY <1>1, <1>2, <1>3, <1>4, <1>5 DEF OneThread

\* The thread goes on serving, with the hooks and messages that it has.
LEMMA StillServes ==
  ASSUME Typed, Sound, NEW t \in Threads, t = handle,
         UNCHANGED <<call, active, handle, synced, replies, asked>>,
         ~(call.pc = "waiting" /\ Changing),
         Serves(thread[t]), Serves(thread'[t]),
         thread'[t].hooks = thread[t].hooks, thread'[t].queue = thread[t].queue,
         older' \subseteq older
  PROVE  Phased'
  <1>1. ASSUME NEW m, Served(m) PROVE Serves(thread'[handle']) /\ thread'[handle'].hooks = active'
                                      /\ thread'[handle'].queue = m
    BY <1>1 DEF Served
  <1>2. t # None
    BY HookAssumption
  <1>3. Alive(handle) /\ Alive(handle)' /\ thread[handle] # Starting
    <2>1. Starting.pc = "starting"
      BY SMT DEF Starting, NoThread
    <2> QED
      BY <2>1 DEF Alive, Serves, Leaving, InHook
  <1>4. Request' = Request
    BY DEF Request
  <1>5. call.pc = "idle" => AtRest'
    <2>1. ASSUME call.pc = "idle" PROVE AtRest'
      <3>1. AtRest
        BY <2>1 DEF Sound, Phased
      <3> QED
        BY <1>1, <1>2, <3>1 DEF AtRest, AsAsked, Served
    <2> QED
      BY <2>1
  <1>6. call.pc = "syncing" => Syncing'
    <2>1. ASSUME call.pc = "syncing" PROVE Syncing'
      <3>1. Syncing
        BY <2>1 DEF Sound, Phased
      <3> QED
        BY <1>1, <1>2, <3>1 DEF Syncing, AsAsked, Served
    <2> QED
      BY <2>1
  <1>7. call.pc = "posting" => ToPost'
    <2>1. ASSUME call.pc = "posting" PROVE ToPost'
      <3>1. ToPost
        BY <2>1 DEF Sound, Phased
      <3> QED
        BY <1>1, <1>2, <1>3, <3>1 DEF ToPost, Served
    <2> QED
      BY <2>1
  <1>8. call.pc = "waiting" => Posted' \/ Answered' \/ Removed'
    <2>1. ASSUME call.pc = "waiting" PROVE Posted' \/ Answered' \/ Removed'
      <3>1. Posted \/ Answered \/ Removed
        BY <1>2, <1>3, <2>1 DEF Sound, Phased, Unposted, Ended
      <3>2. CASE Posted
        BY <1>1, <1>4, <3>2 DEF Posted, Served
      <3>3. CASE Answered
        BY <1>1, <1>3, <3>3 DEF Answered, Served
      <3>4. CASE Removed
        BY <1>1, <3>4 DEF Removed, Served
      <3> QED
        BY <3>1, <3>2, <3>3, <3>4
    <2> QED
      BY <2>1
  <1> QED
    BY <1>5, <1>6, <1>7, <1>8 DEF Phased

\* Only the pc of a thread changes.
LEMMA PcOnly ==
  ASSUME Typed, NEW t \in Threads, NEW pc, Becomes(t, pc)
  PROVE  /\ thread'[t].pc = pc
         /\ thread'[t].hooks = thread[t].hooks
         /\ thread'[t].queue = thread[t].queue
         /\ thread'[t].wanted = thread[t].wanted
         /\ thread'[t].permanent = thread[t].permanent
         /\ thread'[t].problem = thread[t].problem
         /\ \A u \in Threads : u # t => thread'[u] = thread[u]
  <1>1. thread \in [Threads -> ThreadTyped]
    BY DEF Typed
  <1>2. /\ thread'[t].pc = pc
        /\ thread'[t].hooks = thread[t].hooks
        /\ thread'[t].queue = thread[t].queue
        /\ thread'[t].wanted = thread[t].wanted
        /\ thread'[t].permanent = thread[t].permanent
    BY <1>1, SMT DEF Becomes, ThreadTyped
  <1>3. thread'[t].problem = thread[t].problem
    BY <1>1, SMT DEF Becomes, ThreadTyped
  <1>4. \A u \in Threads : u # t => thread'[u] = thread[u]
    BY <1>1, SMT DEF Becomes
  <1> QED
    BY <1>2, <1>3, <1>4

LEMMA BeginKeeps ==
  ASSUME Typed, Sound, NEW t \in Threads, t = handle, t = threadID, Begin(t)
  PROVE  Sound'
  <1>1. thread[t].pc = "starting" /\ Becomes(t, "pumping")
        /\ UNCHANGED <<call, active, handle, threadID, mem, synced, replies, asked, older>>
    BY DEF Begin, othersOfThread, mainVars
  <1>2. thread[t] = Starting
    BY <1>1 DEF Sound, OneThread, Shaped
  <1>3. thread[t].hooks = {} /\ thread[t].queue = <<>>
    BY <1>2, SMT DEF Starting, NoThread
  <1>4. /\ thread'[t].pc = "pumping"
        /\ thread'[t].hooks = {} /\ thread'[t].queue = <<>>
        /\ \A u \in Threads : u # t => thread'[u] = thread[u]
    BY <1>1, <1>3, PcOnly
  <1>5. t # None
    BY HookAssumption
  <1>6. ~Served(<<>>) /\ ~Served(<<Sync>>) /\ ~Served(<<Request>>) /\ Alive(handle)
    BY <1>1 DEF Served, Serves, Leaving, InHook, Alive
  <1>7. call.pc = "posting" /\ active = {} /\ ToPost
    <2>1. call.pc # "idle" /\ call.pc # "syncing"
      BY <1>5, <1>6 DEF Sound, Phased, AtRest, Syncing
    <2>2. call.pc # "waiting"
      BY <1>1, <1>5, <1>6 DEF Sound, Phased, Unposted, Posted, Changing, Answered, Removed, Ended
    <2> QED
      BY <1>5, <1>6, <2>1, <2>2, SMT DEF Sound, Phased, ToPost, Typed, CallTyped
  <1>8. ToPost'
    BY <1>1, <1>4, <1>5, <1>7 DEF ToPost, Served, Serves
  <1>9. Phased'
    BY <1>1, <1>7, <1>8 DEF Phased
  <1>10. t \notin older
    BY <1>1 DEF Sound, OneThread, InEvent
  <1>11. Shaped(thread'[t])
    BY <1>4 DEF Shaped, InHook
  <1>12. OneThread'
    BY <1>1, <1>4, <1>10, <1>11, OneChanged DEF Sound, Alive
  <1> QED
    BY <1>9, <1>12 DEF Sound

LEMMA EventKeeps ==
  ASSUME Typed, Sound, NEW t \in Threads, t = handle, t = threadID,
         EventBegins(t) \/ EventEnds(t) \/ Evaluates(t) \/ Evaluated(t)
           \/ EvaluationTimesOut(t)
  PROVE  Sound'
  <1>1. PICK pc \in InHook \cup {"pumping"} :
          /\ Becomes(t, pc)
          /\ thread[t].pc \in InHook \cup {"pumping"}
          /\ thread[t].hooks # {}
          /\ older' \subseteq older
          /\ t \in older' => pc \in InHook
    <2>1. thread[t].pc \in InHook => thread[t].hooks # {}
      BY DEF Sound, OneThread, Shaped
    <2>2. t \in older => thread[t].pc \in InHook
      BY DEF Sound, OneThread, InEvent, InHook
    <2>3. CASE EventBegins(t)
      BY <2>2, <2>3 DEF EventBegins, InHook
    <2>4. CASE EventEnds(t)
      BY <2>1, <2>4 DEF EventEnds, InHook
    <2>5. CASE Evaluates(t)
      BY <2>1, <2>5 DEF Evaluates, InHook
    <2>6. CASE Evaluated(t) \/ EvaluationTimesOut(t)
      BY <2>1, <2>6 DEF Evaluated, EvaluationTimesOut, InHook
    <2> QED
      BY <2>3, <2>4, <2>5, <2>6
  <1>2. UNCHANGED <<call, active, handle, threadID, mem, synced, replies, asked>>
    BY DEF EventBegins, EventEnds, Evaluates, Evaluated, EvaluationTimesOut,
           othersOfThread, mainVars
  <1>3. /\ thread'[t].pc = pc
        /\ thread'[t].hooks = thread[t].hooks /\ thread'[t].queue = thread[t].queue
        /\ \A u \in Threads : u # t => thread'[u] = thread[u]
    BY <1>1, PcOnly
  <1>4. Serves(thread[t]) /\ Serves(thread'[t])
    BY <1>1, <1>3 DEF Serves
  <1>5. ~Changing
    BY <1>1 DEF Changing, InHook
  <1>6. Phased'
    BY <1>1, <1>2, <1>3, <1>4, <1>5, StillServes
  <1>7. Shaped(thread'[t])
    BY <1>1, <1>3 DEF Shaped, InHook
  <1>8. Alive(t)
    BY <1>1 DEF Alive, InHook
  <1>9. OneThread'
    BY <1>1, <1>2, <1>3, <1>7, <1>8, OneChanged DEF Sound
  <1> QED
    BY <1>6, <1>9 DEF Sound


LEMMA HandleChangeKeeps ==
  ASSUME Typed, Sound, NEW t \in Threads, t = handle, t = threadID, HandleChange(t)
  PROVE  Sound'
  <1>1. /\ thread[t].pc = "pumping" /\ thread[t].queue # <<>>
        /\ Head(thread[t].queue).type = "change"
        /\ UNCHANGED <<call, active, handle, threadID, mem, synced, replies, asked, older>>
    BY DEF HandleChange, othersOfThread, mainVars
  <1>2. t # None /\ Alive(handle)
    BY <1>1, HookAssumption DEF Alive
  <1>3. /\ Request.type = "change" /\ Request.hooks = call.want
        /\ Request.permanent = ~call.temporary
    BY RequestTyped
  <1>4. Head(<<Request>>) = Request /\ Head(<<Sync>>) = Sync
    OBVIOUS
  <1>5. Sync.type # "change"
    BY SMT DEF Sync
  <1>6. ~Served(<<>>) /\ ~Served(<<Sync>>)
    BY <1>1, <1>4, <1>5 DEF Served
  <1>7. call.pc = "waiting" /\ Posted
    <2>1. thread[handle] # Starting
      <3>1. Starting.pc = "starting"
        BY SMT DEF Starting, NoThread
      <3> QED
        BY <1>1, <3>1
    <2>2. call.pc # "idle" /\ call.pc # "syncing" /\ call.pc # "posting"
      BY <1>2, <1>6, <2>1 DEF Sound, Phased, AtRest, Syncing, ToPost
    <2>3. call.pc = "waiting"
      BY <2>2, SMT DEF Typed, CallTyped
    <2> QED
      BY <1>1, <1>2, <1>6, <2>3 DEF Sound, Phased, Unposted, Changing, Answered, Removed, Ended
  <1>8. thread[t].queue = <<Request>> /\ thread[t].hooks = active
    BY <1>7 DEF Posted, Served
  <1>9. Head(thread[t].queue) = Request /\ Tail(thread[t].queue) = <<>>
    BY <1>8
  <1>10. PICK installed \in SUBSET (call.want \ thread[t].hooks) :
           thread' = [thread EXCEPT ![t] =
                [pc |-> "changed",
                 hooks |-> (thread[t].hooks \cap call.want) \cup installed,
                 queue |-> <<>>,
                 permanent |-> Request.permanent,
                 wanted |-> call.want,
                 problem |-> installed # call.want \ thread[t].hooks]]
    BY <1>3, <1>9, ZenonT(60) DEF HandleChange
  <1>11. thread \in [Threads -> ThreadTyped]
    BY DEF Typed
  <1>12. thread'[t] = [pc |-> "changed",
                 hooks |-> (thread[t].hooks \cap call.want) \cup installed,
                 queue |-> <<>>,
                 permanent |-> Request.permanent,
                 wanted |-> call.want,
                 problem |-> installed # call.want \ thread[t].hooks]
    BY <1>10, <1>11, Zenon
  <1>13. /\ thread'[t].pc = "changed"
         /\ thread'[t].hooks = (thread[t].hooks \cap call.want) \cup installed
         /\ thread'[t].queue = <<>>
         /\ thread'[t].permanent = Request.permanent
         /\ thread'[t].wanted = call.want
         /\ thread'[t].problem = (installed # call.want \ thread[t].hooks)
    BY <1>12
  <1>14. \A u \in Threads : u # t => thread'[u] = thread[u]
    BY <1>10, <1>11, Zenon
  <1>15. thread'[t].hooks \subseteq call.want
         /\ (thread'[t].problem <=> thread'[t].hooks # call.want)
    BY <1>13
  <1>16. Changing'
    <2>1. call.want # active /\ ~call.failed /\ replies = <<>>
      BY <1>7 DEF Posted
    <2>2. thread'[t].permanent = ~call.temporary
      BY <1>3, <1>13
    <2> QED
      BY <1>1, <1>2, <1>13, <1>15, <2>1, <2>2 DEF Changing
  <1>17. Shaped(thread'[t])
    BY <1>13 DEF Shaped, InHook
  <1>18. t \notin older
    BY <1>1 DEF Sound, OneThread, InEvent
  <1>19. OneThread'
    BY <1>1, <1>2, <1>14, <1>17, <1>18, OneChanged DEF Sound
  <1> QED
    BY <1>1, <1>7, <1>16, <1>19, NowWaiting DEF Sound

LEMMA PublishKeeps ==
  ASSUME Typed, Sound, NEW t \in Threads, t = handle, t = threadID, Publish(t)
  PROVE  Sound'
  <1>1. /\ thread[t].pc = "changed" /\ active' = thread[t].hooks
        /\ Becomes(t, "published")
        /\ UNCHANGED <<call, handle, threadID, mem, synced, replies, asked, older>>
    BY DEF Publish, mainVars
  <1>2. t # None /\ Alive(handle)
    BY <1>1, HookAssumption DEF Alive
  <1>3. ~Serves(thread[handle]) /\ thread[handle] # Starting
    <2>1. Starting.pc = "starting"
      BY SMT DEF Starting, NoThread
    <2> QED
      BY <1>1, <2>1 DEF Serves, Leaving, InHook
  <1>4. call.pc = "waiting" /\ Changing
    <2>1. call.pc # "idle" /\ call.pc # "syncing" /\ call.pc # "posting"
      BY <1>2, <1>3 DEF Sound, Phased, AtRest, Syncing, ToPost, Served
    <2>2. call.pc = "waiting"
      BY <2>1, SMT DEF Typed, CallTyped
    <2> QED
      BY <1>2, <1>3, <2>2 DEF Sound, Phased, Unposted, Posted, Answered, Removed, Ended, Served
  <1>5. /\ thread'[t].pc = "published"
        /\ thread'[t].hooks = thread[t].hooks
        /\ thread'[t].queue = thread[t].queue
        /\ thread'[t].wanted = thread[t].wanted
        /\ thread'[t].permanent = thread[t].permanent
        /\ thread'[t].problem = thread[t].problem
        /\ \A u \in Threads : u # t => thread'[u] = thread[u]
    BY <1>1, PcOnly
  <1>6. Changing'
    BY <1>1, <1>4, <1>5 DEF Changing
  <1>7. Shaped(thread'[t])
    BY <1>5 DEF Shaped, InHook
  <1>8. t \notin older
    BY <1>1 DEF Sound, OneThread, InEvent
  <1>9. OneThread'
    BY <1>1, <1>2, <1>5, <1>7, <1>8, OneChanged DEF Sound
  <1> QED
    BY <1>1, <1>4, <1>6, <1>9, NowWaiting DEF Sound

\* The record of a thread that has finished a change.
LEMMA Finished ==
  ASSUME Typed, NEW t \in Threads, Finish(t)
  PROVE  /\ \A u \in Threads : u # t => thread'[u] = thread[u]
         /\ Exits(t) => thread'[t] = NoThread
         /\ ~Exits(t) => /\ thread'[t].pc = "pumping"
                         /\ thread'[t].hooks = thread[t].hooks
                         /\ thread'[t].queue = thread[t].queue
  <1>1. thread \in [Threads -> ThreadTyped]
    BY DEF Typed
  <1>2. \A u \in Threads : u # t => thread'[u] = thread[u]
    BY <1>1, Zenon DEF Finish
  <1>3. thread'[t] = IF Exits(t) THEN NoThread
                     ELSE [NoThread EXCEPT !.pc = "pumping", !.hooks = thread[t].hooks,
                                           !.queue = thread[t].queue]
    BY <1>1, Zenon DEF Finish
  <1>4. ASSUME NEW n \in ThreadTyped, NEW r,
               r = [n EXCEPT !.pc = "pumping", !.hooks = thread[t].hooks,
                             !.queue = thread[t].queue]
        PROVE  r.pc = "pumping" /\ r.hooks = thread[t].hooks /\ r.queue = thread[t].queue
    BY <1>4, SMT DEF ThreadTyped
  <1> QED
    BY <1>2, <1>3, <1>4, NoThreadTyped, ZenonT(60)

LEMMA FinishKeeps ==
  ASSUME Typed, Sound, NEW t \in Threads, t = handle, t = threadID, Finish(t)
  PROVE  Sound'
  <1>1. /\ thread[t].pc = "published"
        /\ UNCHANGED <<call, active, handle, threadID, mem, synced, asked, older>>
        /\ thread[t].wanted = {} => UNCHANGED replies
        /\ thread[t].wanted # {} => replies' = Append(replies, thread[t].problem)
    BY DEF Finish, mainVars
  <1>2. t # None /\ Alive(t)
    BY <1>1, HookAssumption DEF Alive
  <1>3. /\ \A u \in Threads : u # t => thread'[u] = thread[u]
        /\ Exits(t) => thread'[t] = NoThread
        /\ ~Exits(t) => /\ thread'[t].pc = "pumping"
                        /\ thread'[t].hooks = thread[t].hooks
                        /\ thread'[t].queue = thread[t].queue
    BY Finished
  <1>4. NoThread.pc = "gone"
    BY SMT DEF NoThread
  <1>5. OneThread'
    <2>1. Shaped(thread'[t])
      BY <1>3, <1>4 DEF Shaped, InHook
    <2>2. t \notin older
      BY <1>1 DEF Sound, OneThread, InEvent
    <2> QED
      BY <1>1, <1>2, <1>3, <2>1, <2>2, OneChanged DEF Sound
  <1>6. CASE ~(call.pc = "waiting" /\ Changing)
    <2>1. Leaving(thread[t])
      <3>1. thread[handle] # Starting
        <4>1. Starting.pc = "starting"
          BY SMT DEF Starting, NoThread
        <4> QED
          BY <1>1, <4>1
      <3>2. Serves(thread[handle])
        <4>1. CASE call.pc \in {"idle", "syncing", "posting"}
          BY <1>2, <3>1, <4>1 DEF Sound, Phased, AtRest, Syncing, ToPost, Served
        <4>2. CASE call.pc = "waiting"
          BY <1>2, <1>6, <4>2
             DEF Sound, Phased, Unposted, Posted, Answered, Removed, Ended, Served
        <4>3. call.pc \in {"idle", "syncing", "posting", "waiting"}
          BY SMT DEF Typed, CallTyped
        <4> QED
          BY <4>1, <4>2, <4>3
      <3> QED
        BY <1>1, <3>2 DEF Serves, InHook
    <2>2. ~Exits(t) /\ UNCHANGED replies
      BY <1>1, <2>1 DEF Exits, Leaving
    <2>3. Serves(thread[t]) /\ Serves(thread'[t])
      BY <1>3, <2>1, <2>2 DEF Serves
    <2>4. Phased'
      BY <1>1, <1>3, <1>6, <2>2, <2>3, StillServes
    <2> QED
      BY <1>5, <2>4 DEF Sound
  <1>7. CASE call.pc = "waiting" /\ Changing
    <2>1. /\ replies = <<>> /\ ~call.failed
          /\ thread[t].queue = <<>> /\ thread[t].wanted = call.want
          /\ thread[t].permanent = ~call.temporary
          /\ thread[t].hooks \subseteq call.want
          /\ thread[t].problem <=> thread[t].hooks # call.want
          /\ active = thread[t].hooks
      BY <1>1, <1>7 DEF Changing
    <2>2. Exits(t) <=> ~call.temporary /\ active = {}
      BY <2>1 DEF Exits
    <2>3. Exits(t) => ~Alive(handle)'
      BY <1>1, <1>3, <1>4 DEF Alive
    <2>4. ~Exits(t) => Alive(handle)' /\ Served(<<>>)'
      BY <1>1, <1>3, <2>1 DEF Alive, Served, Serves
    <2>5. CASE call.want = {}
      <3>1. active = {} /\ replies' = <<>>
        BY <1>1, <2>1, <2>5
      <3>2. CASE ~call.temporary
        <4>1. Ended'
          BY <1>1, <1>2, <2>2, <2>3, <2>5, <3>1, <3>2 DEF Ended
        <4> QED
          BY <1>1, <1>5, <1>7, <4>1, NowWaiting DEF Sound
      <3>3. CASE call.temporary
        <4>1. Removed'
          BY <1>1, <1>2, <2>1, <2>2, <2>4, <2>5, <3>1, <3>3 DEF Removed
        <4> QED
          BY <1>1, <1>5, <1>7, <4>1, NowWaiting DEF Sound
      <3> QED
        BY <3>2, <3>3
    <2>6. CASE call.want # {}
      <3>1. thread[t].problem \in BOOLEAN
        BY SMT DEF Typed, ThreadTyped
      <3>2. replies' = <<thread[t].problem>> /\ (thread[t].problem <=> active # call.want)
        BY <1>1, <2>1, <2>6
      <3>3. Answered'
        BY <1>1, <1>2, <2>1, <2>2, <2>3, <2>4, <2>6, <3>1, <3>2 DEF Answered
      <3> QED
        BY <1>1, <1>5, <1>7, <3>3, NowWaiting DEF Sound
    <2> QED
      BY <2>5, <2>6
  <1> QED
    BY <1>6, <1>7

LEMMA HandleSyncKeeps ==
  ASSUME Typed, Sound, NEW t \in Threads, t = handle, t = threadID, HandleSync(t)
  PROVE  Sound'
  <1>1. /\ thread[t].pc = "pumping" /\ thread[t].queue # <<>>
        /\ Head(thread[t].queue) = Sync /\ synced' = TRUE
        /\ thread' = [thread EXCEPT ![t].queue = Tail(@)]
        /\ UNCHANGED <<call, active, handle, threadID, mem, replies, asked, older>>
    BY DEF HandleSync, mainVars
  <1>2. t # None /\ Alive(t)
    BY <1>1, HookAssumption DEF Alive
  <1>3. Head(<<Request>>) = Request /\ Request # Sync
    BY RequestTyped
  <1>4. ~Served(<<>>) /\ ~Served(<<Request>>)
    BY <1>1, <1>3 DEF Served
  <1>5. call.pc = "syncing" /\ Syncing /\ ~synced
    <2>1. thread[handle] # Starting
      <3>1. Starting.pc = "starting"
        BY SMT DEF Starting, NoThread
      <3> QED
        BY <1>1, <3>1
    <2>2. call.pc # "idle" /\ call.pc # "posting"
      BY <1>2, <1>4, <2>1 DEF Sound, Phased, AtRest, ToPost
    <2>3. call.pc # "waiting"
      BY <1>1, <1>2, <1>4 DEF Sound, Phased, Unposted, Posted, Changing, Answered, Removed, Ended
    <2>4. call.pc = "syncing"
      BY <2>2, <2>3, SMT DEF Typed, CallTyped
    <2> QED
      BY <1>4, <2>4 DEF Sound, Phased, Syncing
  <1>6. Served(<<Sync>>)
    BY <1>5 DEF Syncing
  <1>7. /\ thread'[t].pc = "pumping" /\ thread'[t].hooks = thread[t].hooks
        /\ thread'[t].queue = Tail(thread[t].queue)
        /\ \A u \in Threads : u # t => thread'[u] = thread[u]
    BY <1>1, SMT DEF Typed, ThreadTyped
  <1>8. thread'[t].queue = <<>>
    <2>1. thread[t].queue = <<Sync>>
      BY <1>6 DEF Served
    <2> QED
      BY <1>7, <2>1
  <1>9. older = {}
    <2>1. ASSUME NEW u \in older PROVE FALSE
      <3>1. u \in Threads /\ thread[u].pc \in InHook
        BY <2>1 DEF Sound, OneThread, InEvent, InHook
      <3>2. u # t
        BY <1>1, <3>1 DEF InHook
      <3>3. Forgotten(thread[u])
        BY <3>1, <3>2 DEF Sound, OneThread
      <3> QED
        BY <3>1, <3>3 DEF Forgotten, Leaving, InHook
    <2> QED
      BY <2>1
  <1>10. Syncing'
    <2>1. Served(<<>>)'
      BY <1>1, <1>6, <1>7, <1>8 DEF Served, Serves
    <2> QED
      BY <1>1, <1>2, <1>5, <1>9, <2>1 DEF Syncing, AsAsked
  <1>11. Shaped(thread'[t])
    BY <1>7 DEF Shaped, InHook
  <1>12. OneThread'
    BY <1>1, <1>2, <1>7, <1>9, <1>11, OneChanged DEF Sound
  <1> QED
    BY <1>1, <1>5, <1>10, <1>12 DEF Sound, Phased

LEMMA ForgottenKeeps ==
  ASSUME Typed, Sound, NEW t \in Threads, t # handle, t # threadID,
         Finish(t), Leaving(thread[t]), Forgotten(thread[t])
  PROVE  Sound'
  <1>1. /\ thread[t].pc = "published" /\ thread[t].wanted = {} /\ ~thread[t].permanent
        /\ UNCHANGED <<call, active, handle, threadID, mem, synced, replies, asked, older>>
    BY DEF Finish, Leaving, mainVars
  <1>2. ~Exits(t)
    BY <1>1 DEF Exits
  <1>3. /\ \A u \in Threads : u # t => thread'[u] = thread[u]
        /\ thread'[t].pc = "pumping" /\ thread'[t].hooks = thread[t].hooks
        /\ thread'[t].queue = thread[t].queue
    BY <1>2, Finished
  <1>4. Forgotten(thread'[t]) /\ Shaped(thread'[t])
    BY <1>3 DEF Forgotten, Shaped, InHook
  <1>5. t \notin older /\ Alive(t)
    BY <1>1 DEF Sound, OneThread, InEvent, Alive
  <1>6. OneThread'
    BY <1>1, <1>3, <1>4, <1>5, OneChanged DEF Sound
  <1>7. handle # None => thread'[handle] = thread[handle]
    BY <1>3 DEF Typed
  <1>8. Phased'
    <2>1. call.pc = "idle" => AtRest'
      BY <1>1, <1>7 DEF Sound, Phased, AtRest, AsAsked, Served
    <2>2. call.pc = "syncing" => Syncing'
      BY <1>1, <1>7 DEF Sound, Phased, Syncing, AsAsked, Served
    <2>3. call.pc = "posting" => ToPost'
      BY <1>1, <1>7 DEF Sound, Phased, ToPost, Served
    <2>4. Request' = Request
      BY <1>1 DEF Request
    <2>5. call.pc = "waiting" =>
            Unposted' \/ Posted' \/ Changing' \/ Answered' \/ Removed' \/ Ended'
      <3>1. (Unposted => Unposted') /\ (Posted => Posted') /\ (Changing => Changing')
        BY <1>1, <1>7, <2>4 DEF Unposted, Posted, Changing, Served
      <3>2. (Answered => Answered') /\ (Removed => Removed') /\ (Ended => Ended')
        BY <1>1, <1>7 DEF Answered, Removed, Ended, Served, Alive
      <3> QED
        BY <3>1, <3>2 DEF Sound, Phased
    <2> QED
      BY <1>1, <2>1, <2>2, <2>3, <2>5 DEF Phased
  <1> QED
    BY <1>6, <1>8 DEF Sound


----------------------------------------------------------------------------
(* The invariant *)

LEMMA ThreadsKeep ==
  ASSUME Typed, Sound, NEW t \in Threads,
         ThreadSteps(t) \/ EventBegins(t) \/ Evaluates(t)
  PROVE  Sound'
  <1>1. Alive(t)
    <2>1. CASE EventBegins(t) \/ Evaluates(t)
      BY <2>1 DEF EventBegins, Evaluates, Alive
    <2>2. CASE ThreadSteps(t)
      BY <2>2 DEF ThreadSteps, Begin, EventEnds, Evaluated, EvaluationTimesOut,
                  HandleChange, Publish, Finish, HandleSync, Alive
    <2> QED
      BY <2>1, <2>2
  <1>2. CASE t = handle /\ t = threadID
    BY <1>2, BeginKeeps, EventKeeps, HandleChangeKeeps, PublishKeeps, FinishKeeps,
       HandleSyncKeeps DEF ThreadSteps
  <1>3. CASE t # handle /\ t # threadID /\ Forgotten(thread[t])
    BY <1>3, ForgottenActs, ForgottenKeeps
  <1> QED
    BY <1>1, <1>2, <1>3, Acting DEF Sound

LEMMA InvKept == Inv /\ [Next]_vars => Inv'
  <1> SUFFICES ASSUME Inv, [Next]_vars, ~late' PROVE Sound'
    BY TypedKept DEF Inv
  <1>1. Typed /\ Typed'
    BY TypedKept DEF Inv
  <1>2. ~late
    <2>1. CASE MainReturns
      <3>1. CASE TimesOut
        BY <3>1 DEF TimesOut
      <3>2. CASE Post \/ GiveUpPosting \/ TakeReply \/ SeesNoHooks \/ SeesExit \/ SeesSynced
        BY <3>2 DEF Post, GiveUpPosting, TakeReply, SeesNoHooks, SeesExit, SeesSynced
      <3> QED
        BY <2>1, <3>1, <3>2 DEF MainReturns
    <2>2. CASE MainCalls
      BY <2>2 DEF MainCalls, ChangeHookState, ForceRemove, TemporaryRemove,
                  TemporaryRestore, WaitHookIdle
    <2>3. ASSUME NEW t \in Threads, ThreadSteps(t) \/ EventBegins(t) \/ Evaluates(t)
          PROVE  ~late
      BY <2>3 DEF ThreadSteps, Begin, EventEnds, Evaluated, EvaluationTimesOut,
                  HandleChange, Publish, Finish, HandleSync, EventBegins, Evaluates,
                  othersOfThread, mainVars
    <2>4. CASE StillWaits \/ UNCHANGED vars
      BY <2>4 DEF StillWaits, vars
    <2> QED
      BY <2>1, <2>2, <2>3, <2>4 DEF Next
  <1>3. Sound
    BY <1>2 DEF Inv
  <1>4. CASE MainReturns
    BY <1>1, <1>3, <1>4, PostKeeps, GiveUpPostingKeeps, TakeReplyKeeps, SeesNoHooksKeeps,
       SeesExitKeeps, TimesOutKeeps, SeesSyncedKeeps DEF MainReturns
  <1>5. CASE MainCalls
    BY <1>1, <1>3, <1>5, MainCallsKeep
  <1>6. ASSUME NEW t \in Threads, ThreadSteps(t) \/ EventBegins(t) \/ Evaluates(t)
        PROVE  Sound'
    BY <1>1, <1>3, <1>6, ThreadsKeep
  <1>7. CASE StillWaits \/ UNCHANGED vars
    <2>1. UNCHANGED vars
      BY <1>7 DEF StillWaits
    <2>2. OneThread'
      BY <1>3, <2>1, OneThreadSame DEF Sound, vars
    <2>3. Request' = Request
      BY <2>1 DEF Request, vars
    <2>4. Phased'
      BY <1>3, <2>1, <2>3
         DEF Sound, vars, Phased, AtRest, AsAsked, Syncing, ToPost, Unposted, Posted,
             Changing, Answered, Removed, Ended, Served, Alive
    <2> QED
      BY <2>2, <2>4 DEF Sound
  <1> QED
    BY <1>4, <1>5, <1>6, <1>7 DEF Next

\* As long as no call is late, the two threads agree on the one request between
\* them, whatever order their steps and the hook's events come in.
THEOREM InvAlways == Spec => []Inv
  <1> QED
    BY InitInv, InvKept, PTL DEF Spec

----------------------------------------------------------------------------
(* The properties *)

\* What is installed is installed by the one thread.
LEMMA OnlyTheOne ==
  ASSUME Typed, OneThread
  PROVE  /\ threadID = None \/ ~Alive(threadID) => Installed = {}
         /\ threadID # None => Installed = thread[threadID].hooks
         /\ \A t \in Threads : t # threadID => thread[t].hooks = {}
  <1>1. \A t \in Threads : t # threadID => thread[t].hooks = {}
    BY DEF OneThread, Forgotten
  <1>2. \A t \in Threads : ~Alive(t) => thread[t].hooks = {}
    <2>1. NoThread.hooks = {}
      BY SMT DEF NoThread
    <2> QED
      BY <2>1 DEF OneThread, Shaped, Alive
  <1>3. threadID # None => threadID \in Threads
    BY DEF Typed
  <1>4. \A h : h \in Installed <=> \E t \in Threads : h \in thread[t].hooks
    BY DEF Installed
  <1>5. threadID = None \/ ~Alive(threadID) => Installed = {}
    <2>1. ASSUME threadID = None \/ ~Alive(threadID) PROVE Installed = {}
      <3>1. \A t \in Threads : thread[t].hooks = {}
        BY <1>1, <1>2, <2>1, HookAssumption
      <3> QED
        BY <1>4, <3>1
    <2> QED
      BY <2>1
  <1>6. threadID # None => Installed = thread[threadID].hooks
    <2>1. ASSUME threadID # None PROVE Installed = thread[threadID].hooks
      <3>1. ASSUME NEW h PROVE h \in Installed <=> h \in thread[threadID].hooks
        <4>1. ASSUME h \in Installed PROVE h \in thread[threadID].hooks
          <5>1. PICK t \in Threads : h \in thread[t].hooks
            BY <1>4, <4>1
          <5> QED
            BY <1>1, <5>1
        <4>2. ASSUME h \in thread[threadID].hooks PROVE h \in Installed
          BY <1>3, <1>4, <2>1, <4>2
        <4> QED
          BY <4>1, <4>2
      <3> QED
        BY <3>1
    <2> QED
      BY <2>1
  <1> QED
    BY <1>1, <1>5, <1>6

\* The arrays that the hook procedures index exist as long as a hook is installed,
\* and no hook is installed by two threads, although a thread that SendInput has
\* left without hooks may go on next to the one that has replaced it.
THEOREM HooksSound == Spec => []InstalledSoundly
  <1>1. Inv => InstalledSoundly
    <2> SUFFICES ASSUME Typed, OneThread
                 PROVE  /\ Installed # {} => mem
                        /\ \A t, u \in Threads :
                             t # u => thread[t].hooks \cap thread[u].hooks = {}
      BY DEF Inv, Sound, InstalledSoundly
    <2>1. Installed # {} => mem
      BY OnlyTheOne DEF OneThread
    <2>2. \A t \in Threads : t # threadID => thread[t].hooks = {}
      BY OnlyTheOne
    <2>3. ASSUME NEW t \in Threads, NEW u \in Threads, t # u
          PROVE  thread[t].hooks \cap thread[u].hooks = {}
      <3>1. thread[t].hooks = {} \/ thread[u].hooks = {}
        BY <2>2, <2>3
      <3> QED
        BY <3>1
    <2> QED
      BY <2>1, <2>3
  <1> QED
    BY <1>1, InvAlways, PTL

\* After a call that has neither failed nor run out of time, the hooks that it asked
\* for are installed, and are those that the main thread believes in, until the next
\* call, however the steps of the two threads interleave.
THEOREM HooksInEffect == Spec => []InEffectInTime
  <1>1. Inv => InEffectInTime
    <2> SUFFICES ASSUME Typed, OneThread, Phased, call.pc = "idle", asked # None
                 PROVE  active = asked /\ Installed = asked
      BY DEF Inv, Sound, InEffectInTime, InEffect
    <2>1. AtRest
      BY DEF Phased
    <2>2. active = asked
      BY <2>1 DEF AtRest, AsAsked
    <2>3. Installed = active
      <3>1. CASE handle = None
        <4>1. Installed = {}
          BY <3>1, OnlyTheOne DEF OneThread
        <4> QED
          BY <2>1, <3>1, <4>1 DEF AtRest
      <3>2. CASE handle # None
        <4>1. handle = threadID /\ threadID # None
          BY <3>2 DEF Typed
        <4>2. thread[handle].hooks = active
          BY <2>1, <3>2 DEF AtRest, Served
        <4> QED
          BY <4>1, <4>2, OnlyTheOne
      <3> QED
        BY <3>1, <3>2
    <2> QED
      BY <2>2, <2>3
  <1> QED
    BY <1>1, InvAlways, PTL

\* When WaitHookIdle returns, every event that was in a hook procedure when it was
\* called has been dealt with.
THEOREM IdleMeansIdle == Spec => []IdleWhenSynced
  <1>1. Inv => IdleWhenSynced
    BY DEF Inv, Sound, Phased, Syncing, IdleWhenSynced
  <1> QED
    BY <1>1, InvAlways, PTL

============================================================================
