------------------------------- MODULE Promises -------------------------------
(* Asynchronous calls between interpreters, each of which has an OS thread of its own:
   Worker.AsyncCall, Promise.Then and Catch (script_h.cpp), ahkPostFunction and
   callPromise (exports.cpp).  The call and its answer are window messages; what
   receives one puts a timer that runs once in front of the work (script2.cpp).  The
   promise is shared memory: both threads change its reference count, and mState and
   mResult under its critical section.

   The parameters and the value of the result are abstract, and so is the priority
   that the timers get: a timer may wait as long as it likes. *)
EXTENDS Integers, Sequences, SequencesExt, FiniteSets

CONSTANTS
  Interpreters, \* OS threads with an interpreter
  Promises,     \* addresses of Promise objects
  Parties,      \* who calls whom with each promise: functions to pairs of interpreters
  MayExit,      \* interpreters that may exit
  MaxThreads,   \* #MaxThreads
  MaxDepth,     \* bound: frames on one stack
  None

ASSUME PromisesAssumption ==
  /\ None \notin Interpreters \cup Promises
  /\ MayExit \subseteq Interpreters
  /\ Parties \subseteq [Promises -> Interpreters \X Interpreters]
  /\ {MaxThreads, MaxDepth} \subseteq Nat \ {0}

VARIABLES
  refs,     \* mRefCount; 0: deleted
  from, to, \* the caller and the interpreter that it calls
  replies,  \* the caller wants an answer: not so ahkPostFunction
  mState,   \* "done" (1) or "failed" (2), and "called" (4), as a set
  mResult,  \* none; writing; ready (it may be a marshalled object); taken
  handlers, \* which of mComplete ("done") and mError ("failed") are set
  held,     \* promises that a variable of the caller refers to
  call,     \* the message or timer of the call
  answer,   \* the message or timer of the answer
  stack,    \* of each interpreter: its activations of callPromise and of AsyncCall
  exited,   \* interpreters that have exited
  lost,     \* history: promises whose message or timer an exit has destroyed
  runs,     \* history: runs of the handler since it was set
  early,    \* history: a handler was set, and ran, while the answer was a timer
  unclaimed \* history: promises done with before AsyncCall could return them

vars == <<refs, from, to, replies, mState, mResult, handlers, held, call, answer,
          stack, exited, lost, runs, early, unclaimed>>

\* A frame.  kind: "call" is for the function, "answer" and "then" for a handler, "send"
\* for an AsyncCall.  pc of a call: "script", or "refused", if the function is not
\* called; and then "locked" (in the critical section), "unlocked" and "posted".  Of an
\* AsyncCall: "waiting" in SendMessage, or "script" that messages sent there run.
Frame(kind, p, pc) == [kind |-> kind, p |-> p, pc |-> pc]

Init ==
  /\ refs = [p \in Promises |-> 0]
  /\ \E parties \in Parties : /\ from = [p \in Promises |-> parties[p][1]]
                             /\ to = [p \in Promises |-> parties[p][2]]
  /\ replies = [p \in Promises |-> FALSE]
  /\ mState = [p \in Promises |-> {}]
  /\ mResult = [p \in Promises |-> "none"]
  /\ handlers = [p \in Promises |-> {}]
  /\ held = {}
  /\ call = [p \in Promises |-> "none"] /\ answer = [p \in Promises |-> "none"]
  /\ stack = [i \in Interpreters |-> <<>>]
  /\ exited = {} /\ lost = {} /\ unclaimed = {}
  /\ runs = [p \in Promises |-> 0] /\ early = [p \in Promises |-> FALSE]

Top(i) == Last(stack[i])
\* The interpreter's script runs, or nothing does: it comes to its message queue.
InScript(i) == i \notin exited /\ (stack[i] # <<>> => Top(i).pc = "script")
\* It is in SendMessage, where it only gets what is sent to it.
Waiting(i) == stack[i] # <<>> /\ Top(i).pc = "waiting"
TopBecomes(i, pc) == stack' = [stack EXCEPT ![i][Len(stack[i])].pc = pc]
Popped(i) == stack' = [stack EXCEPT ![i] = Front(@)]
Released(p, n) == refs' = [refs EXCEPT ![p] = @ - n]

\* The timer of a call makes one thread, the function another, and so does what a
\* message runs; a handler that Then runs at once makes none.
g_nThreads(i) ==
  LET Threads(kind) ==
        Cardinality({n \in DOMAIN stack[i] : stack[i][n].kind = kind
                                            /\ stack[i][n].pc # "waiting"})
  IN  2 * Threads("call") + Threads("answer") + Threads("send")
TimerMayRun(i) == InScript(i) /\ g_nThreads(i) < MaxThreads

\* (Mutant) The critical section is not entered.
NeverLocked(p) == FALSE

\* The promise's critical section is taken, by the thread that writes its result.
Locked(p) == \E i \in Interpreters :
               stack[i] # <<>> /\ Top(i).p = p /\ Top(i).pc = "locked"

----------------------------------------------------------------------------
(* The caller *)

\* `new Promise`: a new object, possibly where a deleted one was; but an address that
\* an AsyncCall has still to return, or has returned, after its deletion is left alone.
New(p, withReply, as) ==
  /\ InScript(from[p]) /\ refs[p] = 0 /\ p \notin unclaimed /\ to[p] \notin exited
  /\ refs' = [refs EXCEPT ![p] = 1]
  /\ replies' = [replies EXCEPT ![p] = withReply]
  /\ mState' = [mState EXCEPT ![p] = {}]
  /\ mResult' = [mResult EXCEPT ![p] = "none"]
  /\ handlers' = [handlers EXCEPT ![p] = {}]
  /\ call' = [call EXCEPT ![p] = as]
  /\ runs' = [runs EXCEPT ![p] = 0] /\ early' = [early EXCEPT ![p] = FALSE]
  /\ UNCHANGED <<from, to, held, answer, exited, lost, unclaimed>>

AsyncCall(p) ==
  /\ New(p, TRUE, "sent") /\ Len(stack[from[p]]) < MaxDepth
  /\ stack' = [stack EXCEPT ![from[p]] = Append(@, Frame("send", p, "waiting"))]

\* ahkPostFunction; a call whose message cannot be posted leaves nothing.
PostFunction(p) ==
  /\ New(p, FALSE, "posted")
  /\ UNCHANGED stack

\* A message that another thread sends (ahkFunction, or one with an OnMessage function)
\* runs script inside SendMessage.  The step stands for all such messages of one wait:
\* between them the interpreter can do no more than while they run.
ScriptRuns(i) ==
  /\ Waiting(i) /\ g_nThreads(i) < MaxThreads
  /\ TopBecomes(i, "script")
  /\ UNCHANGED <<refs, from, to, replies, mState, mResult, handlers, held, call, answer,
                 exited, lost, runs, early, unclaimed>>

\* SendMessage returns: the promise is returned to the script, or given up if the
\* other interpreter is gone.  If it is deleted by now, AddRef writes to freed memory,
\* and the script's variable refers to that: the address is not followed any further.
SendReturns(i) ==
  /\ stack[i] # <<>> /\ Top(i).kind = "send" /\ call[Top(i).p] # "sent"
  /\ Popped(i)
  /\ LET p == Top(i).p
     IN  \/ /\ call[p] = "refused"
            /\ Released(p, 1)
            /\ call' = [call EXCEPT ![p] = "none"]
            /\ UNCHANGED <<held, unclaimed>>
         \/ /\ call[p] # "refused" /\ refs[p] > 0
            /\ refs' = [refs EXCEPT ![p] = @ + 1]
            /\ held' = held \cup {p}
            /\ unclaimed' = unclaimed \ {p}
            /\ UNCHANGED call
         \/ /\ call[p] # "refused" /\ refs[p] = 0
            /\ UNCHANGED <<refs, held, call, unclaimed>>
  /\ UNCHANGED <<from, to, replies, mState, mResult, handlers, answer, exited, lost,
                 runs, early>>

Discard(p) ==
  /\ p \in held /\ InScript(from[p])
  /\ held' = held \ {p}
  /\ Released(p, 1)
  /\ UNCHANGED <<from, to, replies, mState, mResult, handlers, call, answer, stack,
                 exited, lost, runs, early, unclaimed>>

\* Then and Catch.  If the call has already completed that way, the handler runs now.
\* (Mutant) The handler is set, and left to an answer that may have come.
SetsOnly(p, way) == FALSE
RunsNow(p, way) == way \in mState[p]

Then(p, way) ==
  LET i == from[p]
      now == RunsNow(p, way)
  IN  /\ p \in held /\ InScript(i) /\ ~Locked(p)
      /\ way \in mState[p] => Len(stack[i]) < MaxDepth
      /\ handlers' = [handlers EXCEPT ![p] = @ \cup {way}]
      /\ IF now
         THEN /\ refs' = [refs EXCEPT ![p] = @ + 1]
              /\ stack' = [stack EXCEPT ![i] = Append(@, Frame("then", p, "script"))]
              /\ mState' = [mState EXCEPT ![p] = @ \cup {"called"}]
              /\ mResult' = [mResult EXCEPT ![p] = IF @ = "ready" THEN "taken" ELSE @]
         ELSE UNCHANGED <<refs, stack, mState, mResult>>
      /\ runs' = [runs EXCEPT ![p] = IF now THEN 1 ELSE IF way \in mState[p] THEN 0 ELSE @]
      /\ early' = [early EXCEPT ![p] = @ \/ (now /\ answer[p] = "timer")]
      /\ UNCHANGED <<from, to, replies, held, call, answer, exited, lost, unclaimed>>

\* The message of the answer.
\* (Mutant) The reference that came with the message is kept.
TakeAnswerAndKeep(p) ==
  /\ answer[p] = "posted" /\ InScript(from[p])
  /\ IF "called" \in mState[p]
     THEN answer' = [answer EXCEPT ![p] = "none"] /\ UNCHANGED refs
     ELSE /\ refs' = [refs EXCEPT ![p] = @ + 1]
          /\ answer' = [answer EXCEPT ![p] = "timer"]
  /\ UNCHANGED <<from, to, replies, mState, mResult, handlers, held, call, stack,
                 exited, lost, runs, early, unclaimed>>

\* (Mutant) A promise whose handler has run gets a timer all the same.
TakeAnswerAgain(p) ==
  /\ answer[p] = "posted" /\ InScript(from[p])
  /\ refs' = [refs EXCEPT ![p] = @ + 1]
  /\ answer' = [answer EXCEPT ![p] = "timer"]
  /\ UNCHANGED <<from, to, replies, mState, mResult, handlers, held, call, stack,
                 exited, lost, runs, early, unclaimed>>

TakeAnswer(p) ==
  /\ answer[p] = "posted" /\ InScript(from[p])
  /\ IF "called" \in mState[p]
     THEN answer' = [answer EXCEPT ![p] = "none"] /\ Released(p, 1)
     ELSE /\ refs' = [refs EXCEPT ![p] = @ + 1]
          /\ answer' = [answer EXCEPT ![p] = "timer"]
  /\ UNCHANGED <<from, to, replies, mState, mResult, handlers, held, call, stack,
                 exited, lost, runs, early, unclaimed>>

\* Its timer: callPromise runs the handler, if there is one, and gives up both the
\* reference that came with the message and the timer's.  If that comes before AsyncCall
\* has returned, in script run by a message, there is no handler, and no variable.
BeingSent(p) == \E n \in DOMAIN stack[from[p]] :
                  stack[from[p]][n].kind = "send" /\ stack[from[p]][n].p = p

AnswerTimer(p) ==
  LET i == from[p]
      runsHandler == mState[p] \cap handlers[p] # {}
  IN  /\ answer[p] = "timer" /\ TimerMayRun(i)
      /\ runsHandler => Len(stack[i]) < MaxDepth
      /\ mResult' = [mResult EXCEPT ![p] = IF @ = "ready" THEN "taken" ELSE @]
      /\ IF runsHandler
         THEN /\ answer' = [answer EXCEPT ![p] = "running"]
              /\ mState' = [mState EXCEPT ![p] = @ \cup {"called"}]
              /\ stack' = [stack EXCEPT ![i] = Append(@, Frame("answer", p, "script"))]
              /\ runs' = [runs EXCEPT ![p] = @ + 1]
              /\ UNCHANGED <<refs, unclaimed>>
         ELSE /\ answer' = [answer EXCEPT ![p] = "none"]
              /\ Released(p, 2)
              /\ unclaimed' = IF BeingSent(p) THEN unclaimed \cup {p} ELSE unclaimed
              /\ UNCHANGED <<mState, stack, runs>>
      /\ UNCHANGED <<from, to, replies, handlers, held, call, exited, lost, early>>

HandlerReturns(i) ==
  /\ stack[i] # <<>> /\ InScript(i)
  /\ Top(i).kind \in {"answer", "then"}
  /\ LET p == Top(i).p
     IN  IF Top(i).kind = "answer"
         THEN Released(p, 2) /\ answer' = [answer EXCEPT ![p] = "none"]
         ELSE Released(p, 1) /\ UNCHANGED answer
  /\ Popped(i)
  /\ UNCHANGED <<from, to, replies, mState, mResult, handlers, held, call,
                 exited, lost, runs, early, unclaimed>>

----------------------------------------------------------------------------
(* The interpreter that is called *)

\* AHK_EXECUTE_FUNCTION: the call gets a timer.
TakeCall(p) ==
  /\ \/ call[p] = "sent" /\ (InScript(to[p]) \/ Waiting(to[p]))
     \/ call[p] = "posted" /\ InScript(to[p])
  /\ refs' = [refs EXCEPT ![p] = @ + 1]
  /\ call' = [call EXCEPT ![p] = "timer"]
  /\ UNCHANGED <<from, to, replies, mState, mResult, handlers, held, answer, stack,
                 exited, lost, runs, early, unclaimed>>

\* The timer: callPromise, callFuncDll.  At the thread limit the function is not
\* called, and the call has failed.
CallTimer(p) ==
  /\ call[p] = "timer" /\ TimerMayRun(to[p]) /\ Len(stack[to[p]]) < MaxDepth
  /\ call' = [call EXCEPT ![p] = "running"]
  /\ LET refused == g_nThreads(to[p]) + 1 >= MaxThreads
         pc == IF refused THEN "refused" ELSE "script"
     IN  stack' = [stack EXCEPT ![to[p]] = Append(@, Frame("call", p, pc))]
  /\ UNCHANGED <<refs, from, to, replies, mState, mResult, handlers, held, answer,
                 exited, lost, runs, early, unclaimed>>

\* The function returns or throws.  Without a caller that waits, the result is freed
\* and the references are given up: the promise's own, and the timer's.
FunctionEnds(i, way) ==
  /\ stack[i] # <<>> /\ Top(i).kind = "call"
  /\ InScript(i) \/ (Top(i).pc = "refused" /\ way = "failed")
  /\ LET p == Top(i).p
     IN  IF replies[p]
         THEN /\ TopBecomes(i, "locked")
              /\ mState' = [mState EXCEPT ![p] = {way}]
              /\ mResult' = [mResult EXCEPT ![p] = "writing"]
              /\ UNCHANGED <<refs, call>>
         ELSE /\ Popped(i)
              /\ Released(p, 2)
              /\ call' = [call EXCEPT ![p] = "none"]
              /\ UNCHANGED <<mState, mResult>>
  /\ UNCHANGED <<from, to, replies, handlers, held, answer, exited, lost, runs,
                 early, unclaimed>>

\* The result is marshalled, or copied, and the critical section left.
Leave(i) ==
  /\ stack[i] # <<>> /\ Top(i).pc = "locked"
  /\ TopBecomes(i, "unlocked")
  /\ mResult' = [mResult EXCEPT ![Top(i).p] = "ready"]
  /\ UNCHANGED <<refs, from, to, replies, mState, handlers, held, call, answer,
                 exited, lost, runs, early, unclaimed>>

\* PostMessage: the promise's own reference goes with it.
PostAnswer(i) ==
  /\ stack[i] # <<>> /\ Top(i).pc = "unlocked"
  /\ TopBecomes(i, "posted")
  /\ LET p == Top(i).p
     IN  IF from[p] \in exited
         THEN /\ mResult' = [mResult EXCEPT ![p] = "none"]
              /\ Released(p, 1)
              /\ UNCHANGED answer
         ELSE /\ answer' = [answer EXCEPT ![p] = "posted"]
              /\ UNCHANGED <<refs, mResult>>
  /\ UNCHANGED <<from, to, replies, mState, handlers, held, call, exited, lost,
                 runs, early, unclaimed>>

\* The timer that has run once is deleted, and its reference with it.
CallEnds(i) ==
  /\ stack[i] # <<>> /\ Top(i).pc = "posted"
  /\ Released(Top(i).p, 1)
  /\ call' = [call EXCEPT ![Top(i).p] = "none"]
  /\ Popped(i)
  /\ UNCHANGED <<from, to, replies, mState, mResult, handlers, held, answer,
                 exited, lost, runs, early, unclaimed>>

----------------------------------------------------------------------------
\* An idle interpreter exits.  Its timers are deleted and its variables freed; its
\* messages are discarded, and what was sent to it fails.
Exit(i) ==
  LET timers == {p \in Promises : \/ to[p] = i /\ call[p] = "timer"
                                  \/ from[p] = i /\ answer[p] = "timer"}
      messages == {p \in Promises : \/ to[p] = i /\ call[p] = "posted"
                                    \/ from[p] = i /\ answer[p] = "posted"}
      mine == {p \in held : from[p] = i}
      One(p, S) == IF p \in S THEN 1 ELSE 0
  IN  /\ i \in MayExit \ exited
      /\ stack[i] = <<>>
      /\ exited' = exited \cup {i}
      /\ refs' = [p \in Promises |-> refs[p] - One(p, timers) - One(p, mine)]
      /\ held' = held \ mine
      /\ lost' = lost \cup timers \cup messages
      /\ call' = [p \in Promises |->
           IF to[p] = i /\ call[p] = "sent" THEN "refused"
           ELSE IF to[p] = i THEN "none" ELSE call[p]]
      /\ answer' = [p \in Promises |-> IF from[p] = i THEN "none" ELSE answer[p]]
      /\ UNCHANGED <<from, to, replies, mState, mResult, handlers, stack, runs,
                     early, unclaimed>>

----------------------------------------------------------------------------
Straight(i) == Leave(i) \/ PostAnswer(i) \/ CallEnds(i)

Next ==
  \/ \E p \in Promises : \/ AsyncCall(p) \/ PostFunction(p)
                         \/ \E way \in {"done", "failed"} : Then(p, way)
                         \/ Discard(p) \/ TakeCall(p) \/ CallTimer(p)
                         \/ TakeAnswer(p) \/ AnswerTimer(p)
  \/ \E i \in Interpreters : \/ ScriptRuns(i) \/ SendReturns(i) \/ HandlerReturns(i)
                             \/ Straight(i) \/ Exit(i)
                             \/ \E way \in {"done", "failed"} : FunctionEnds(i, way)

\* Functions and handlers return, and an interpreter comes back to its queue and its
\* timers again and again, whatever else it does in between.
Fairness ==
  /\ \A i \in Interpreters :
       /\ WF_vars(Straight(i)) /\ WF_vars(SendReturns(i)) /\ WF_vars(HandlerReturns(i))
       /\ WF_vars(\E way \in {"done", "failed"} : FunctionEnds(i, way))
  /\ \A p \in Promises : WF_vars(TakeCall(p)) /\ SF_vars(TakeAnswer(p))
                         /\ SF_vars(AnswerTimer(p))

Spec == Init /\ [][Next]_vars /\ Fairness

----------------------------------------------------------------------------
(* Properties *)

\* An AsyncCall uses the promise that it is to return, unless the promise is done with.
Uses(frame, p) == frame.p = p /\ (frame.kind = "send" => p \notin unclaimed)
Used(p) ==
  \/ p \in held \/ call[p] # "none" \/ answer[p] # "none"
  \/ \E i \in Interpreters : \E n \in DOMAIN stack[i] : Uses(stack[i][n], p)

\* A promise lives as long as a variable, a message, a timer or an activation refers to
\* it, on whichever thread, and no longer, unless an exit has destroyed the message or
\* the timer that carried its own reference.  The caller that waits in SendMessage is
\* such an activation, but not when script that a message runs there takes the answer:
\* the code lets go of the promise then, and SendMessage's caller adds a reference to
\* what may be freed (section 6 of the README).
ReferencesSound ==
  \A p \in Promises : /\ Used(p) => refs[p] > 0
                      /\ ~Used(p) /\ p \notin lost => refs[p] = 0

\* A handler runs at most once: not when it is set, and again when the answer comes.
\* Not so if it is set while the answer has become a timer (section 6 of the README).
HandlerRunsOnce == \A p \in Promises : runs[p] <= 1 \/ early[p]

\* A handler is given the whole result: it does not start while the other thread is
\* still writing it.
ResultComplete ==
  \A i \in Interpreters : \A n \in DOMAIN stack[i] :
    stack[i][n].kind \in {"answer", "then"} => mResult[stack[i][n].p] = "taken"

\* A handler that fits the outcome runs, whether it was set before or after the call
\* completed, between any two steps of the other thread, and whether or not the other
\* interpreter exits after that (README.md:155 of the repository: "Execute the callback
\* after the asynchronous call completes").
HandlerRuns ==
  \A p \in Promises :
    (mState[p] \cap handlers[p] # {} /\ runs[p] = 0) ~> (runs[p] > 0 \/ from[p] \in exited)
============================================================================
