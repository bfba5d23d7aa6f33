-------------------------- MODULE Promises_proofs --------------------------
(***************************************************************************)
(* A promise lives exactly as long as something refers to it, its handler  *)
(* runs once, and with a result that is complete: proofs for any number of *)
(* interpreters, promises and threads.                                     *)
(*                                                                         *)
(* The argument is an account: what mRefCount is made of, at every point   *)
(* between the call and the end of the handler.                            *)
(***************************************************************************)
EXTENDS Promises, FiniteSetTheorems, SequenceTheorems, TLAPS

Pcs == {"script", "refused", "locked", "unlocked", "posted", "waiting"}
FrameSet == [kind : {"call", "answer", "then", "send"}, p : Promises, pc : Pcs]

Typed ==
  /\ refs \in [Promises -> Int]
  /\ from \in [Promises -> Interpreters] /\ to \in [Promises -> Interpreters]
  /\ replies \in [Promises -> BOOLEAN]
  /\ mState \in [Promises -> SUBSET {"done", "failed", "called"}]
  /\ mResult \in [Promises -> {"none", "writing", "ready", "taken"}]
  /\ handlers \in [Promises -> SUBSET {"done", "failed"}]
  /\ held \subseteq Promises
  /\ call \in [Promises -> {"none", "sent", "posted", "timer", "running", "refused"}]
  /\ answer \in [Promises -> {"none", "posted", "timer", "running"}]
  /\ stack \in [Interpreters -> Seq(FrameSet)]
  /\ exited \subseteq Interpreters /\ lost \subseteq Promises
  /\ unclaimed \subseteq Promises
  /\ runs \in [Promises -> Nat] /\ early \in [Promises -> BOOLEAN]

\* Every activation is on the stack of the interpreter that its promise names for it,
\* and one that is anywhere else than in script code is on top.
InPlace(i, n) ==
  /\ i = IF stack[i][n].kind = "call" THEN to[stack[i][n].p] ELSE from[stack[i][n].p]
  /\ stack[i][n].pc # "script" => n = Len(stack[i])
  /\ stack[i][n].pc = "waiting" => stack[i][n].kind = "send"
  /\ stack[i][n].pc \in {"refused", "locked", "unlocked", "posted"} =>
       stack[i][n].kind = "call"
  /\ stack[i][n].pc \in {"locked", "unlocked", "posted"} => replies[stack[i][n].p]
Placed == \A i \in Interpreters : \A n \in 1 .. Len(stack[i]) : InPlace(i, n)

\* The activations of a promise: of its call, of its answer, of handlers run by Then, of
\* the AsyncCall that is to return it.
On(i, kind, p) ==
  {n \in 1 .. Len(stack[i]) : stack[i][n].kind = kind /\ stack[i][n].p = p}
Calls(p) == On(to[p], "call", p)
Answers(p) == On(from[p], "answer", p)
Thens(p) == On(from[p], "then", p)
Sends(p) == On(from[p], "send", p)

\* How far the call's activation has come.
Stage(p, pcs) == \E n \in Calls(p) : stack[to[p]][n].pc \in pcs

\* The call, and the answer, have one activation while they run.
Framed(p) ==
  /\ call[p] = "running" => \E n \in Int : Calls(p) = {n}
  /\ call[p] # "running" => Calls(p) = {}
  /\ answer[p] = "running" => \E n \in Int : Answers(p) = {n}
  /\ answer[p] # "running" => Answers(p) = {}

\* The call has not been answered.
Unanswered(p) ==
  call[p] \in {"sent", "posted", "timer", "refused"} \/ Stage(p, {"script", "refused"})
Answering(p) == Stage(p, {"locked", "unlocked"})

\* Something has the reference that the promise was created with.
OwnRef(p) == Unanswered(p) \/ Answering(p) \/ answer[p] # "none" \/ p \in lost

\* What is known of the outcome in each phase of the call.
Phased(p) ==
  /\ Unanswered(p) => mState[p] = {} /\ answer[p] = "none" /\ p \notin lost
  /\ Answering(p) => mState[p] # {} /\ answer[p] = "none" /\ p \notin lost
  /\ Stage(p, {"locked"}) => mResult[p] = "writing"
  /\ answer[p] # "none" => mState[p] # {} /\ p \notin lost
  /\ Thens(p) # {} => mState[p] # {}
  /\ mState[p] # {} /\ ~Stage(p, {"locked"}) /\ from[p] \notin exited =>
       mResult[p] \in {"ready", "taken"}
  /\ Answers(p) # {} \/ Thens(p) # {} => mResult[p] = "taken"

\* What an interpreter that has exited leaves.
Left(p) ==
  /\ from[p] \in exited => p \notin held /\ answer[p] = "none"
  /\ to[p] \in exited => call[p] \in {"none", "refused"}
  /\ call[p] = "refused" => to[p] \in exited
Emptied == \A i \in exited : stack[i] = <<>>

\* The script does not know the promise that AsyncCall is to return: nobody can have set
\* a handler.  It is still there, unless its answer has come and gone.
Sending(p) ==
  Sends(p) # {} =>
    /\ \E n \in Int : Sends(p) = {n}
    /\ p \notin held /\ replies[p] /\ handlers[p] = {} /\ "called" \notin mState[p]
    /\ answer[p] # "running"
    /\ OwnRef(p) \/ p \in unclaimed

\* What mRefCount is made of.
HeldRefs(p) == IF p \in held THEN 1 ELSE 0
OwnRefs(p) == IF OwnRef(p) THEN 1 ELSE 0
CallRefs(p) == IF call[p] \in {"timer", "running"} THEN 1 ELSE 0
AnswerRefs(p) == IF answer[p] \in {"timer", "running"} THEN 1 ELSE 0
Account(p) ==
  refs[p] = HeldRefs(p) + OwnRefs(p) + CallRefs(p) + AnswerRefs(p) + Cardinality(Thens(p))

\* How often the handler has run.
Ran(p) ==
  /\ "called" \notin mState[p] => runs[p] = 0
  /\ answer[p] = "timer" => runs[p] = 0 \/ early[p]
  /\ runs[p] <= 1 \/ early[p]

Sound(p) ==
  Framed(p) /\ Phased(p) /\ Left(p) /\ Sending(p) /\ Account(p) /\ Ran(p)

Inv == Typed /\ Placed /\ Emptied /\ \A p \in Promises : Sound(p)

----------------------------------------------------------------------------
(* Activations *)

LEMMA Stacks ==
  ASSUME Typed, NEW i \in Interpreters
  PROVE  /\ stack[i] \in Seq(FrameSet) /\ Len(stack[i]) \in Nat
         /\ \A n \in 1 .. Len(stack[i]) : stack[i][n] \in FrameSet
BY DEF Typed

LEMMA FrameFields ==
  ASSUME NEW f \in FrameSet
  PROVE  f.kind \in {"call", "answer", "then", "send"} /\ f.p \in Promises /\ f.pc \in Pcs
BY DEF FrameSet

\* The activations of a promise are positions on a stack.
LEMMA ThensFinite ==
  ASSUME Typed, NEW p \in Promises
  PROVE  /\ Thens(p) \subseteq Nat /\ Calls(p) \subseteq Nat /\ Answers(p) \subseteq Nat
         /\ Sends(p) \subseteq Nat /\ IsFiniteSet(Thens(p)) /\ Cardinality(Thens(p)) \in Nat
<1>1. from[p] \in Interpreters /\ to[p] \in Interpreters
  BY DEF Typed
<1>2. PICK n \in Nat : n = Len(stack[from[p]])
  BY <1>1, Stacks
<1>3. Thens(p) \subseteq 1 .. n /\ Answers(p) \subseteq 1 .. n /\ Sends(p) \subseteq 1 .. n
  BY <1>2 DEF Thens, Answers, Sends, On
<1>4. Calls(p) \subseteq 1 .. Len(stack[to[p]]) /\ Len(stack[to[p]]) \in Nat
  BY <1>1, Stacks DEF Calls, On
<1>5. IsFiniteSet(1 .. n)
  BY FS_Interval
<1>6. QED
  BY <1>3, <1>4, <1>5, FS_Subset, FS_CardinalityType

\* An activation begins.
LEMMA AfterPush ==
  ASSUME Typed, from' = from, to' = to, NEW i \in Interpreters, NEW f \in FrameSet,
         i = IF f.kind = "call" THEN to[f.p] ELSE from[f.p],
         stack' = [stack EXCEPT ![i] = Append(@, f)]
  PROVE  /\ stack' \in [Interpreters -> Seq(FrameSet)]
         /\ \A j \in Interpreters : j # i => stack'[j] = stack[j]
         /\ stack'[i] = Append(stack[i], f)
         /\ Len(stack'[i]) = Len(stack[i]) + 1 /\ stack'[i][Len(stack[i]) + 1] = f
         /\ \A n \in 1 .. Len(stack[i]) : stack'[i][n] = stack[i][n]
         /\ \A p \in Promises :
              /\ Calls(p)' = IF f.kind = "call" /\ f.p = p
                             THEN Calls(p) \cup {Len(stack[i]) + 1} ELSE Calls(p)
              /\ Answers(p)' = IF f.kind = "answer" /\ f.p = p
                               THEN Answers(p) \cup {Len(stack[i]) + 1} ELSE Answers(p)
              /\ Thens(p)' = IF f.kind = "then" /\ f.p = p
                             THEN Thens(p) \cup {Len(stack[i]) + 1} ELSE Thens(p)
              /\ Sends(p)' = IF f.kind = "send" /\ f.p = p
                             THEN Sends(p) \cup {Len(stack[i]) + 1} ELSE Sends(p)
              /\ Len(stack[i]) + 1 \notin Thens(p) \/ i # from[p]
              /\ \A pcs : Stage(p, pcs)' <=>
                            Stage(p, pcs) \/ (f.kind = "call" /\ f.p = p /\ f.pc \in pcs)
<1>1. /\ stack[i] \in Seq(FrameSet) /\ Len(stack[i]) \in Nat
      /\ stack \in [Interpreters -> Seq(FrameSet)]
      /\ from \in [Promises -> Interpreters] /\ to \in [Promises -> Interpreters]
  BY DEF Typed
<1>2. /\ stack' \in [Interpreters -> Seq(FrameSet)]
      /\ \A j \in Interpreters : j # i => stack'[j] = stack[j]
      /\ stack'[i] = Append(stack[i], f)
      /\ Len(stack'[i]) = Len(stack[i]) + 1 /\ stack'[i][Len(stack[i]) + 1] = f
      /\ \A n \in 1 .. Len(stack[i]) : stack'[i][n] = stack[i][n]
  BY <1>1
<1>3. ASSUME NEW j \in Interpreters, NEW kind, NEW p
      PROVE  On(j, kind, p)' = IF j = i /\ f.kind = kind /\ f.p = p
                               THEN On(j, kind, p) \cup {Len(stack[i]) + 1}
                               ELSE On(j, kind, p)
  <2>1. CASE j # i
    BY <1>2, <2>1 DEF On
  <2>2. CASE j = i
    <3>1. 1 .. Len(stack'[i]) = (1 .. Len(stack[i])) \cup {Len(stack[i]) + 1}
      BY <1>1, <1>2
    <3>2. Len(stack[i]) + 1 \notin 1 .. Len(stack[i])
      BY <1>1
    <3>3. On(i, kind, p)' = {n \in (1 .. Len(stack[i])) \cup {Len(stack[i]) + 1} :
                               stack'[i][n].kind = kind /\ stack'[i][n].p = p}
      BY <3>1 DEF On
    <3>4. /\ \A n \in 1 .. Len(stack[i]) : stack'[i][n] = stack[i][n]
          /\ stack'[i][Len(stack[i]) + 1] = f
      BY <1>2
    <3>5. CASE f.kind = kind /\ f.p = p
      BY <2>2, <3>3, <3>4, <3>5 DEF On
    <3>6. CASE ~(f.kind = kind /\ f.p = p)
      BY <2>2, <3>3, <3>4, <3>6 DEF On
    <3>7. QED
      BY <2>2, <3>5, <3>6
  <2>3. QED
    BY <2>1, <2>2
<1>4. ASSUME NEW p \in Promises
      PROVE  /\ Calls(p)' = IF f.kind = "call" /\ f.p = p
                            THEN Calls(p) \cup {Len(stack[i]) + 1} ELSE Calls(p)
             /\ Answers(p)' = IF f.kind = "answer" /\ f.p = p
                              THEN Answers(p) \cup {Len(stack[i]) + 1} ELSE Answers(p)
             /\ Thens(p)' = IF f.kind = "then" /\ f.p = p
                            THEN Thens(p) \cup {Len(stack[i]) + 1} ELSE Thens(p)
             /\ Sends(p)' = IF f.kind = "send" /\ f.p = p
                            THEN Sends(p) \cup {Len(stack[i]) + 1} ELSE Sends(p)
             /\ Len(stack[i]) + 1 \notin Thens(p) \/ i # from[p]
             /\ \A pcs : Stage(p, pcs)' <=>
                           Stage(p, pcs) \/ (f.kind = "call" /\ f.p = p /\ f.pc \in pcs)
  <2>1. PICK a \in Interpreters, b \in Interpreters : a = from[p] /\ b = to[p]
    BY <1>1
  <2>2. /\ Calls(p)' = On(b, "call", p)' /\ Calls(p) = On(b, "call", p)
        /\ Answers(p)' = On(a, "answer", p)' /\ Answers(p) = On(a, "answer", p)
        /\ Thens(p)' = On(a, "then", p)' /\ Thens(p) = On(a, "then", p)
        /\ Sends(p)' = On(a, "send", p)' /\ Sends(p) = On(a, "send", p)
    BY <2>1 DEF Calls, Answers, Thens, Sends, On
  <2>3. /\ Calls(p)' = IF f.kind = "call" /\ f.p = p
                       THEN Calls(p) \cup {Len(stack[i]) + 1} ELSE Calls(p)
        /\ Answers(p)' = IF f.kind = "answer" /\ f.p = p
                         THEN Answers(p) \cup {Len(stack[i]) + 1} ELSE Answers(p)
        /\ Thens(p)' = IF f.kind = "then" /\ f.p = p
                       THEN Thens(p) \cup {Len(stack[i]) + 1} ELSE Thens(p)
        /\ Sends(p)' = IF f.kind = "send" /\ f.p = p
                       THEN Sends(p) \cup {Len(stack[i]) + 1} ELSE Sends(p)
    <3>1. /\ f.kind = "call" /\ f.p = p => b = i
          /\ f.kind \in {"answer", "then", "send"} /\ f.p = p => a = i
      BY <2>1
    <3>2. On(b, "call", p)' = IF b = i /\ f.kind = "call" /\ f.p = p
                              THEN On(b, "call", p) \cup {Len(stack[i]) + 1}
                              ELSE On(b, "call", p)
      BY <1>3
    <3>3. On(a, "answer", p)' = IF a = i /\ f.kind = "answer" /\ f.p = p
                                THEN On(a, "answer", p) \cup {Len(stack[i]) + 1}
                                ELSE On(a, "answer", p)
      BY <1>3
    <3>4. On(a, "then", p)' = IF a = i /\ f.kind = "then" /\ f.p = p
                              THEN On(a, "then", p) \cup {Len(stack[i]) + 1}
                              ELSE On(a, "then", p)
      BY <1>3
    <3>5. On(a, "send", p)' = IF a = i /\ f.kind = "send" /\ f.p = p
                              THEN On(a, "send", p) \cup {Len(stack[i]) + 1}
                              ELSE On(a, "send", p)
      BY <1>3
    <3>6. QED
      BY <2>2, <3>1, <3>2, <3>3, <3>4, <3>5
  <2>4. Len(stack[i]) + 1 \notin Thens(p) \/ i # from[p]
    <3>1. On(i, "then", p) \subseteq 1 .. Len(stack[i])
      BY DEF On
    <3>2. i = from[p] => Thens(p) = On(i, "then", p)
      BY <2>1, <2>2
    <3>3. Len(stack[i]) \in Nat
      BY <1>1
    <3>4. QED
      BY ONLY <3>1, <3>2, <3>3
  <2>5. ASSUME NEW pcs
        PROVE  Stage(p, pcs)' <=>
                 Stage(p, pcs) \/ (f.kind = "call" /\ f.p = p /\ f.pc \in pcs)
    <3>1. \A n \in Calls(p) : stack'[b][n] = stack[b][n]
      <4>1. Calls(p) \subseteq 1 .. Len(stack[b])
        BY <2>2 DEF On
      <4>2. CASE b = i
        BY <1>2, <4>1, <4>2
      <4>3. CASE b # i
        BY <1>2, <4>1, <4>3
      <4>4. QED
        BY <4>2, <4>3
    <3>2. Stage(p, pcs)' <=> \E n \in Calls(p)' : stack'[b][n].pc \in pcs
      BY <2>1 DEF Stage
    <3>3. Stage(p, pcs) <=> \E n \in Calls(p) : stack[b][n].pc \in pcs
      BY <2>1 DEF Stage
    <3>4. CASE f.kind = "call" /\ f.p = p
      <4>1. b = i
        BY <2>1, <3>4
      <4>2. stack'[b][Len(stack[i]) + 1] = f
        BY <1>2, <4>1
      <4>3. QED
        BY <2>3, <3>1, <3>2, <3>3, <3>4, <4>2
    <3>5. CASE ~(f.kind = "call" /\ f.p = p)
      BY <2>3, <3>1, <3>2, <3>3, <3>5
    <3>6. QED
      BY <3>4, <3>5
  <2>6. QED
    BY <2>3, <2>4, <2>5
<1>5. QED
  BY <1>2, <1>4

\* An activation ends.
LEMMA AfterPop ==
  ASSUME Typed, Placed, from' = from, to' = to, NEW i \in Interpreters,
         stack[i] # <<>>, Popped(i), NEW f, f = Top(i)
  PROVE  /\ stack' \in [Interpreters -> Seq(FrameSet)]
         /\ \A j \in Interpreters : j # i => stack'[j] = stack[j]
         /\ f \in FrameSet /\ i = IF f.kind = "call" THEN to[f.p] ELSE from[f.p]
         /\ Len(stack'[i]) = Len(stack[i]) - 1
         /\ \A n \in 1 .. Len(stack'[i]) : n \in 1 .. Len(stack[i]) /\ stack'[i][n] = stack[i][n]
         /\ \A p \in Promises :
              /\ IF f.kind = "call" /\ f.p = p
                 THEN Len(stack[i]) \in Calls(p) /\ Calls(p)' = Calls(p) \ {Len(stack[i])}
                 ELSE Calls(p)' = Calls(p) /\ \A pcs : Stage(p, pcs)' <=> Stage(p, pcs)
              /\ IF f.kind = "answer" /\ f.p = p
                 THEN /\ Len(stack[i]) \in Answers(p)
                      /\ Answers(p)' = Answers(p) \ {Len(stack[i])}
                 ELSE Answers(p)' = Answers(p)
              /\ IF f.kind = "then" /\ f.p = p
                 THEN /\ Len(stack[i]) \in Thens(p)
                      /\ Thens(p)' = Thens(p) \ {Len(stack[i])}
                 ELSE Thens(p)' = Thens(p)
              /\ IF f.kind = "send" /\ f.p = p
                 THEN /\ Len(stack[i]) \in Sends(p)
                      /\ Sends(p)' = Sends(p) \ {Len(stack[i])}
                 ELSE Sends(p)' = Sends(p)
<1>1. /\ stack[i] \in Seq(FrameSet) /\ Len(stack[i]) \in Nat
      /\ stack \in [Interpreters -> Seq(FrameSet)]
      /\ from \in [Promises -> Interpreters] /\ to \in [Promises -> Interpreters]
  BY DEF Typed
<1>2. Len(stack[i]) >= 1
  BY <1>1
<1>3. f = stack[i][Len(stack[i])] /\ f \in FrameSet
  BY <1>1, <1>2 DEF Top, Last
<1>4. i = IF f.kind = "call" THEN to[f.p] ELSE from[f.p]
  BY <1>1, <1>2, <1>3 DEF Placed, InPlace
<1>5. stack'[i] = SubSeq(stack[i], 1, Len(stack[i]) - 1)
  BY <1>1 DEF Popped, Front
<1>6. /\ SubSeq(stack[i], 1, Len(stack[i]) - 1) \in Seq(FrameSet)
      /\ Len(SubSeq(stack[i], 1, Len(stack[i]) - 1)) = Len(stack[i]) - 1
      /\ \A n \in 1 .. Len(stack[i]) - 1 :
           SubSeq(stack[i], 1, Len(stack[i]) - 1)[n] = stack[i][n]
  <2>0. Len(stack[i]) - 1 \in Nat
    BY <1>1, <1>2
  <2>1. PICK s \in Seq(FrameSet), m \in Nat : s = stack[i] /\ m = Len(stack[i]) - 1
    BY <1>1, <2>0
  <2>2. \A n \in 1 .. m : n \in 1 .. Len(s)
    BY <2>1, <1>1
  <2>3. SubSeq(s, 1, m) \in Seq(FrameSet) /\ Len(SubSeq(s, 1, m)) = m
    BY <2>2, SubSeqProperties
  <2>4. \A n \in 1 .. m : SubSeq(s, 1, m)[n] = s[n]
    BY <2>2, SubSeqProperties
  <2>5. QED
    BY <2>1, <2>3, <2>4
<1>7. /\ stack' \in [Interpreters -> Seq(FrameSet)]
      /\ \A j \in Interpreters : j # i => stack'[j] = stack[j]
      /\ Len(stack'[i]) = Len(stack[i]) - 1
      /\ \A n \in 1 .. Len(stack'[i]) : n \in 1 .. Len(stack[i]) /\ stack'[i][n] = stack[i][n]
  <2>1. stack' = [stack EXCEPT ![i] = SubSeq(stack[i], 1, Len(stack[i]) - 1)]
    BY <1>1 DEF Popped, Front
  <2>2. \A n \in 1 .. Len(stack[i]) - 1 : n \in 1 .. Len(stack[i])
    BY <1>1
  <2>3. QED
    BY <1>1, <1>5, <1>6, <2>1, <2>2
<1>8. ASSUME NEW j \in Interpreters, NEW kind, NEW p
      PROVE  IF j = i /\ f.kind = kind /\ f.p = p
             THEN /\ Len(stack[i]) \in On(j, kind, p)
                  /\ On(j, kind, p)' = On(j, kind, p) \ {Len(stack[i])}
             ELSE On(j, kind, p)' = On(j, kind, p)
  <2>1. CASE j # i
    BY <1>7, <2>1 DEF On
  <2>2. CASE j = i
    <3>1. 1 .. Len(stack'[i]) = (1 .. Len(stack[i])) \ {Len(stack[i])}
      BY <1>1, <1>2, <1>7
    <3>2. Len(stack[i]) \in 1 .. Len(stack[i])
      BY <1>1, <1>2
    <3>3. \A n \in 1 .. Len(stack'[i]) : stack'[i][n] = stack[i][n]
      BY <1>7
    <3>4. On(i, kind, p)' = {n \in (1 .. Len(stack[i])) \ {Len(stack[i])} :
                               stack[i][n].kind = kind /\ stack[i][n].p = p}
      BY <3>1, <3>3 DEF On
    <3>5. On(i, kind, p)' = On(i, kind, p) \ {Len(stack[i])}
      BY <3>4 DEF On
    <3>6. Len(stack[i]) \in On(i, kind, p) <=> f.kind = kind /\ f.p = p
      BY <1>3, <3>2 DEF On
    <3>7. QED
      BY <2>2, <3>5, <3>6
  <2>3. QED
    BY <2>1, <2>2
<1>9. ASSUME NEW p \in Promises
      PROVE  /\ IF f.kind = "call" /\ f.p = p
                THEN Len(stack[i]) \in Calls(p) /\ Calls(p)' = Calls(p) \ {Len(stack[i])}
                ELSE Calls(p)' = Calls(p) /\ \A pcs : Stage(p, pcs)' <=> Stage(p, pcs)
             /\ IF f.kind = "answer" /\ f.p = p
                THEN /\ Len(stack[i]) \in Answers(p)
                     /\ Answers(p)' = Answers(p) \ {Len(stack[i])}
                ELSE Answers(p)' = Answers(p)
             /\ IF f.kind = "then" /\ f.p = p
                THEN /\ Len(stack[i]) \in Thens(p)
                     /\ Thens(p)' = Thens(p) \ {Len(stack[i])}
                ELSE Thens(p)' = Thens(p)
             /\ IF f.kind = "send" /\ f.p = p
                THEN /\ Len(stack[i]) \in Sends(p)
                     /\ Sends(p)' = Sends(p) \ {Len(stack[i])}
                ELSE Sends(p)' = Sends(p)
  <2>1. PICK a \in Interpreters, b \in Interpreters : a = from[p] /\ b = to[p]
    BY <1>1
  <2>2. /\ Calls(p)' = On(b, "call", p)' /\ Calls(p) = On(b, "call", p)
        /\ Answers(p)' = On(a, "answer", p)' /\ Answers(p) = On(a, "answer", p)
        /\ Thens(p)' = On(a, "then", p)' /\ Thens(p) = On(a, "then", p)
        /\ Sends(p)' = On(a, "send", p)' /\ Sends(p) = On(a, "send", p)
    BY <2>1 DEF Calls, Answers, Thens, Sends, On
  <2>3. /\ f.kind = "call" /\ f.p = p => b = i
        /\ f.kind \in {"answer", "then", "send"} /\ f.p = p => a = i
    BY <1>4, <2>1
  <2>4. IF f.kind = "call" /\ f.p = p
        THEN Len(stack[i]) \in Calls(p) /\ Calls(p)' = Calls(p) \ {Len(stack[i])}
        ELSE Calls(p)' = Calls(p)
    <3>1. IF b = i /\ f.kind = "call" /\ f.p = p
          THEN /\ Len(stack[i]) \in On(b, "call", p)
               /\ On(b, "call", p)' = On(b, "call", p) \ {Len(stack[i])}
          ELSE On(b, "call", p)' = On(b, "call", p)
      BY <1>8
    <3>2. QED
      BY <2>2, <2>3, <3>1
  <2>5. IF f.kind = "answer" /\ f.p = p
        THEN Len(stack[i]) \in Answers(p) /\ Answers(p)' = Answers(p) \ {Len(stack[i])}
        ELSE Answers(p)' = Answers(p)
    <3>1. IF a = i /\ f.kind = "answer" /\ f.p = p
          THEN /\ Len(stack[i]) \in On(a, "answer", p)
               /\ On(a, "answer", p)' = On(a, "answer", p) \ {Len(stack[i])}
          ELSE On(a, "answer", p)' = On(a, "answer", p)
      BY <1>8
    <3>2. QED
      BY <2>2, <2>3, <3>1
  <2>6. IF f.kind = "then" /\ f.p = p
        THEN Len(stack[i]) \in Thens(p) /\ Thens(p)' = Thens(p) \ {Len(stack[i])}
        ELSE Thens(p)' = Thens(p)
    <3>1. IF a = i /\ f.kind = "then" /\ f.p = p
          THEN /\ Len(stack[i]) \in On(a, "then", p)
               /\ On(a, "then", p)' = On(a, "then", p) \ {Len(stack[i])}
          ELSE On(a, "then", p)' = On(a, "then", p)
      BY <1>8
    <3>2. QED
      BY <2>2, <2>3, <3>1
  <2>7. IF f.kind = "send" /\ f.p = p
        THEN Len(stack[i]) \in Sends(p) /\ Sends(p)' = Sends(p) \ {Len(stack[i])}
        ELSE Sends(p)' = Sends(p)
    <3>1. IF a = i /\ f.kind = "send" /\ f.p = p
          THEN /\ Len(stack[i]) \in On(a, "send", p)
               /\ On(a, "send", p)' = On(a, "send", p) \ {Len(stack[i])}
          ELSE On(a, "send", p)' = On(a, "send", p)
      BY <1>8
    <3>2. QED
      BY <2>2, <2>3, <3>1
  <2>8. ~(f.kind = "call" /\ f.p = p) => \A pcs : Stage(p, pcs)' <=> Stage(p, pcs)
    <3>1. SUFFICES ASSUME ~(f.kind = "call" /\ f.p = p), NEW pcs
                   PROVE  Stage(p, pcs)' <=> Stage(p, pcs)
      OBVIOUS
    <3>2. Calls(p)' = Calls(p) /\ Calls(p)' \subseteq 1 .. Len(stack'[b])
      BY <2>1, <2>4, <3>1 DEF Calls, On
    <3>3. \A n \in Calls(p) : stack'[b][n] = stack[b][n]
      <4>1. CASE b = i
        BY <1>7, <3>2, <4>1
      <4>2. CASE b # i
        BY <1>7, <4>2
      <4>3. QED
        BY <4>1, <4>2
    <3>4. QED
      BY <2>1, <3>2, <3>3 DEF Stage
  <2>9. QED
    BY <2>4, <2>5, <2>6, <2>7, <2>8
<1>10. QED
  BY <1>3, <1>4, <1>7, <1>9

\* The activation on top comes one step further.
LEMMA AfterTop ==
  ASSUME Typed, Placed, from' = from, to' = to, NEW i \in Interpreters,
         stack[i] # <<>>, NEW pc \in Pcs,
         TopBecomes(i, pc), NEW f, f = Top(i)
  PROVE  /\ stack' \in [Interpreters -> Seq(FrameSet)]
         /\ \A j \in Interpreters : j # i => stack'[j] = stack[j]
         /\ f \in FrameSet /\ i = IF f.kind = "call" THEN to[f.p] ELSE from[f.p]
         /\ Len(stack[i]) \in Nat /\ Len(stack'[i]) = Len(stack[i])
         /\ \A n \in 1 .. Len(stack[i]) :
              /\ stack'[i][n].kind = stack[i][n].kind /\ stack'[i][n].p = stack[i][n].p
              /\ n # Len(stack[i]) => stack'[i][n] = stack[i][n]
              /\ n = Len(stack[i]) => stack'[i][n].pc = pc /\ stack[i][n] = f
         /\ \A p \in Promises :
              /\ Calls(p)' = Calls(p) /\ Answers(p)' = Answers(p) /\ Thens(p)' = Thens(p)
              /\ Sends(p)' = Sends(p)
              /\ f.p # p \/ f.kind # "call" => \A pcs : Stage(p, pcs)' <=> Stage(p, pcs)
<1>1. /\ stack[i] \in Seq(FrameSet) /\ Len(stack[i]) \in Nat
      /\ stack \in [Interpreters -> Seq(FrameSet)]
      /\ from \in [Promises -> Interpreters] /\ to \in [Promises -> Interpreters]
  BY DEF Typed
<1>2. Len(stack[i]) \in 1 .. Len(stack[i])
  BY <1>1
<1>3. f = stack[i][Len(stack[i])] /\ f \in FrameSet
  BY <1>1, <1>2 DEF Top, Last
<1>4. i = IF f.kind = "call" THEN to[f.p] ELSE from[f.p]
  BY <1>1, <1>2, <1>3 DEF Placed, InPlace
<1>5. PICK g : g = [f EXCEPT !.pc = pc]
  OBVIOUS
<1>6. g \in FrameSet /\ g.kind = f.kind /\ g.p = f.p /\ g.pc = pc
  BY <1>3, <1>5 DEF FrameSet
<1>7. stack' = [stack EXCEPT ![i] = [stack[i] EXCEPT ![Len(stack[i])] = g]]
  BY <1>1, <1>2, <1>3, <1>5 DEF TopBecomes
<1>8. /\ stack' \in [Interpreters -> Seq(FrameSet)]
      /\ \A j \in Interpreters : j # i => stack'[j] = stack[j]
      /\ Len(stack'[i]) = Len(stack[i])
      /\ \A n \in 1 .. Len(stack[i]) : stack'[i][n] = IF n = Len(stack[i]) THEN g ELSE stack[i][n]
  BY <1>1, <1>2, <1>6, <1>7
<1>9. \A n \in 1 .. Len(stack[i]) :
        /\ stack'[i][n].kind = stack[i][n].kind /\ stack'[i][n].p = stack[i][n].p
        /\ n # Len(stack[i]) => stack'[i][n] = stack[i][n]
        /\ n = Len(stack[i]) => stack'[i][n].pc = pc /\ stack[i][n] = f
  BY <1>3, <1>6, <1>8
<1>10. ASSUME NEW j \in Interpreters, NEW kind, NEW p
       PROVE  On(j, kind, p)' = On(j, kind, p)
  <2>1. CASE j # i
    BY <1>8, <2>1 DEF On
  <2>2. CASE j = i
    BY <1>8, <1>9, <2>2 DEF On
  <2>3. QED
    BY <2>1, <2>2
<1>11. ASSUME NEW p \in Promises
       PROVE  /\ Calls(p)' = Calls(p) /\ Answers(p)' = Answers(p) /\ Thens(p)' = Thens(p)
              /\ Sends(p)' = Sends(p)
              /\ f.p # p \/ f.kind # "call" => \A pcs : Stage(p, pcs)' <=> Stage(p, pcs)
  <2>1. PICK a \in Interpreters, b \in Interpreters : a = from[p] /\ b = to[p]
    BY <1>1
  <2>2. /\ Calls(p)' = On(b, "call", p)' /\ Calls(p) = On(b, "call", p)
        /\ Answers(p)' = On(a, "answer", p)' /\ Answers(p) = On(a, "answer", p)
        /\ Thens(p)' = On(a, "then", p)' /\ Thens(p) = On(a, "then", p)
        /\ Sends(p)' = On(a, "send", p)' /\ Sends(p) = On(a, "send", p)
    BY <2>1 DEF Calls, Answers, Thens, Sends, On
  <2>3. /\ Calls(p)' = Calls(p) /\ Answers(p)' = Answers(p) /\ Thens(p)' = Thens(p)
        /\ Sends(p)' = Sends(p)
    BY <1>10, <2>2
  <2>4. Calls(p) = {n \in 1 .. Len(stack[b]) : stack[b][n].kind = "call" /\ stack[b][n].p = p}
    BY <2>2 DEF On
  <2>5. \A pcs : /\ Stage(p, pcs) <=> \E n \in Calls(p) : stack[b][n].pc \in pcs
                 /\ Stage(p, pcs)' <=> \E n \in Calls(p) : stack'[b][n].pc \in pcs
    BY <2>1, <2>3 DEF Stage
  <2>6. ASSUME f.p # p \/ f.kind # "call"
        PROVE  \A pcs : Stage(p, pcs)' <=> Stage(p, pcs)
    <3>1. \A n \in Calls(p) : stack'[b][n] = stack[b][n]
      <4>1. CASE b = i
        BY <1>3, <1>9, <2>4, <2>6, <4>1
      <4>2. CASE b # i
        BY <1>8, <4>2
      <4>3. QED
        BY <4>1, <4>2
    <3>2. QED
      BY <2>5, <3>1
  <2>7. QED
    BY <2>3, <2>6
<1>12. QED
  BY <1>1, <1>3, <1>4, <1>8, <1>9, <1>11

\* No activation begins, ends or comes further.
LEMMA StackKept ==
  ASSUME stack' = stack, from' = from, to' = to
  PROVE  \A p \in Promises :
           /\ Calls(p)' = Calls(p) /\ Answers(p)' = Answers(p) /\ Thens(p)' = Thens(p)
           /\ Sends(p)' = Sends(p)
           /\ \A pcs : Stage(p, pcs)' <=> Stage(p, pcs)
BY DEF Calls, Answers, Thens, Sends, On, Stage

\* How far the call has come, by the activation that it has.
LEMMA OneStage ==
  ASSUME Typed, NEW p \in Promises, Framed(p)
  PROVE  /\ call[p] # "running" => \A pcs : ~Stage(p, pcs)
         /\ call[p] = "running" =>
              \E pc \in Pcs :
                \A pcs : Stage(p, pcs) <=> pc \in pcs
<1>1. CASE call[p] # "running"
  BY <1>1 DEF Framed, Stage
<1>2. CASE call[p] = "running"
  <2>1. PICK n \in Int : Calls(p) = {n}
    BY <1>2 DEF Framed
  <2>2. to[p] \in Interpreters
    BY DEF Typed
  <2>3. n \in 1 .. Len(stack[to[p]])
    BY <2>1 DEF Calls, On
  <2>4. stack[to[p]][n].pc \in Pcs
    BY <2>2, <2>3, Stacks, FrameFields
  <2>5. \A pcs : Stage(p, pcs) <=> stack[to[p]][n].pc \in pcs
    BY <2>1 DEF Stage
  <2>6. QED
    BY <1>2, <2>4, <2>5
<1>3. QED
  BY <1>1, <1>2

\* The activation on top, if it is a call's, tells how far its promise is.
LEMMA TopStage ==
  ASSUME Typed, Placed, NEW i \in Interpreters, stack[i] # <<>>, Top(i).kind = "call",
         NEW p, p = Top(i).p, Framed(p)
  PROVE  /\ p \in Promises /\ i = to[p] /\ call[p] = "running"
         /\ Calls(p) = {Len(stack[i])}
         /\ \A pcs : Stage(p, pcs) <=> Top(i).pc \in pcs
         /\ Top(i).pc \in {"locked", "unlocked", "posted"} => replies[p]
<1>1. stack[i] \in Seq(FrameSet) /\ Len(stack[i]) \in 1 .. Len(stack[i])
  BY Stacks
<1>2. Top(i) = stack[i][Len(stack[i])] /\ Top(i) \in FrameSet
  BY <1>1 DEF Top, Last
<1>3. p \in Promises /\ i = to[p]
  BY <1>1, <1>2, FrameFields DEF Placed, InPlace
<1>4. Len(stack[i]) \in Calls(p)
  BY <1>1, <1>2, <1>3 DEF Calls, On
<1>5. call[p] = "running" /\ Calls(p) = {Len(stack[i])}
  BY <1>4 DEF Framed
<1>6. \A pcs : Stage(p, pcs) <=> Top(i).pc \in pcs
  BY <1>2, <1>3, <1>5 DEF Stage
<1>7. Top(i).pc \in {"locked", "unlocked", "posted"} => replies[p]
  BY <1>1, <1>2 DEF Placed, InPlace
<1>8. QED
  BY <1>3, <1>5, <1>6, <1>7

\* A step of the activation on top, for the promise that it is of and for the others.
LEMMA TopMoves ==
  ASSUME Typed, Placed, from' = from, to' = to, NEW i \in Interpreters,
         stack[i] # <<>>, Top(i).kind = "call", NEW p, p = Top(i).p, Framed(p),
         NEW pc \in Pcs,
         TopBecomes(i, pc)
  PROVE  /\ stack' \in [Interpreters -> Seq(FrameSet)]
         /\ \A j \in Interpreters : j # i => stack'[j] = stack[j]
         /\ \A pcs : Stage(p, pcs)' <=> pc \in pcs
         /\ \A q \in Promises :
              /\ Calls(q)' = Calls(q) /\ Answers(q)' = Answers(q) /\ Thens(q)' = Thens(q)
              /\ Sends(q)' = Sends(q)
              /\ q # p => \A pcs : Stage(q, pcs)' <=> Stage(q, pcs)
<1>1. PICK f : f = Top(i)
  OBVIOUS
<1>2. /\ stack' \in [Interpreters -> Seq(FrameSet)]
      /\ \A j \in Interpreters : j # i => stack'[j] = stack[j]
  BY <1>1, AfterTop
<1>3. ASSUME NEW q \in Promises
      PROVE  /\ Calls(q)' = Calls(q) /\ Answers(q)' = Answers(q) /\ Thens(q)' = Thens(q)
             /\ Sends(q)' = Sends(q)
             /\ f.p # q => \A pcs : Stage(q, pcs)' <=> Stage(q, pcs)
  BY <1>1, AfterTop
<1>4. p \in Promises /\ i = to[p] /\ Calls(p) = {Len(stack[i])}
  BY TopStage
<1>5. stack'[i][Len(stack[i])].pc = pc
  <2>1. Len(stack[i]) \in 1 .. Len(stack[i])
    BY Stacks
  <2>2. \A n \in 1 .. Len(stack[i]) : n = Len(stack[i]) => stack'[i][n].pc = pc
    BY <1>1, AfterTop
  <2>3. QED
    BY <2>1, <2>2
<1>6. \A pcs : Stage(p, pcs)' <=> pc \in pcs
  <2>1. Calls(p)' = {Len(stack[i])} /\ to'[p] = i
    BY <1>3, <1>4
  <2>2. QED
    BY <1>5, <2>1 DEF Stage
<1>7. QED
  BY <1>1, <1>2, <1>3, <1>6

\* The terms of the account.
LEMMA Terms ==
  ASSUME NEW p \in Promises
  PROVE  /\ HeldRefs(p) \in {0, 1} /\ (HeldRefs(p) = 1 <=> p \in held)
         /\ OwnRefs(p) \in {0, 1} /\ (OwnRefs(p) = 1 <=> OwnRef(p))
         /\ CallRefs(p) \in {0, 1} /\ (CallRefs(p) = 1 <=> call[p] \in {"timer", "running"})
         /\ AnswerRefs(p) \in {0, 1}
         /\ AnswerRefs(p) = 1 <=> answer[p] \in {"timer", "running"}
         /\ HeldRefs(p)' \in {0, 1} /\ (HeldRefs(p)' = 1 <=> p \in held')
         /\ OwnRefs(p)' \in {0, 1} /\ (OwnRefs(p)' = 1 <=> OwnRef(p)')
         /\ CallRefs(p)' \in {0, 1} /\ (CallRefs(p)' = 1 <=> call'[p] \in {"timer", "running"})
         /\ AnswerRefs(p)' \in {0, 1}
         /\ AnswerRefs(p)' = 1 <=> answer'[p] \in {"timer", "running"}
BY DEF HeldRefs, OwnRefs, CallRefs, AnswerRefs

LEMMA Accounted ==
  ASSUME Typed, NEW p \in Promises, Sound(p)
  PROVE  /\ refs[p] = HeldRefs(p) + OwnRefs(p) + CallRefs(p) + AnswerRefs(p)
                     + Cardinality(Thens(p))
         /\ refs[p] \in Int /\ Cardinality(Thens(p)) \in Nat
BY ThensFinite DEF Typed, Sound, Account

\* Nothing refers to a promise without references.
LEMMA Deleted ==
  ASSUME Typed, NEW p \in Promises, Sound(p), refs[p] = 0
  PROVE  /\ p \notin held /\ p \notin lost /\ ~OwnRef(p)
         /\ call[p] = "none" /\ answer[p] = "none"
         /\ Calls(p) = {} /\ Answers(p) = {} /\ Thens(p) = {}
         /\ Sends(p) = {} \/ p \in unclaimed
<1>1. refs[p] = HeldRefs(p) + OwnRefs(p) + CallRefs(p) + AnswerRefs(p) + Cardinality(Thens(p))
  BY DEF Sound, Account
<1>2. /\ HeldRefs(p) = 0 /\ OwnRefs(p) = 0 /\ CallRefs(p) = 0 /\ AnswerRefs(p) = 0
      /\ Cardinality(Thens(p)) = 0
  BY <1>1, Terms, ThensFinite
<1>3. p \notin held /\ ~OwnRef(p) /\ call[p] \notin {"timer", "running"}
  BY <1>2, Terms
<1>4. p \notin lost /\ call[p] = "none" /\ answer[p] = "none"
  BY <1>3 DEF OwnRef, Unanswered, Typed
<1>5. Thens(p) = {}
  BY <1>2, ThensFinite, FS_EmptySet
<1>6. Calls(p) = {} /\ Answers(p) = {}
  BY <1>4 DEF Sound, Framed
<1>7. QED
  BY <1>3, <1>4, <1>5, <1>6 DEF Sound, Sending

\* A step that leaves a promise as it was.
Same(p) ==
  /\ from' = from /\ to' = to /\ exited' = exited
  /\ refs'[p] = refs[p] /\ replies'[p] = replies[p] /\ mState'[p] = mState[p]
  /\ mResult'[p] = mResult[p] /\ call'[p] = call[p] /\ answer'[p] = answer[p]
  /\ runs'[p] = runs[p] /\ early'[p] = early[p]
  /\ (p \in held' <=> p \in held) /\ (p \in lost' <=> p \in lost)
  /\ handlers'[p] = handlers[p] \/ p \in held
  /\ (p \in unclaimed' <=> p \in unclaimed)
  /\ Calls(p)' = Calls(p) /\ Answers(p)' = Answers(p) /\ Thens(p)' = Thens(p)
  /\ Sends(p)' = Sends(p)
  /\ \A pcs : Stage(p, pcs)' <=> Stage(p, pcs)

LEMMA Untouched ==
  ASSUME NEW p \in Promises, Sound(p), Same(p)
  PROVE  Sound(p)'
<1>1. (Unanswered(p)' <=> Unanswered(p)) /\ (Answering(p)' <=> Answering(p))
  BY DEF Same, Unanswered, Answering
<1>2. OwnRef(p)' <=> OwnRef(p)
  BY <1>1 DEF Same, OwnRef
<1>3. /\ HeldRefs(p)' = HeldRefs(p) /\ OwnRefs(p)' = OwnRefs(p)
      /\ CallRefs(p)' = CallRefs(p) /\ AnswerRefs(p)' = AnswerRefs(p)
  BY <1>2 DEF Same, HeldRefs, OwnRefs, CallRefs, AnswerRefs
<1>4. Framed(p)' /\ Left(p)' /\ Ran(p)'
  BY DEF Sound, Same, Framed, Left, Ran
<1>5. Phased(p)'
  BY <1>1 DEF Sound, Same, Phased
<1>6. Sending(p)'
  <2>1. Sends(p)' = Sends(p) /\ (OwnRef(p)' \/ p \in unclaimed' <=> OwnRef(p) \/ p \in unclaimed)
    BY <1>2 DEF Same
  <2>2. CASE Sends(p) = {}
    BY <2>1, <2>2 DEF Sending
  <2>3. CASE Sends(p) # {}
    <3>1. p \notin held
      BY <2>3 DEF Sound, Sending
    <3>2. QED
      BY <2>1, <2>3, <3>1 DEF Sound, Same, Sending
  <2>4. QED
    BY <2>2, <2>3
<1>7. Account(p)'
  BY <1>3 DEF Sound, Same, Account
<1>8. QED
  BY <1>4, <1>5, <1>6, <1>7 DEF Sound

----------------------------------------------------------------------------
(* The caller's steps *)

\* Whether a call is to be answered does not change while it has an activation.
LEMMA RepliesKept ==
  ASSUME Typed, Placed, NEW i \in Interpreters, NEW n \in 1 .. Len(stack[i]),
         \A q \in Promises : Calls(q) # {} => replies'[q] = replies[q]
  PROVE  stack[i][n].pc \in {"locked", "unlocked", "posted"} => replies'[stack[i][n].p]
<1> SUFFICES ASSUME stack[i][n].pc \in {"locked", "unlocked", "posted"}
             PROVE  replies'[stack[i][n].p]
  OBVIOUS
<1>1. PICK f \in FrameSet : f = stack[i][n]
  BY Stacks
<1>2. f.kind = "call" /\ f.p \in Promises /\ i = to[f.p] /\ replies[f.p]
  BY <1>1, FrameFields DEF Placed, InPlace
<1>3. n \in Calls(f.p)
  BY <1>1, <1>2 DEF Calls, On
<1>4. QED
  BY <1>1, <1>2, <1>3

\* Where the stacks and the kind of a promise with activations stay, so does Placed.
LEMMA PlacedKept ==
  ASSUME Typed, Placed, stack' = stack, from' = from, to' = to,
         \A q \in Promises : Calls(q) # {} => replies'[q] = replies[q]
  PROVE  Placed'
<1>1. ASSUME NEW i \in Interpreters, NEW n \in 1 .. Len(stack[i])
      PROVE  InPlace(i, n)'
  <2>1. InPlace(i, n)
    BY DEF Placed
  <2>2. stack[i][n].pc \in {"locked", "unlocked", "posted"} => replies'[stack[i][n].p]
    BY RepliesKept
  <2>3. QED
    BY <2>1, <2>2 DEF InPlace
<1>2. QED
  BY <1>1 DEF Placed

\* An activation begins where the interpreter is in script code.
LEMMA PlacedAfterPush ==
  ASSUME Typed, Placed, from' = from, to' = to,
         \A q \in Promises : Calls(q) # {} => replies'[q] = replies[q],
         NEW i \in Interpreters, NEW f \in FrameSet,
         i = IF f.kind = "call" THEN to[f.p] ELSE from[f.p],
         f.pc \notin {"locked", "unlocked", "posted"}, f.pc = "refused" => f.kind = "call",
         f.pc = "waiting" => f.kind = "send",
         stack[i] # <<>> => Top(i).pc = "script",
         stack' = [stack EXCEPT ![i] = Append(@, f)]
  PROVE  Placed'
<1>1. /\ \A j \in Interpreters : j # i => stack'[j] = stack[j]
      /\ Len(stack'[i]) = Len(stack[i]) + 1 /\ stack'[i][Len(stack[i]) + 1] = f
      /\ \A n \in 1 .. Len(stack[i]) : stack'[i][n] = stack[i][n]
  <2>1. /\ stack[i] \in Seq(FrameSet) /\ Len(stack[i]) \in Nat
        /\ stack \in [Interpreters -> Seq(FrameSet)]
    BY DEF Typed
  <2>2. QED
    BY <2>1
<1>2. stack[i] \in Seq(FrameSet) /\ Len(stack[i]) \in Nat
  BY Stacks
<1>3. ASSUME NEW j \in Interpreters, NEW n \in 1 .. Len(stack'[j])
      PROVE  InPlace(j, n)'
  <2>1. CASE j # i
    <3>1. n \in 1 .. Len(stack[j]) /\ stack'[j] = stack[j]
      BY <1>1, <2>1
    <3>2. stack[j][n].pc \in {"locked", "unlocked", "posted"} => replies'[stack[j][n].p]
      BY <3>1, RepliesKept
    <3>3. PICK g : g = stack[j][n]
      OBVIOUS
    <3>4. /\ j = IF g.kind = "call" THEN to[g.p] ELSE from[g.p]
          /\ g.pc # "script" => n = Len(stack[j])
          /\ g.pc = "waiting" => g.kind = "send"
          /\ g.pc \in {"refused", "locked", "unlocked", "posted"} => g.kind = "call"
      BY <3>1, <3>3 DEF Placed, InPlace
    <3>5. stack'[j][n] = g /\ Len(stack'[j]) = Len(stack[j])
      BY <3>1, <3>3
    <3>6. QED
      BY <3>2, <3>3, <3>4, <3>5 DEF InPlace
  <2>2. CASE j = i /\ n = Len(stack[i]) + 1
    BY <1>1, <2>2 DEF InPlace
  <2>3. CASE j = i /\ n # Len(stack[i]) + 1
    <3>1. n \in 1 .. Len(stack[i]) /\ stack'[j][n] = stack[i][n]
      BY <1>1, <1>2, <2>3
    <3>2. n = Len(stack[i]) => stack[i][n].pc = "script"
      BY <1>2, <3>1 DEF Top, Last
    <3>3. PICK g : g = stack[i][n]
      OBVIOUS
    <3>4. /\ i = IF g.kind = "call" THEN to[g.p] ELSE from[g.p]
          /\ g.pc # "script" => n = Len(stack[i])
      BY <3>1, <3>3 DEF Placed, InPlace
    <3>5. stack'[j][n] = g /\ g.pc = "script"
      BY <2>3, <3>1, <3>2, <3>3, <3>4
    <3>6. QED
      BY <2>3, <3>4, <3>5 DEF InPlace
  <2>4. QED
    BY <2>1, <2>2, <2>3
<1>4. QED
  BY <1>3 DEF Placed

\* An activation ends where the one under it is in script code.
LEMMA PlacedAfterPop ==
  ASSUME Typed, Placed, from' = from, to' = to, replies' = replies,
         NEW i \in Interpreters, stack[i] # <<>>, Popped(i)
  PROVE  Placed'
<1>1. PICK f : f = Top(i)
  OBVIOUS
<1>2. /\ \A j \in Interpreters : j # i => stack'[j] = stack[j]
      /\ Len(stack'[i]) = Len(stack[i]) - 1
      /\ \A n \in 1 .. Len(stack'[i]) : n \in 1 .. Len(stack[i]) /\ stack'[i][n] = stack[i][n]
  BY <1>1, AfterPop
<1>3. Len(stack[i]) \in Nat
  BY Stacks
<1>4. ASSUME NEW j \in Interpreters, NEW n \in 1 .. Len(stack'[j])
      PROVE  InPlace(j, n)'
  <2>1. CASE j # i
    BY <1>2, <2>1 DEF Placed, InPlace
  <2>2. CASE j = i
    <3>1. n \in 1 .. Len(stack[i]) /\ n # Len(stack[i]) /\ stack'[i][n] = stack[i][n]
      BY <1>2, <1>3, <2>2
    <3>2. QED
      BY <2>2, <3>1 DEF Placed, InPlace
  <2>3. QED
    BY <2>1, <2>2
<1>5. QED
  BY <1>4 DEF Placed

\* The activation on top comes to a place where one of its kind may be.
LEMMA PlacedAfterTop ==
  ASSUME Typed, Placed, from' = from, to' = to, replies' = replies,
         NEW i \in Interpreters, stack[i] # <<>>, NEW pc \in Pcs \ {"waiting"},
         TopBecomes(i, pc), pc \in {"refused", "locked", "unlocked", "posted"} =>
           Top(i).kind = "call" /\ replies[Top(i).p]
  PROVE  Placed'
<1>1. PICK f : f = Top(i)
  OBVIOUS
<1>2. /\ \A j \in Interpreters : j # i => stack'[j] = stack[j]
      /\ Len(stack[i]) \in Nat /\ Len(stack'[i]) = Len(stack[i])
      /\ \A n \in 1 .. Len(stack[i]) :
           /\ stack'[i][n].kind = stack[i][n].kind /\ stack'[i][n].p = stack[i][n].p
           /\ n # Len(stack[i]) => stack'[i][n] = stack[i][n]
           /\ n = Len(stack[i]) => stack'[i][n].pc = pc /\ stack[i][n] = f
  BY <1>1, AfterTop
<1>3. ASSUME NEW j \in Interpreters, NEW n \in 1 .. Len(stack'[j])
      PROVE  InPlace(j, n)'
  <2>1. CASE j # i
    BY <1>2, <2>1 DEF Placed, InPlace
  <2>2. CASE j = i /\ n # Len(stack[i])
    BY <1>2, <2>2 DEF Placed, InPlace
  <2>3. CASE j = i /\ n = Len(stack[i])
    <3>1. PICK g : g = stack'[i][n]
      OBVIOUS
    <3>2. g.kind = f.kind /\ g.p = f.p /\ g.pc = pc /\ stack[i][n] = f /\ n = Len(stack'[i])
      BY <1>2, <2>3, <3>1
    <3>3. i = IF f.kind = "call" THEN to[f.p] ELSE from[f.p]
      BY <1>1, AfterTop
    <3>4. QED
      BY <1>1, <2>3, <3>1, <3>2, <3>3 DEF InPlace
  <2>4. QED
    BY <2>1, <2>2, <2>3
<1>4. QED
  BY <1>3 DEF Placed

\* An AsyncCall begins.
LEMMA AfterSend ==
  ASSUME Typed, from' = from, to' = to, NEW p \in Promises,
         NEW f \in FrameSet, f.kind = "send", f.p = p,
         NEW i \in Interpreters, i = from[p],
         stack' = [stack EXCEPT ![i] = Append(@, f)]
  PROVE  /\ stack' \in [Interpreters -> Seq(FrameSet)]
         /\ \A j \in Interpreters : j # i => stack'[j] = stack[j]
         /\ \A q \in Promises :
              /\ Calls(q)' = Calls(q) /\ Answers(q)' = Answers(q) /\ Thens(q)' = Thens(q)
              /\ q # p => Sends(q)' = Sends(q)
              /\ \A pcs : Stage(q, pcs)' <=> Stage(q, pcs)
         /\ \E n \in Int : Sends(p)' = Sends(p) \cup {n}
<1>1. i = IF f.kind = "call" THEN to[f.p] ELSE from[f.p]
  OBVIOUS
<1>2. /\ stack' \in [Interpreters -> Seq(FrameSet)]
      /\ \A j \in Interpreters : j # i => stack'[j] = stack[j]
  BY <1>1, AfterPush
<1>3. ASSUME NEW q \in Promises
      PROVE  /\ Calls(q)' = Calls(q) /\ Answers(q)' = Answers(q) /\ Thens(q)' = Thens(q)
             /\ Sends(q)' = IF q = p THEN Sends(q) \cup {Len(stack[i]) + 1} ELSE Sends(q)
             /\ \A pcs : Stage(q, pcs)' <=> Stage(q, pcs)
  <2>1. /\ Calls(q)' = IF f.kind = "call" /\ f.p = q
                       THEN Calls(q) \cup {Len(stack[i]) + 1} ELSE Calls(q)
        /\ Answers(q)' = IF f.kind = "answer" /\ f.p = q
                         THEN Answers(q) \cup {Len(stack[i]) + 1} ELSE Answers(q)
        /\ Thens(q)' = IF f.kind = "then" /\ f.p = q
                       THEN Thens(q) \cup {Len(stack[i]) + 1} ELSE Thens(q)
        /\ Sends(q)' = IF f.kind = "send" /\ f.p = q
                       THEN Sends(q) \cup {Len(stack[i]) + 1} ELSE Sends(q)
        /\ Len(stack[i]) + 1 \notin Thens(q) \/ i # from[q]
        /\ \A pcs : Stage(q, pcs)' <=>
                      Stage(q, pcs) \/ (f.kind = "call" /\ f.p = q /\ f.pc \in pcs)
    BY <1>1, AfterPush
  <2>2. QED
    BY <2>1
<1>4. Len(stack[i]) + 1 \in Int
  BY Stacks
<1>5. QED
  BY <1>2, <1>3, <1>4

LEMMA NewSound ==
  ASSUME Inv, NEW p \in Promises, NEW withReply \in BOOLEAN, NEW as,
         New(p, withReply, as),
         \/ /\ as = "sent" /\ withReply
            /\ stack' = [stack EXCEPT ![from[p]] = Append(@, Frame("send", p, "waiting"))]
         \/ as = "posted" /\ stack' = stack
  PROVE  Inv'
<1>1. PICK i \in Interpreters : i = from[p]
  BY DEF Inv, Typed
<1>2. /\ i \notin exited /\ to[p] \notin exited
      /\ (stack[i] # <<>> => Top(i).pc = "script")
      /\ refs[p] = 0 /\ p \notin unclaimed /\ from' = from /\ to' = to
      /\ exited' = exited /\ held' = held /\ lost' = lost /\ answer' = answer
      /\ unclaimed' = unclaimed
  BY <1>1 DEF New, InScript
<1>3. /\ p \notin held /\ p \notin lost /\ ~OwnRef(p)
      /\ call[p] = "none" /\ answer[p] = "none"
      /\ Calls(p) = {} /\ Answers(p) = {} /\ Thens(p) = {} /\ Sends(p) = {}
  BY <1>2, Deleted DEF Inv
<1>4. /\ stack' \in [Interpreters -> Seq(FrameSet)]
      /\ \A j \in Interpreters : j # i => stack'[j] = stack[j]
      /\ \A q \in Promises :
           /\ Calls(q)' = Calls(q) /\ Answers(q)' = Answers(q) /\ Thens(q)' = Thens(q)
           /\ q # p => Sends(q)' = Sends(q)
           /\ \A pcs : Stage(q, pcs)' <=> Stage(q, pcs)
      /\ Sends(p)' # {} => withReply /\ \E n \in Int : Sends(p)' = {n}
  <2>1. CASE stack' = stack
    <3>1. stack' \in [Interpreters -> Seq(FrameSet)]
      BY <2>1 DEF Inv, Typed
    <3>2. QED
      BY <1>2, <1>3, <2>1, <3>1, StackKept
  <2>2. CASE /\ withReply
             /\ stack' = [stack EXCEPT ![from[p]] = Append(@, Frame("send", p, "waiting"))]
    <3>1. PICK f \in FrameSet : /\ f = Frame("send", p, "waiting")
                                /\ f.kind = "send" /\ f.p = p
      BY DEF Frame, FrameSet, Pcs
    <3>2. stack' = [stack EXCEPT ![i] = Append(@, f)]
      BY <1>1, <2>2, <3>1
    <3>3. /\ stack' \in [Interpreters -> Seq(FrameSet)]
          /\ \A j \in Interpreters : j # i => stack'[j] = stack[j]
          /\ \A q \in Promises :
               /\ Calls(q)' = Calls(q) /\ Answers(q)' = Answers(q) /\ Thens(q)' = Thens(q)
               /\ q # p => Sends(q)' = Sends(q)
               /\ \A pcs : Stage(q, pcs)' <=> Stage(q, pcs)
          /\ \E n \in Int : Sends(p)' = Sends(p) \cup {n}
      BY <1>1, <1>2, <3>1, <3>2, AfterSend DEF Inv
    <3>4. QED
      BY <1>3, <2>2, <3>3
  <2>3. QED
    BY <2>1, <2>2
<1>5. Typed'
  <2>1. /\ refs' \in [Promises -> Int]
        /\ mResult' \in [Promises -> {"none", "writing", "ready", "taken"}]
        /\ call' \in [Promises -> {"none", "sent", "posted", "timer", "running", "refused"}]
        /\ runs' \in [Promises -> Nat]
    <3>1. as \in {"sent", "posted"}
      OBVIOUS
    <3>2. refs' \in [Promises -> Int] /\ runs' \in [Promises -> Nat]
      BY DEF Inv, Typed, New
    <3>3. call' \in [Promises -> {"none", "sent", "posted", "timer", "running", "refused"}]
      BY <3>1 DEF Inv, Typed, New
    <3>4. mResult' \in [Promises -> {"none", "writing", "ready", "taken"}]
      BY DEF Inv, Typed, New
    <3>5. QED
      BY <3>2, <3>3, <3>4
  <2>2. replies' \in [Promises -> BOOLEAN] /\ early' \in [Promises -> BOOLEAN]
    <3>1. replies' = [replies EXCEPT ![p] = withReply] /\ early' = [early EXCEPT ![p] = FALSE]
      BY DEF New
    <3>2. replies \in [Promises -> BOOLEAN] /\ early \in [Promises -> BOOLEAN]
      BY DEF Inv, Typed
    <3>3. replies' \in [Promises -> BOOLEAN]
      BY <3>1, <3>2
    <3>4. early' \in [Promises -> BOOLEAN]
      BY <3>1, <3>2
    <3>5. QED
      BY <3>3, <3>4
  <2>3. /\ mState' \in [Promises -> SUBSET {"done", "failed", "called"}]
        /\ handlers' \in [Promises -> SUBSET {"done", "failed"}]
    BY DEF Inv, Typed, New
  <2>4. QED
    BY <1>2, <1>4, <2>1, <2>2, <2>3 DEF Inv, Typed
<1>6. /\ refs'[p] = 1 /\ replies'[p] = withReply /\ mState'[p] = {} /\ call'[p] = as
      /\ runs'[p] = 0 /\ handlers'[p] = {} /\ as \in {"sent", "posted"}
  <2>1. replies'[p] = withReply
    BY DEF Inv, Typed, New
  <2>2. /\ refs'[p] = 1 /\ mState'[p] = {} /\ call'[p] = as /\ runs'[p] = 0
        /\ handlers'[p] = {}
    BY DEF Inv, Typed, New
  <2>3. QED
    BY <2>1, <2>2
<1>7. ASSUME NEW q \in Promises, q # p
      PROVE  Same(q)
  <2>1. /\ refs'[q] = refs[q] /\ replies'[q] = replies[q] /\ mState'[q] = mState[q]
        /\ mResult'[q] = mResult[q] /\ call'[q] = call[q]
        /\ runs'[q] = runs[q] /\ early'[q] = early[q] /\ handlers'[q] = handlers[q]
    BY <1>7 DEF Inv, Typed, New
  <2>2. QED
    BY <1>2, <1>4, <1>7, <2>1 DEF Same
<1>8. Placed'
  <2>1. \A q \in Promises : Calls(q) # {} => replies'[q] = replies[q]
    BY <1>3, <1>7 DEF Same
  <2>2. CASE stack' = stack
    BY <1>2, <2>1, <2>2, PlacedKept DEF Inv
  <2>3. CASE stack' = [stack EXCEPT ![from[p]] = Append(@, Frame("send", p, "waiting"))]
    <3>1. PICK f : f = Frame("send", p, "waiting")
      OBVIOUS
    <3>2. f \in FrameSet /\ f.kind = "send" /\ f.p = p /\ f.pc = "waiting"
      BY <3>1 DEF Frame, FrameSet, Pcs
    <3>3. stack' = [stack EXCEPT ![i] = Append(@, f)]
      BY <1>1, <2>3, <3>1
    <3>4. QED
      BY <1>1, <1>2, <2>1, <3>2, <3>3, PlacedAfterPush DEF Inv
  <2>4. QED
    BY <2>2, <2>3
<1>9. Emptied'
  BY <1>2, <1>4 DEF Inv, Typed, Emptied
<1>10. Sound(p)'
  <2>1. ~Stage(p, {"locked"})' /\ ~Answering(p)' /\ Unanswered(p)' /\ OwnRef(p)'
    BY <1>3, <1>4, <1>6 DEF Stage, Answering, Unanswered, OwnRef
  <2>2. Framed(p)'
    BY <1>2, <1>3, <1>4, <1>6 DEF Framed
  <2>3. Phased(p)'
    BY <1>2, <1>3, <1>4, <1>6, <2>1 DEF Phased
  <2>4. Left(p)'
    BY <1>1, <1>2, <1>6 DEF Left
  <2>5. Sending(p)'
    BY <1>2, <1>3, <1>4, <1>6, <2>1 DEF Sending
  <2>6. Account(p)'
    <3>1. Cardinality(Thens(p)') = 0
      BY <1>3, <1>4, FS_EmptySet
    <3>2. HeldRefs(p)' = 0 /\ OwnRefs(p)' = 1 /\ CallRefs(p)' = 0 /\ AnswerRefs(p)' = 0
      BY <1>2, <1>3, <1>6, <2>1, Terms
    <3>3. QED
      BY <1>6, <3>1, <3>2 DEF Account
  <2>7. Ran(p)'
    BY <1>2, <1>3, <1>6 DEF Ran
  <2>8. QED
    BY <2>2, <2>3, <2>4, <2>5, <2>6, <2>7 DEF Sound
<1>11. QED
  BY <1>5, <1>7, <1>8, <1>9, <1>10, Untouched DEF Inv

LEMMA SendReturnsSound ==
  ASSUME Inv, NEW i \in Interpreters, SendReturns(i)
  PROVE  Inv'
<1>1. PICK f : f = Top(i)
  OBVIOUS
<1>2. PICK p : p = f.p
  OBVIOUS
<1>3. /\ stack[i] # <<>> /\ f.kind = "send" /\ call[p] # "sent" /\ Popped(i)
      /\ from' = from /\ to' = to /\ replies' = replies
      /\ mState' = mState /\ mResult' = mResult /\ answer' = answer /\ lost' = lost
      /\ exited' = exited /\ runs' = runs /\ early' = early /\ handlers' = handlers
      /\ \/ /\ call[p] = "refused"
            /\ refs' = [refs EXCEPT ![p] = @ - 1]
            /\ call' = [call EXCEPT ![p] = "none"]
            /\ held' = held /\ unclaimed' = unclaimed
         \/ /\ call[p] # "refused"
            /\ refs' = [refs EXCEPT ![p] = @ + 1]
            /\ held' = held \cup {p} /\ unclaimed' = unclaimed \ {p} /\ call' = call
         \/ /\ call[p] # "refused"
            /\ refs' = refs /\ held' = held /\ unclaimed' = unclaimed /\ call' = call
  BY <1>1, <1>2 DEF SendReturns, Released
<1>4. /\ stack' \in [Interpreters -> Seq(FrameSet)]
      /\ \A j \in Interpreters : j # i => stack'[j] = stack[j]
      /\ f \in FrameSet /\ i = IF f.kind = "call" THEN to[f.p] ELSE from[f.p]
  BY <1>1, <1>3, AfterPop DEF Inv
<1>5. p \in Promises /\ i = from[p] /\ Sound(p)
  BY <1>2, <1>3, <1>4, FrameFields DEF Inv
<1>6. ASSUME NEW q \in Promises
      PROVE  /\ Calls(q)' = Calls(q) /\ Answers(q)' = Answers(q) /\ Thens(q)' = Thens(q)
             /\ \A pcs : Stage(q, pcs)' <=> Stage(q, pcs)
             /\ q # p => Sends(q)' = Sends(q)
             /\ q = p => /\ Len(stack[i]) \in Sends(q)
                         /\ Sends(q)' = Sends(q) \ {Len(stack[i])}
  <2>1. /\ IF f.kind = "call" /\ f.p = q
           THEN Len(stack[i]) \in Calls(q) /\ Calls(q)' = Calls(q) \ {Len(stack[i])}
           ELSE Calls(q)' = Calls(q) /\ \A pcs : Stage(q, pcs)' <=> Stage(q, pcs)
        /\ IF f.kind = "answer" /\ f.p = q
           THEN /\ Len(stack[i]) \in Answers(q)
                /\ Answers(q)' = Answers(q) \ {Len(stack[i])}
           ELSE Answers(q)' = Answers(q)
        /\ IF f.kind = "then" /\ f.p = q
           THEN /\ Len(stack[i]) \in Thens(q)
                /\ Thens(q)' = Thens(q) \ {Len(stack[i])}
           ELSE Thens(q)' = Thens(q)
        /\ IF f.kind = "send" /\ f.p = q
           THEN /\ Len(stack[i]) \in Sends(q)
                /\ Sends(q)' = Sends(q) \ {Len(stack[i])}
           ELSE Sends(q)' = Sends(q)
    BY <1>1, <1>3, AfterPop DEF Inv
  <2>2. QED
    BY <1>2, <1>3, <2>1
<1>7. /\ p \notin held /\ i \notin exited /\ Sends(p)' = {}
      /\ OwnRef(p) \/ p \in unclaimed
  <2>1. Sends(p) # {}
    BY <1>5, <1>6
  <2>2. /\ \E n \in Int : Sends(p) = {n}
        /\ p \notin held /\ (OwnRef(p) \/ p \in unclaimed)
    BY <1>5, <2>1 DEF Sound, Sending
  <2>3. Sends(p)' = {}
    BY <1>5, <1>6, <2>2
  <2>4. i \notin exited
    BY <1>3 DEF Inv, Emptied
  <2>5. QED
    BY <2>2, <2>3, <2>4
<1>8. Typed'
  <2>1. refs' \in [Promises -> Int] /\ held' \subseteq Promises /\ unclaimed' \subseteq Promises
    BY <1>3, <1>5 DEF Inv, Typed
  <2>2. call' \in [Promises -> {"none", "sent", "posted", "timer", "running", "refused"}]
    <3>1. call' = call \/ call' = [call EXCEPT ![p] = "none"]
      BY <1>3
    <3>2. QED
      BY <3>1 DEF Inv, Typed
  <2>3. QED
    BY <1>3, <1>4, <2>1, <2>2 DEF Inv, Typed
<1>9. Placed'
  BY <1>3, PlacedAfterPop DEF Inv
<1>10. Emptied'
  BY <1>3, <1>4, <1>7 DEF Inv, Typed, Emptied
<1>11. ASSUME NEW q \in Promises, q # p
       PROVE  Same(q)
  <2>1. /\ refs'[q] = refs[q] /\ call'[q] = call[q] /\ (q \in held' <=> q \in held)
        /\ (q \in unclaimed' <=> q \in unclaimed)
    BY <1>3, <1>11 DEF Inv, Typed
  <2>2. QED
    BY <1>3, <1>6, <1>11, <2>1 DEF Same
<1>12. Sound(p)'
  <2>1. Sending(p)'
    BY <1>7 DEF Sending
  <2>2. Ran(p)'
    BY <1>3, <1>5 DEF Sound, Ran
  <2>3. Calls(p)' = Calls(p) /\ Answers(p)' = Answers(p) /\ Thens(p)' = Thens(p)
    BY <1>5, <1>6
  <2>4. \A pcs : Stage(p, pcs)' <=> Stage(p, pcs)
    BY <1>5, <1>6
  <2>5. CASE /\ call[p] = "refused"
             /\ refs' = [refs EXCEPT ![p] = @ - 1]
             /\ call' = [call EXCEPT ![p] = "none"] /\ held' = held
    <3>1. /\ Unanswered(p) /\ mState[p] = {} /\ answer[p] = "none" /\ p \notin lost
          /\ Calls(p) = {} /\ Thens(p) = {} /\ Answers(p) = {}
      BY <1>5, <2>5 DEF Sound, Framed, Phased, Unanswered
    <3>2. call'[p] = "none" /\ refs'[p] = refs[p] - 1 /\ p \notin held'
      BY <1>5, <1>7, <2>5 DEF Inv, Typed
    <3>3. ~Unanswered(p)' /\ ~Answering(p)' /\ ~OwnRef(p)' /\ ~Stage(p, {"locked"})'
      BY <1>3, <2>3, <3>1, <3>2 DEF Stage, Unanswered, Answering, OwnRef
    <3>4. Framed(p)'
      BY <1>3, <2>3, <3>1, <3>2 DEF Framed
    <3>5. Phased(p)'
      BY <1>3, <2>3, <3>1, <3>3 DEF Phased
    <3>6. Left(p)'
      BY <1>3, <1>5, <3>2 DEF Sound, Left
    <3>7. Account(p)'
      <4>1. /\ OwnRefs(p) = 1 /\ OwnRefs(p)' = 0 /\ HeldRefs(p) = 0 /\ HeldRefs(p)' = 0
            /\ CallRefs(p) = 0 /\ CallRefs(p)' = 0
        BY <1>5, <1>7, <2>5, <3>1, <3>2, <3>3, Terms DEF OwnRef
      <4>2. AnswerRefs(p)' = AnswerRefs(p) /\ Thens(p)' = Thens(p)
        BY <1>3, <2>3 DEF AnswerRefs
      <4>3. QED
        BY <1>5, <3>2, <4>1, <4>2, Terms, Accounted DEF Inv, Account
    <3>8. QED
      BY <2>1, <2>2, <3>4, <3>5, <3>6, <3>7 DEF Sound
  <2>6. CASE /\ call' = call
             /\ \/ refs' = [refs EXCEPT ![p] = @ + 1] /\ held' = held \cup {p}
                \/ refs' = refs /\ held' = held
    <3>1. \/ refs'[p] = refs[p] + 1 /\ p \in held'
          \/ refs'[p] = refs[p] /\ p \notin held'
      BY <1>5, <1>7, <2>6 DEF Inv, Typed
    <3>2. (Unanswered(p)' <=> Unanswered(p)) /\ (Answering(p)' <=> Answering(p))
      BY <2>4, <2>6 DEF Unanswered, Answering
    <3>3. OwnRef(p)' <=> OwnRef(p)
      BY <1>3, <3>2 DEF OwnRef
    <3>4. Framed(p)' /\ Phased(p)'
      BY <1>3, <1>5, <2>3, <2>4, <2>6, <3>2 DEF Sound, Framed, Phased
    <3>5. Left(p)'
      BY <1>3, <1>5, <1>7, <2>6 DEF Sound, Left
    <3>6. Account(p)'
      <4>1. HeldRefs(p) = 0 /\ (HeldRefs(p)' = 1 <=> p \in held') /\ HeldRefs(p)' \in {0, 1}
        BY <1>5, <1>7, Terms
      <4>2. /\ AnswerRefs(p)' = AnswerRefs(p) /\ CallRefs(p)' = CallRefs(p)
            /\ OwnRefs(p)' = OwnRefs(p)
        BY <1>3, <2>6, <3>3 DEF AnswerRefs, CallRefs, OwnRefs
      <4>3. QED
        BY <1>5, <2>3, <3>1, <4>1, <4>2, Terms, Accounted DEF Inv, Account
    <3>7. QED
      BY <2>1, <2>2, <3>4, <3>5, <3>6 DEF Sound
  <2>7. QED
    BY <1>3, <2>5, <2>6
<1>13. QED
  BY <1>5, <1>8, <1>9, <1>10, <1>11, <1>12, Untouched DEF Inv

\* Only an AsyncCall waits in SendMessage.
LEMMA WaitsToSend ==
  ASSUME Inv, NEW i \in Interpreters, stack[i] # <<>>, Top(i).pc = "waiting"
  PROVE  Top(i).kind = "send"
<1>1. stack[i] \in Seq(FrameSet) /\ Len(stack[i]) \in 1 .. Len(stack[i])
  BY Stacks DEF Inv
<1>2. Top(i) = stack[i][Len(stack[i])]
  BY DEF Top, Last
<1>3. QED
  BY <1>1, <1>2 DEF Inv, Placed, InPlace

\* Script that a message runs in SendMessage changes nothing of any promise by itself.
LEMMA ScriptRunsSound ==
  ASSUME Inv, NEW i \in Interpreters, ScriptRuns(i)
  PROVE  Inv'
<1>1. PICK f : f = Top(i)
  OBVIOUS
<1>2. /\ stack[i] # <<>> /\ f.pc = "waiting" /\ TopBecomes(i, "script")
      /\ from' = from /\ to' = to /\ replies' = replies /\ refs' = refs /\ call' = call
      /\ mState' = mState /\ mResult' = mResult /\ answer' = answer /\ lost' = lost
      /\ exited' = exited /\ runs' = runs /\ early' = early /\ handlers' = handlers
      /\ held' = held /\ unclaimed' = unclaimed
  BY <1>1 DEF ScriptRuns, Waiting
<1>3. "script" \in Pcs
  BY DEF Pcs
<1>4. /\ stack' \in [Interpreters -> Seq(FrameSet)]
      /\ \A j \in Interpreters : j # i => stack'[j] = stack[j]
      /\ f \in FrameSet
  BY <1>1, <1>2, <1>3, AfterTop DEF Inv
<1>5. ASSUME NEW q \in Promises
      PROVE  /\ Calls(q)' = Calls(q) /\ Answers(q)' = Answers(q) /\ Thens(q)' = Thens(q)
             /\ Sends(q)' = Sends(q)
             /\ \A pcs : Stage(q, pcs)' <=> Stage(q, pcs)
  <2>1. f.kind # "call"
    BY <1>1, <1>2, WaitsToSend
  <2>2. /\ Calls(q)' = Calls(q) /\ Answers(q)' = Answers(q) /\ Thens(q)' = Thens(q)
        /\ Sends(q)' = Sends(q)
        /\ f.p # q \/ f.kind # "call" => \A pcs : Stage(q, pcs)' <=> Stage(q, pcs)
    BY <1>1, <1>2, <1>3, AfterTop DEF Inv
  <2>3. QED
    BY <2>1, <2>2
<1>6. Typed'
  BY <1>2, <1>4 DEF Inv, Typed
<1>7. Placed'
  BY <1>2, <1>3, PlacedAfterTop DEF Inv
<1>8. Emptied'
  BY <1>2, <1>4 DEF Inv, Typed, Emptied
<1>9. \A q \in Promises : Same(q)
  BY <1>2, <1>5 DEF Same
<1>10. QED
  BY <1>6, <1>7, <1>8, <1>9, Untouched DEF Inv

LEMMA DiscardSound ==
  ASSUME Inv, NEW p \in Promises, Discard(p)
  PROVE  Inv'
<1>1. /\ p \in held /\ Sound(p)
      /\ stack' = stack /\ from' = from /\ to' = to /\ replies' = replies
      /\ mState' = mState /\ mResult' = mResult /\ handlers' = handlers /\ call' = call
      /\ answer' = answer /\ lost' = lost /\ exited' = exited /\ runs' = runs
      /\ early' = early /\ unclaimed' = unclaimed
      /\ held' = held \ {p} /\ refs' = [refs EXCEPT ![p] = @ - 1]
  BY DEF Inv, Discard, Released
<1>2. Typed'
  <2>1. refs' \in [Promises -> Int] /\ held' \subseteq Promises
    BY <1>1 DEF Inv, Typed
  <2>2. QED
    BY <1>1, <2>1 DEF Inv, Typed
<1>3. Placed' /\ Emptied'
  BY <1>1, PlacedKept DEF Inv, Emptied
<1>4. \A q \in Promises :
        /\ Calls(q)' = Calls(q) /\ Answers(q)' = Answers(q) /\ Thens(q)' = Thens(q)
        /\ Sends(q)' = Sends(q)
        /\ \A pcs : Stage(q, pcs)' <=> Stage(q, pcs)
  BY <1>1, StackKept
<1>5. ASSUME NEW q \in Promises, q # p
      PROVE  Same(q)
  <2>1. refs'[q] = refs[q] /\ (q \in held' <=> q \in held)
    BY <1>1, <1>5 DEF Inv, Typed
  <2>2. QED
    BY <1>1, <1>4, <2>1 DEF Same
<1>6. Sound(p)'
  <2>1. (Unanswered(p)' <=> Unanswered(p)) /\ (Answering(p)' <=> Answering(p))
    BY <1>1, <1>4 DEF Unanswered, Answering
  <2>2. OwnRef(p)' <=> OwnRef(p)
    BY <1>1, <2>1 DEF OwnRef
  <2>3. Framed(p)' /\ Phased(p)' /\ Ran(p)'
    BY <1>1, <1>4, <2>1 DEF Sound, Framed, Phased, Ran
  <2>4. Left(p)' /\ Sending(p)'
    BY <1>1, <1>4 DEF Sound, Left, Sending
  <2>5. Account(p)'
    <3>1. HeldRefs(p) = 1 /\ HeldRefs(p)' = 0 /\ refs'[p] = refs[p] - 1
      BY <1>1, Terms DEF Inv, Typed
    <3>2. /\ AnswerRefs(p)' = AnswerRefs(p) /\ CallRefs(p)' = CallRefs(p)
          /\ OwnRefs(p)' = OwnRefs(p) /\ Thens(p)' = Thens(p)
      BY <1>1, <1>4, <2>2 DEF AnswerRefs, CallRefs, OwnRefs
    <3>3. QED
      BY <1>1, <3>1, <3>2, Terms, Accounted DEF Inv, Account
  <2>6. QED
    BY <2>3, <2>4, <2>5 DEF Sound
<1>7. QED
  BY <1>2, <1>3, <1>5, <1>6, Untouched DEF Inv

LEMMA TakeAnswerSound ==
  ASSUME Inv, NEW p \in Promises, TakeAnswer(p)
  PROVE  Inv'
<1>1. PICK i \in Interpreters : i = from[p]
  BY DEF Inv, Typed
<1>2. /\ answer[p] = "posted" /\ i \notin exited /\ Sound(p)
      /\ stack' = stack /\ from' = from /\ to' = to /\ replies' = replies
      /\ mState' = mState /\ mResult' = mResult /\ handlers' = handlers /\ call' = call
      /\ held' = held /\ lost' = lost /\ exited' = exited /\ runs' = runs
      /\ early' = early /\ unclaimed' = unclaimed
      /\ \/ /\ "called" \in mState[p] /\ answer' = [answer EXCEPT ![p] = "none"]
            /\ refs' = [refs EXCEPT ![p] = @ - 1]
         \/ /\ "called" \notin mState[p] /\ answer' = [answer EXCEPT ![p] = "timer"]
            /\ refs' = [refs EXCEPT ![p] = @ + 1]
  BY <1>1 DEF Inv, TakeAnswer, Released, InScript
<1>3. Typed'
  <2>1. refs' \in [Promises -> Int]
    BY <1>2 DEF Inv, Typed
  <2>2. answer' \in [Promises -> {"none", "posted", "timer", "running"}]
    <3>1. \/ answer' = [answer EXCEPT ![p] = "none"]
          \/ answer' = [answer EXCEPT ![p] = "timer"]
      BY <1>2
    <3>2. answer \in [Promises -> {"none", "posted", "timer", "running"}]
      BY DEF Inv, Typed
    <3>3. QED
      BY <3>1, <3>2
  <2>3. QED
    BY <1>2, <2>1, <2>2 DEF Inv, Typed
<1>4. Placed' /\ Emptied'
  BY <1>2, PlacedKept DEF Inv, Emptied
<1>5. \A q \in Promises :
        /\ Calls(q)' = Calls(q) /\ Answers(q)' = Answers(q) /\ Thens(q)' = Thens(q)
        /\ Sends(q)' = Sends(q)
        /\ \A pcs : Stage(q, pcs)' <=> Stage(q, pcs)
  BY <1>2, StackKept
<1>6. ASSUME NEW q \in Promises, q # p
      PROVE  Same(q)
  <2>1. refs'[q] = refs[q] /\ answer'[q] = answer[q]
    BY <1>2, <1>6 DEF Inv, Typed
  <2>2. QED
    BY <1>2, <1>5, <2>1 DEF Same
<1>7. Sound(p)'
  <2>1. (Unanswered(p)' <=> Unanswered(p)) /\ (Answering(p)' <=> Answering(p))
    BY <1>2, <1>5 DEF Unanswered, Answering
  <2>2. ~Unanswered(p) /\ ~Answering(p) /\ mState[p] # {} /\ p \notin lost /\ Answers(p) = {}
    BY <1>2 DEF Sound, Phased, Framed
  <2>3. answer'[p] \in {"none", "timer"}
    BY <1>2 DEF Inv, Typed
  <2>4. Framed(p)'
    BY <1>2, <1>5, <2>2, <2>3 DEF Sound, Framed
  <2>5. Phased(p)'
    BY <1>2, <1>5, <2>1, <2>2 DEF Sound, Phased
  <2>6. Left(p)'
    BY <1>1, <1>2 DEF Sound, Left
  <2>7. Sending(p)'
    <3>1. "called" \notin mState[p] => answer'[p] = "timer"
      BY <1>2 DEF Inv, Typed
    <3>2. answer'[p] = "timer" => OwnRef(p)'
      BY DEF OwnRef
    <3>3. QED
      BY <1>2, <1>5, <2>3, <3>1, <3>2 DEF Sound, Sending
  <2>8. Ran(p)'
    BY <1>2, <2>3 DEF Inv, Typed, Sound, Ran
  <2>9. Account(p)'
    <3>1. OwnRefs(p) = 1 /\ AnswerRefs(p) = 0
      BY <1>2, Terms DEF OwnRef
    <3>2. HeldRefs(p)' = HeldRefs(p) /\ CallRefs(p)' = CallRefs(p) /\ Thens(p)' = Thens(p)
      BY <1>2, <1>5 DEF HeldRefs, CallRefs
    <3>3. \/ refs'[p] = refs[p] - 1 /\ OwnRefs(p)' = 0 /\ AnswerRefs(p)' = 0
          \/ refs'[p] = refs[p] + 1 /\ OwnRefs(p)' = 1 /\ AnswerRefs(p)' = 1
      <4>1. \/ refs'[p] = refs[p] - 1 /\ answer'[p] = "none"
            \/ refs'[p] = refs[p] + 1 /\ answer'[p] = "timer"
        BY <1>2 DEF Inv, Typed
      <4>2. OwnRef(p)' <=> answer'[p] # "none"
        BY <1>2, <2>1, <2>2 DEF OwnRef
      <4>3. QED
        BY <4>1, <4>2, Terms
    <3>4. QED
      BY <1>2, <3>1, <3>2, <3>3, Terms, Accounted DEF Inv, Account
  <2>10. QED
    BY <2>4, <2>5, <2>6, <2>7, <2>8, <2>9 DEF Sound
<1>8. QED
  BY <1>3, <1>4, <1>6, <1>7, Untouched DEF Inv

LEMMA TakeCallSound ==
  ASSUME Inv, NEW p \in Promises, TakeCall(p)
  PROVE  Inv'
<1>1. /\ call[p] \in {"sent", "posted"} /\ Sound(p)
      /\ stack' = stack /\ from' = from /\ to' = to /\ replies' = replies
      /\ mState' = mState /\ mResult' = mResult /\ handlers' = handlers
      /\ answer' = answer /\ held' = held /\ lost' = lost /\ exited' = exited
      /\ runs' = runs /\ early' = early /\ unclaimed' = unclaimed
      /\ call' = [call EXCEPT ![p] = "timer"] /\ refs' = [refs EXCEPT ![p] = @ + 1]
  BY DEF Inv, TakeCall
<1>2. to[p] \notin exited
  <2>1. InScript(to[p]) \/ Waiting(to[p])
    BY DEF TakeCall
  <2>2. CASE InScript(to[p])
    BY <2>2 DEF InScript
  <2>3. CASE Waiting(to[p])
    BY <2>3 DEF Inv, Emptied, Waiting
  <2>4. QED
    BY <2>1, <2>2, <2>3
<1>3. Typed'
  <2>1. refs' \in [Promises -> Int]
    BY <1>1 DEF Inv, Typed
  <2>2. call' \in [Promises -> {"none", "sent", "posted", "timer", "running", "refused"}]
    BY <1>1 DEF Inv, Typed
  <2>3. QED
    BY <1>1, <2>1, <2>2 DEF Inv, Typed
<1>4. Placed' /\ Emptied'
  BY <1>1, PlacedKept DEF Inv, Emptied
<1>5. \A q \in Promises :
        /\ Calls(q)' = Calls(q) /\ Answers(q)' = Answers(q) /\ Thens(q)' = Thens(q)
        /\ Sends(q)' = Sends(q)
        /\ \A pcs : Stage(q, pcs)' <=> Stage(q, pcs)
  BY <1>1, StackKept
<1>6. ASSUME NEW q \in Promises, q # p
      PROVE  Same(q)
  <2>1. refs'[q] = refs[q] /\ call'[q] = call[q]
    BY <1>1, <1>6 DEF Inv, Typed
  <2>2. QED
    BY <1>1, <1>5, <2>1 DEF Same
<1>7. Sound(p)'
  <2>1. call'[p] = "timer" /\ refs'[p] = refs[p] + 1
    BY <1>1 DEF Inv, Typed
  <2>2. Unanswered(p) /\ Unanswered(p)' /\ (Answering(p)' <=> Answering(p))
    BY <1>1, <1>5, <2>1 DEF Unanswered, Answering
  <2>3. Framed(p)' /\ Phased(p)' /\ Ran(p)'
    BY <1>1, <1>5, <2>1, <2>2 DEF Sound, Framed, Phased, Ran
  <2>4. OwnRef(p) /\ OwnRef(p)'
    BY <2>2 DEF OwnRef
  <2>5. Left(p)' /\ Sending(p)'
    BY <1>1, <1>2, <1>5, <2>1, <2>4 DEF Sound, Left, Sending
  <2>6. Account(p)'
    <3>1. /\ CallRefs(p) = 0 /\ CallRefs(p)' = 1
          /\ OwnRefs(p) = 1 /\ OwnRefs(p)' = 1
      BY <1>1, <2>1, <2>4, Terms
    <3>2. /\ AnswerRefs(p)' = AnswerRefs(p) /\ HeldRefs(p)' = HeldRefs(p)
          /\ Thens(p)' = Thens(p)
      BY <1>1, <1>5 DEF AnswerRefs, HeldRefs
    <3>3. QED
      BY <1>1, <2>1, <3>1, <3>2, Terms, Accounted DEF Inv, Account
  <2>7. QED
    BY <2>3, <2>5, <2>6 DEF Sound
<1>8. QED
  BY <1>3, <1>4, <1>6, <1>7, Untouched DEF Inv

\* The critical section is what Stage says of it.
LEMMA LockedStage ==
  ASSUME Inv, NEW p \in Promises, Stage(p, {"locked"})
  PROVE  Locked(p)
<1>1. to[p] \in Interpreters
  BY DEF Inv, Typed
<1>2. PICK n \in Calls(p) : stack[to[p]][n].pc = "locked"
  BY DEF Stage
<1>3. n \in 1 .. Len(stack[to[p]]) /\ stack[to[p]][n].p = p
  BY DEF Calls, On
<1>4. n = Len(stack[to[p]])
  BY <1>1, <1>2, <1>3 DEF Inv, Placed, InPlace
<1>5. stack[to[p]] \in Seq(FrameSet)
  BY <1>1, Stacks DEF Inv
<1>6. stack[to[p]] # <<>>
  BY <1>3, <1>5
<1>7. Top(to[p]) = stack[to[p]][n]
  BY <1>4 DEF Top, Last
<1>8. QED
  BY <1>1, <1>2, <1>3, <1>6, <1>7 DEF Locked

\* The handler is set, and left to the answer.
LEMMA ThenSets ==
  ASSUME Inv, NEW p \in Promises, NEW way \in {"done", "failed"}, Then(p, way),
         way \notin mState[p]
  PROVE  Inv'
<1>1. /\ stack' = stack /\ from' = from /\ to' = to /\ replies' = replies
      /\ mState' = mState /\ mResult' = mResult /\ call' = call
      /\ answer' = answer /\ held' = held /\ lost' = lost /\ exited' = exited
      /\ unclaimed' = unclaimed /\ refs' = refs /\ p \in held
      /\ handlers' = [handlers EXCEPT ![p] = @ \cup {way}]
      /\ runs' = [runs EXCEPT ![p] = @]
      /\ early' = [early EXCEPT ![p] = @ \/ (FALSE /\ answer[p] = "timer")]
  BY DEF Inv, Then, RunsNow
<1>2. runs' = runs /\ early' = early
  <2>1. runs' = runs
    BY <1>1 DEF Inv, Typed
  <2>2. early[p] \in BOOLEAN /\ early \in [Promises -> BOOLEAN]
    BY DEF Inv, Typed
  <2>3. (early[p] \/ (FALSE /\ answer[p] = "timer")) = early[p]
    BY <2>2
  <2>4. early' = [early EXCEPT ![p] = early[p]]
    BY <1>1, <2>3
  <2>5. QED
    BY <2>1, <2>2, <2>4
<1>3. Typed'
  <2>1. handlers' \in [Promises -> SUBSET {"done", "failed"}]
    BY <1>1 DEF Inv, Typed
  <2>2. QED
    BY <1>1, <1>2, <2>1 DEF Inv, Typed
<1>4. Placed' /\ Emptied'
  BY <1>1, PlacedKept DEF Inv, Emptied
<1>5. \A q \in Promises : Same(q)
  <2>1. \A q \in Promises : handlers'[q] = handlers[q] \/ q \in held
    BY <1>1 DEF Inv, Typed
  <2>2. QED
    BY <1>1, <1>2, <2>1, StackKept DEF Same
<1>6. QED
  BY <1>3, <1>4, <1>5, Untouched DEF Inv

\* The handler runs at once.
LEMMA ThenRuns ==
  ASSUME Inv, NEW p \in Promises, NEW way \in {"done", "failed"}, Then(p, way),
         way \in mState[p]
  PROVE  Inv'
<1>1. PICK i \in Interpreters : i = from[p]
  BY DEF Inv, Typed
<1>2. PICK f : f = Frame("then", p, "script")
  OBVIOUS
<1>3. f \in FrameSet /\ f.kind = "then" /\ f.p = p /\ f.pc = "script"
  BY <1>2 DEF Frame, FrameSet, Pcs
<1>4. /\ i \notin exited /\ (stack[i] # <<>> => Top(i).pc = "script")
      /\ p \in held /\ ~Locked(p) /\ Sound(p)
      /\ from' = from /\ to' = to /\ replies' = replies /\ call' = call
      /\ answer' = answer /\ held' = held /\ lost' = lost /\ exited' = exited
      /\ unclaimed' = unclaimed
      /\ stack' = [stack EXCEPT ![i] = Append(@, f)]
      /\ refs' = [refs EXCEPT ![p] = @ + 1]
      /\ mState' = [mState EXCEPT ![p] = @ \cup {"called"}]
      /\ mResult' = [mResult EXCEPT ![p] = IF @ = "ready" THEN "taken" ELSE @]
      /\ handlers' = [handlers EXCEPT ![p] = @ \cup {way}]
      /\ runs' = [runs EXCEPT ![p] = 1]
  BY <1>1, <1>2 DEF Inv, Then, RunsNow, InScript
<1>5. early' = [early EXCEPT ![p] = @ \/ answer[p] = "timer"]
  <2>1. early' = [early EXCEPT ![p] = @ \/ (TRUE /\ answer[p] = "timer")]
    BY DEF Then, RunsNow
  <2>2. QED
    BY <2>1
<1>6. /\ stack' \in [Interpreters -> Seq(FrameSet)]
      /\ \A j \in Interpreters : j # i => stack'[j] = stack[j]
      /\ \A q \in Promises :
           /\ Calls(q)' = Calls(q) /\ Answers(q)' = Answers(q) /\ Sends(q)' = Sends(q)
           /\ q # p => Thens(q)' = Thens(q)
           /\ \A pcs : Stage(q, pcs)' <=> Stage(q, pcs)
      /\ Thens(p)' = Thens(p) \cup {Len(stack[i]) + 1}
      /\ Len(stack[i]) + 1 \notin Thens(p)
  <2>1. i = IF f.kind = "call" THEN to[f.p] ELSE from[f.p]
    BY <1>1, <1>3
  <2>2. /\ stack' \in [Interpreters -> Seq(FrameSet)]
        /\ \A j \in Interpreters : j # i => stack'[j] = stack[j]
    BY <1>3, <1>4, <2>1, AfterPush DEF Inv
  <2>3. ASSUME NEW q \in Promises
        PROVE  /\ Calls(q)' = Calls(q) /\ Answers(q)' = Answers(q) /\ Sends(q)' = Sends(q)
               /\ Thens(q)' = IF q = p THEN Thens(q) \cup {Len(stack[i]) + 1} ELSE Thens(q)
               /\ Len(stack[i]) + 1 \notin Thens(q) \/ i # from[q]
               /\ \A pcs : Stage(q, pcs)' <=> Stage(q, pcs)
    <3>1. /\ Calls(q)' = IF f.kind = "call" /\ f.p = q
                         THEN Calls(q) \cup {Len(stack[i]) + 1} ELSE Calls(q)
          /\ Answers(q)' = IF f.kind = "answer" /\ f.p = q
                           THEN Answers(q) \cup {Len(stack[i]) + 1} ELSE Answers(q)
          /\ Thens(q)' = IF f.kind = "then" /\ f.p = q
                         THEN Thens(q) \cup {Len(stack[i]) + 1} ELSE Thens(q)
          /\ Sends(q)' = IF f.kind = "send" /\ f.p = q
                         THEN Sends(q) \cup {Len(stack[i]) + 1} ELSE Sends(q)
          /\ Len(stack[i]) + 1 \notin Thens(q) \/ i # from[q]
          /\ \A pcs : Stage(q, pcs)' <=>
                        Stage(q, pcs) \/ (f.kind = "call" /\ f.p = q /\ f.pc \in pcs)
      BY <1>3, <1>4, <2>1, AfterPush DEF Inv
    <3>2. QED
      BY <1>3, <3>1
  <2>4. QED
    BY <1>1, <2>2, <2>3
<1>7. Typed'
  <2>1. refs' \in [Promises -> Int] /\ runs' \in [Promises -> Nat]
    BY <1>4 DEF Inv, Typed
  <2>2. mState' \in [Promises -> SUBSET {"done", "failed", "called"}]
    BY <1>4 DEF Inv, Typed
  <2>3. handlers' \in [Promises -> SUBSET {"done", "failed"}]
    BY <1>4 DEF Inv, Typed
  <2>4. mResult' \in [Promises -> {"none", "writing", "ready", "taken"}]
    BY <1>4 DEF Inv, Typed
  <2>5. early' \in [Promises -> BOOLEAN]
    <3>1. PICK b \in BOOLEAN : b = (early[p] \/ answer[p] = "timer")
      BY DEF Inv, Typed
    <3>2. early' = [early EXCEPT ![p] = b] /\ early \in [Promises -> BOOLEAN]
      BY <1>5, <3>1 DEF Inv, Typed
    <3>3. QED
      BY <3>2
  <2>6. QED
    BY <1>4, <1>6, <2>1, <2>2, <2>3, <2>4, <2>5 DEF Inv, Typed
<1>8. Placed'
  BY <1>1, <1>3, <1>4, PlacedAfterPush DEF Inv
<1>9. Emptied'
  BY <1>4, <1>6 DEF Inv, Typed, Emptied
<1>10. ASSUME NEW q \in Promises, q # p
       PROVE  Same(q)
  <2>1. /\ refs'[q] = refs[q] /\ mState'[q] = mState[q] /\ mResult'[q] = mResult[q]
        /\ runs'[q] = runs[q] /\ handlers'[q] = handlers[q]
    BY <1>4, <1>10 DEF Inv, Typed
  <2>2. early'[q] = early[q]
    BY <1>5, <1>10 DEF Inv, Typed
  <2>3. QED
    BY <1>4, <1>6, <1>10, <2>1, <2>2 DEF Same
<1>11. Sound(p)'
  <2>1. (Unanswered(p)' <=> Unanswered(p)) /\ (Answering(p)' <=> Answering(p))
    BY <1>4, <1>6 DEF Unanswered, Answering
  <2>2. OwnRef(p)' <=> OwnRef(p)
    BY <1>4, <2>1 DEF OwnRef
  <2>3. ~Stage(p, {"locked"}) /\ ~Unanswered(p)
    BY <1>4, LockedStage DEF Sound, Phased
  <2>4. /\ mState'[p] # {} /\ mResult'[p] = "taken" /\ "called" \in mState'[p]
        /\ refs'[p] = refs[p] + 1 /\ runs'[p] = 1
    <3>1. mResult[p] \in {"ready", "taken"}
      BY <1>1, <1>4, <2>3 DEF Sound, Phased
    <3>2. QED
      BY <1>4, <3>1 DEF Inv, Typed
  <2>5. Framed(p)' /\ Left(p)'
    BY <1>4, <1>6 DEF Sound, Framed, Left
  <2>6. Phased(p)'
    BY <1>4, <1>6, <2>1, <2>3, <2>4 DEF Sound, Phased
  <2>7. Sending(p)'
    BY <1>4, <1>6 DEF Sound, Sending
  <2>8. Ran(p)'
    <3>1. answer[p] = "timer" => early'[p]
      BY <1>5 DEF Inv, Typed
    <3>2. QED
      BY <1>4, <2>4, <3>1 DEF Ran
  <2>9. Account(p)'
    <3>1. /\ AnswerRefs(p)' = AnswerRefs(p) /\ CallRefs(p)' = CallRefs(p)
          /\ OwnRefs(p)' = OwnRefs(p) /\ HeldRefs(p)' = HeldRefs(p)
      BY <1>4, <2>2 DEF AnswerRefs, CallRefs, OwnRefs, HeldRefs
    <3>2. Cardinality(Thens(p)') = Cardinality(Thens(p)) + 1
      <4>1. PICK S : S = Thens(p) /\ IsFiniteSet(S)
        BY ThensFinite DEF Inv
      <4>2. PICK n : n = Len(stack[i]) + 1 /\ n \notin S
        BY <1>6, <4>1
      <4>3. Cardinality(S \cup {n}) = Cardinality(S) + 1
        BY <4>1, <4>2, FS_AddElement
      <4>4. QED
        BY <1>6, <4>1, <4>2, <4>3
    <3>3. QED
      BY <1>4, <2>4, <3>1, <3>2, Terms, Accounted DEF Inv, Account
  <2>10. QED
    BY <2>5, <2>6, <2>7, <2>8, <2>9 DEF Sound
<1>12. QED
  BY <1>7, <1>8, <1>9, <1>10, <1>11, Untouched DEF Inv

\* An AsyncCall that has not returned has its activation.
LEMMA SendFrames ==
  ASSUME Typed, NEW p \in Promises, Sends(p) # {}
  PROVE  BeingSent(p)
<1>1. PICK n : n \in Sends(p)
  OBVIOUS
<1>2. /\ n \in 1 .. Len(stack[from[p]])
      /\ stack[from[p]][n].kind = "send" /\ stack[from[p]][n].p = p
  BY <1>1 DEF Sends, On
<1>3. DOMAIN stack[from[p]] = 1 .. Len(stack[from[p]])
  <2>1. from[p] \in Interpreters
    BY DEF Typed
  <2>2. QED
    BY <2>1, Stacks
<1>4. QED
  BY <1>2, <1>3 DEF BeingSent

\* The answer's timer runs, and there is no handler for the outcome.
LEMMA AnswerTimerWithout ==
  ASSUME Inv, NEW p \in Promises, AnswerTimer(p), mState[p] \cap handlers[p] = {}
  PROVE  Inv'
<1>1. PICK i \in Interpreters : i = from[p]
  BY DEF Inv, Typed
<1>2. /\ answer[p] = "timer" /\ i \notin exited /\ Sound(p)
      /\ stack' = stack /\ from' = from /\ to' = to /\ replies' = replies
      /\ mState' = mState /\ handlers' = handlers /\ call' = call
      /\ held' = held /\ lost' = lost /\ exited' = exited /\ runs' = runs
      /\ early' = early
      /\ unclaimed' = IF BeingSent(p) THEN unclaimed \cup {p} ELSE unclaimed
      /\ mResult' = [mResult EXCEPT ![p] = IF @ = "ready" THEN "taken" ELSE @]
      /\ answer' = [answer EXCEPT ![p] = "none"]
      /\ refs' = [refs EXCEPT ![p] = @ - 2]
  BY <1>1 DEF Inv, AnswerTimer, TimerMayRun, Released, InScript
<1>3. Typed'
  <2>1. refs' \in [Promises -> Int]
    BY <1>2 DEF Inv, Typed
  <2>2. answer' \in [Promises -> {"none", "posted", "timer", "running"}]
    BY <1>2 DEF Inv, Typed
  <2>3. mResult' \in [Promises -> {"none", "writing", "ready", "taken"}]
    BY <1>2 DEF Inv, Typed
  <2>4. unclaimed' \subseteq Promises
    BY <1>2 DEF Inv, Typed
  <2>5. QED
    BY <1>2, <2>1, <2>2, <2>3, <2>4 DEF Inv, Typed
<1>4. Placed' /\ Emptied'
  BY <1>2, PlacedKept DEF Inv, Emptied
<1>5. \A q \in Promises :
        /\ Calls(q)' = Calls(q) /\ Answers(q)' = Answers(q) /\ Thens(q)' = Thens(q)
        /\ Sends(q)' = Sends(q)
        /\ \A pcs : Stage(q, pcs)' <=> Stage(q, pcs)
  BY <1>2, StackKept
<1>6. ASSUME NEW q \in Promises, q # p
      PROVE  Same(q)
  <2>1. /\ refs'[q] = refs[q] /\ answer'[q] = answer[q] /\ mResult'[q] = mResult[q]
        /\ (q \in unclaimed' <=> q \in unclaimed)
    BY <1>2, <1>6 DEF Inv, Typed
  <2>2. QED
    BY <1>2, <1>5, <2>1 DEF Same
<1>7. Sound(p)'
  <2>1. (Unanswered(p)' <=> Unanswered(p)) /\ (Answering(p)' <=> Answering(p))
    BY <1>2, <1>5 DEF Unanswered, Answering
  <2>2. ~Unanswered(p) /\ ~Answering(p) /\ mState[p] # {} /\ p \notin lost /\ Answers(p) = {}
    BY <1>2 DEF Sound, Phased, Framed
  <2>3. answer'[p] = "none" /\ refs'[p] = refs[p] - 2
    BY <1>2 DEF Inv, Typed
  <2>4. mResult'[p] = "taken" /\ ~Stage(p, {"locked"})
    <3>1. ~Stage(p, {"locked"})
      BY <2>2 DEF Answering, Stage
    <3>2. mResult[p] \in {"ready", "taken"}
      BY <1>1, <1>2, <2>2, <3>1 DEF Sound, Phased
    <3>3. QED
      BY <1>2, <3>1, <3>2 DEF Inv, Typed
  <2>5. Framed(p)' /\ Left(p)'
    BY <1>1, <1>2, <1>5, <2>2, <2>3 DEF Sound, Framed, Left
  <2>6. Phased(p)'
    BY <1>2, <1>5, <2>1, <2>2, <2>3, <2>4 DEF Sound, Phased
  <2>7. Sending(p)'
    <3>1. Sends(p) # {} => p \in unclaimed'
      BY <1>2, SendFrames DEF Inv
    <3>2. QED
      BY <1>2, <1>5, <2>3, <3>1 DEF Sound, Sending
  <2>8. Ran(p)'
    BY <1>2, <2>3 DEF Sound, Ran
  <2>9. Account(p)'
    <3>1. /\ OwnRefs(p) = 1 /\ AnswerRefs(p) = 1
          /\ OwnRefs(p)' = 0 /\ AnswerRefs(p)' = 0
      BY <1>2, <2>1, <2>2, <2>3, Terms DEF OwnRef
    <3>2. HeldRefs(p)' = HeldRefs(p) /\ CallRefs(p)' = CallRefs(p) /\ Thens(p)' = Thens(p)
      BY <1>2, <1>5 DEF HeldRefs, CallRefs
    <3>3. QED
      BY <1>2, <2>3, <3>1, <3>2, Terms, Accounted DEF Inv, Account
  <2>10. QED
    BY <2>5, <2>6, <2>7, <2>8, <2>9 DEF Sound
<1>8. QED
  BY <1>3, <1>4, <1>6, <1>7, Untouched DEF Inv

\* It runs the handler.
LEMMA AnswerTimerRuns ==
  ASSUME Inv, NEW p \in Promises, AnswerTimer(p), mState[p] \cap handlers[p] # {}
  PROVE  Inv'
<1>1. PICK i \in Interpreters : i = from[p]
  BY DEF Inv, Typed
<1>2. PICK f : f = Frame("answer", p, "script")
  OBVIOUS
<1>3. f \in FrameSet /\ f.kind = "answer" /\ f.p = p /\ f.pc = "script"
  BY <1>2 DEF Frame, FrameSet, Pcs
<1>4. /\ i \notin exited /\ (stack[i] # <<>> => Top(i).pc = "script")
      /\ answer[p] = "timer" /\ Sound(p)
      /\ from' = from /\ to' = to /\ replies' = replies /\ call' = call
      /\ held' = held /\ lost' = lost /\ exited' = exited /\ handlers' = handlers
      /\ unclaimed' = unclaimed /\ refs' = refs /\ early' = early
      /\ stack' = [stack EXCEPT ![i] = Append(@, f)]
      /\ answer' = [answer EXCEPT ![p] = "running"]
      /\ mState' = [mState EXCEPT ![p] = @ \cup {"called"}]
      /\ mResult' = [mResult EXCEPT ![p] = IF @ = "ready" THEN "taken" ELSE @]
      /\ runs' = [runs EXCEPT ![p] = @ + 1]
  BY <1>1, <1>2 DEF Inv, AnswerTimer, TimerMayRun, InScript
<1>5. /\ stack' \in [Interpreters -> Seq(FrameSet)]
      /\ \A j \in Interpreters : j # i => stack'[j] = stack[j]
      /\ \A q \in Promises :
           /\ Calls(q)' = Calls(q) /\ Thens(q)' = Thens(q) /\ Sends(q)' = Sends(q)
           /\ q # p => Answers(q)' = Answers(q)
           /\ \A pcs : Stage(q, pcs)' <=> Stage(q, pcs)
      /\ Answers(p)' = Answers(p) \cup {Len(stack[i]) + 1}
      /\ Len(stack[i]) + 1 \in Int
  <2>1. i = IF f.kind = "call" THEN to[f.p] ELSE from[f.p]
    BY <1>1, <1>3
  <2>2. /\ stack' \in [Interpreters -> Seq(FrameSet)]
        /\ \A j \in Interpreters : j # i => stack'[j] = stack[j]
    BY <1>3, <1>4, <2>1, AfterPush DEF Inv
  <2>3. ASSUME NEW q \in Promises
        PROVE  /\ Calls(q)' = Calls(q) /\ Thens(q)' = Thens(q) /\ Sends(q)' = Sends(q)
               /\ Answers(q)' = IF q = p THEN Answers(q) \cup {Len(stack[i]) + 1}
                                ELSE Answers(q)
               /\ \A pcs : Stage(q, pcs)' <=> Stage(q, pcs)
    <3>1. /\ Calls(q)' = IF f.kind = "call" /\ f.p = q
                         THEN Calls(q) \cup {Len(stack[i]) + 1} ELSE Calls(q)
          /\ Answers(q)' = IF f.kind = "answer" /\ f.p = q
                           THEN Answers(q) \cup {Len(stack[i]) + 1} ELSE Answers(q)
          /\ Thens(q)' = IF f.kind = "then" /\ f.p = q
                         THEN Thens(q) \cup {Len(stack[i]) + 1} ELSE Thens(q)
          /\ Sends(q)' = IF f.kind = "send" /\ f.p = q
                         THEN Sends(q) \cup {Len(stack[i]) + 1} ELSE Sends(q)
          /\ Len(stack[i]) + 1 \notin Thens(q) \/ i # from[q]
          /\ \A pcs : Stage(q, pcs)' <=>
                        Stage(q, pcs) \/ (f.kind = "call" /\ f.p = q /\ f.pc \in pcs)
      BY <1>3, <1>4, <2>1, AfterPush DEF Inv
    <3>2. QED
      BY <1>3, <3>1
  <2>4. Len(stack[i]) + 1 \in Int
    BY Stacks DEF Inv
  <2>5. QED
    BY <1>1, <2>2, <2>3, <2>4
<1>6. Typed'
  <2>1. runs' \in [Promises -> Nat]
    BY <1>4 DEF Inv, Typed
  <2>2. mState' \in [Promises -> SUBSET {"done", "failed", "called"}]
    BY <1>4 DEF Inv, Typed
  <2>3. answer' \in [Promises -> {"none", "posted", "timer", "running"}]
    BY <1>4 DEF Inv, Typed
  <2>4. mResult' \in [Promises -> {"none", "writing", "ready", "taken"}]
    BY <1>4 DEF Inv, Typed
  <2>5. QED
    BY <1>4, <1>5, <2>1, <2>2, <2>3, <2>4 DEF Inv, Typed
<1>7. Placed'
  <2>1. i = IF f.kind = "call" THEN to[f.p] ELSE from[f.p]
    BY <1>1, <1>3
  <2>2. QED
    BY <1>3, <1>4, <2>1, PlacedAfterPush DEF Inv
<1>8. Emptied'
  BY <1>4, <1>5 DEF Inv, Typed, Emptied
<1>9. ASSUME NEW q \in Promises, q # p
      PROVE  Same(q)
  <2>1. /\ answer'[q] = answer[q] /\ mState'[q] = mState[q] /\ mResult'[q] = mResult[q]
        /\ runs'[q] = runs[q]
    BY <1>4, <1>9 DEF Inv, Typed
  <2>2. QED
    BY <1>4, <1>5, <1>9, <2>1 DEF Same
<1>10. Sound(p)'
  <2>1. (Unanswered(p)' <=> Unanswered(p)) /\ (Answering(p)' <=> Answering(p))
    BY <1>4, <1>5 DEF Unanswered, Answering
  <2>2. ~Unanswered(p) /\ ~Answering(p) /\ mState[p] # {} /\ p \notin lost /\ Answers(p) = {}
    BY <1>4 DEF Sound, Phased, Framed
  <2>3. ~Stage(p, {"locked"})
    BY <2>2 DEF Answering, Stage
  <2>4. /\ mState'[p] # {} /\ mResult'[p] = "taken" /\ "called" \in mState'[p]
        /\ answer'[p] = "running" /\ runs'[p] = runs[p] + 1
    <3>1. mResult[p] \in {"ready", "taken"}
      BY <1>1, <1>4, <2>2, <2>3 DEF Sound, Phased
    <3>2. QED
      BY <1>4, <3>1 DEF Inv, Typed
  <2>5. Framed(p)'
    BY <1>4, <1>5, <2>2, <2>4 DEF Sound, Framed
  <2>6. Phased(p)'
    BY <1>4, <1>5, <2>1, <2>2, <2>3, <2>4 DEF Sound, Phased
  <2>7. Left(p)'
    BY <1>1, <1>4 DEF Sound, Left
  <2>8. Sending(p)'
    <3>1. handlers[p] # {}
      OBVIOUS
    <3>2. Sends(p) = {}
      BY <1>4, <3>1 DEF Sound, Sending
    <3>3. QED
      BY <1>5, <3>2 DEF Sending
  <2>9. Ran(p)'
    <3>1. runs[p] = 0 \/ early[p]
      BY <1>4 DEF Sound, Ran
    <3>2. QED
      BY <1>4, <2>4, <3>1 DEF Ran
  <2>10. Account(p)'
    <3>1. /\ OwnRefs(p) = 1 /\ OwnRefs(p)' = 1
          /\ AnswerRefs(p) = 1 /\ AnswerRefs(p)' = 1
      BY <1>4, <2>4, Terms DEF OwnRef
    <3>2. HeldRefs(p)' = HeldRefs(p) /\ CallRefs(p)' = CallRefs(p) /\ Thens(p)' = Thens(p)
      BY <1>4, <1>5 DEF HeldRefs, CallRefs
    <3>3. QED
      BY <1>4, <3>1, <3>2, Terms, Accounted DEF Inv, Account
  <2>11. QED
    BY <2>5, <2>6, <2>7, <2>8, <2>9, <2>10 DEF Sound
<1>11. QED
  BY <1>6, <1>7, <1>8, <1>9, <1>10, Untouched DEF Inv

\* The handler of an answer returns: its timer ends with it.
LEMMA AnswerReturns ==
  ASSUME Inv, NEW i \in Interpreters, HandlerReturns(i), Top(i).kind = "answer"
  PROVE  Inv'
<1>1. PICK f : f = Top(i)
  OBVIOUS
<1>2. PICK p : p = f.p
  OBVIOUS
<1>3. /\ stack[i] # <<>> /\ i \notin exited /\ Popped(i)
      /\ from' = from /\ to' = to /\ replies' = replies
      /\ mState' = mState /\ mResult' = mResult /\ handlers' = handlers /\ call' = call
      /\ held' = held /\ lost' = lost /\ exited' = exited /\ runs' = runs
      /\ early' = early /\ unclaimed' = unclaimed
      /\ answer' = [answer EXCEPT ![p] = "none"]
      /\ refs' = [refs EXCEPT ![p] = @ - 2]
  BY <1>1, <1>2 DEF HandlerReturns, Released, InScript
<1>4. /\ stack' \in [Interpreters -> Seq(FrameSet)]
      /\ \A j \in Interpreters : j # i => stack'[j] = stack[j]
      /\ f \in FrameSet /\ i = IF f.kind = "call" THEN to[f.p] ELSE from[f.p]
  BY <1>1, <1>3, AfterPop DEF Inv
<1>5. p \in Promises /\ i = from[p] /\ Sound(p)
  BY <1>1, <1>2, <1>4, FrameFields DEF Inv
<1>6. ASSUME NEW q \in Promises
      PROVE  /\ Calls(q)' = Calls(q) /\ Thens(q)' = Thens(q) /\ Sends(q)' = Sends(q)
             /\ \A pcs : Stage(q, pcs)' <=> Stage(q, pcs)
             /\ q # p => Answers(q)' = Answers(q)
             /\ q = p => /\ Len(stack[i]) \in Answers(q)
                         /\ Answers(q)' = Answers(q) \ {Len(stack[i])}
  <2>1. /\ IF f.kind = "call" /\ f.p = q
           THEN Len(stack[i]) \in Calls(q) /\ Calls(q)' = Calls(q) \ {Len(stack[i])}
           ELSE Calls(q)' = Calls(q) /\ \A pcs : Stage(q, pcs)' <=> Stage(q, pcs)
        /\ IF f.kind = "answer" /\ f.p = q
           THEN /\ Len(stack[i]) \in Answers(q)
                /\ Answers(q)' = Answers(q) \ {Len(stack[i])}
           ELSE Answers(q)' = Answers(q)
        /\ IF f.kind = "then" /\ f.p = q
           THEN /\ Len(stack[i]) \in Thens(q)
                /\ Thens(q)' = Thens(q) \ {Len(stack[i])}
           ELSE Thens(q)' = Thens(q)
        /\ IF f.kind = "send" /\ f.p = q
           THEN /\ Len(stack[i]) \in Sends(q)
                /\ Sends(q)' = Sends(q) \ {Len(stack[i])}
           ELSE Sends(q)' = Sends(q)
    BY <1>1, <1>3, AfterPop DEF Inv
  <2>2. QED
    BY <1>1, <1>2, <2>1
<1>7. answer[p] = "running" /\ Answers(p)' = {}
  BY <1>5, <1>6 DEF Sound, Framed
<1>8. Typed'
  <2>1. refs' \in [Promises -> Int]
    BY <1>3, <1>5 DEF Inv, Typed
  <2>2. answer' \in [Promises -> {"none", "posted", "timer", "running"}]
    BY <1>3 DEF Inv, Typed
  <2>3. QED
    BY <1>3, <1>4, <2>1, <2>2 DEF Inv, Typed
<1>9. Placed' /\ Emptied'
  BY <1>3, <1>4, PlacedAfterPop DEF Inv, Typed, Emptied
<1>10. ASSUME NEW q \in Promises, q # p
       PROVE  Same(q)
  <2>1. refs'[q] = refs[q] /\ answer'[q] = answer[q]
    BY <1>3, <1>10 DEF Inv, Typed
  <2>2. QED
    BY <1>3, <1>6, <1>10, <2>1 DEF Same
<1>11. Sound(p)'
  <2>1. (Unanswered(p)' <=> Unanswered(p)) /\ (Answering(p)' <=> Answering(p))
    BY <1>3, <1>5, <1>6 DEF Unanswered, Answering
  <2>2. ~Unanswered(p) /\ ~Answering(p) /\ mState[p] # {} /\ p \notin lost /\ mResult[p] = "taken"
    BY <1>5, <1>6, <1>7 DEF Sound, Phased
  <2>3. answer'[p] = "none" /\ refs'[p] = refs[p] - 2
    BY <1>3, <1>5 DEF Inv, Typed
  <2>4. ~Stage(p, {"locked"})
    BY <2>2 DEF Answering, Stage
  <2>5. Framed(p)' /\ Left(p)'
    BY <1>3, <1>5, <1>6, <1>7, <2>3 DEF Sound, Framed, Left
  <2>6. Phased(p)'
    BY <1>3, <1>5, <1>6, <2>1, <2>2, <2>3, <2>4 DEF Sound, Phased
  <2>7. Sending(p)'
    <3>1. Sends(p) = {}
      BY <1>5, <1>7 DEF Sound, Sending
    <3>2. QED
      BY <1>5, <1>6, <3>1 DEF Sending
  <2>8. Ran(p)'
    BY <1>3, <1>5, <2>3 DEF Sound, Ran
  <2>9. Account(p)'
    <3>1. /\ OwnRefs(p) = 1 /\ AnswerRefs(p) = 1
          /\ OwnRefs(p)' = 0 /\ AnswerRefs(p)' = 0
      BY <1>3, <1>5, <1>7, <2>1, <2>2, <2>3, Terms DEF OwnRef
    <3>2. HeldRefs(p)' = HeldRefs(p) /\ CallRefs(p)' = CallRefs(p) /\ Thens(p)' = Thens(p)
      BY <1>3, <1>5, <1>6 DEF HeldRefs, CallRefs
    <3>3. QED
      BY <1>5, <2>3, <3>1, <3>2, Terms, Accounted DEF Inv, Account
  <2>10. QED
    BY <2>5, <2>6, <2>7, <2>8, <2>9 DEF Sound
<1>12. QED
  BY <1>5, <1>8, <1>9, <1>10, <1>11, Untouched DEF Inv

\* A handler that Then has run returns.
LEMMA ThenReturns ==
  ASSUME Inv, NEW i \in Interpreters, HandlerReturns(i), Top(i).kind = "then"
  PROVE  Inv'
<1>1. PICK f : f = Top(i)
  OBVIOUS
<1>2. PICK p : p = f.p
  OBVIOUS
<1>3. /\ stack[i] # <<>> /\ i \notin exited /\ Popped(i)
      /\ from' = from /\ to' = to /\ replies' = replies
      /\ mState' = mState /\ mResult' = mResult /\ handlers' = handlers /\ call' = call
      /\ held' = held /\ lost' = lost /\ exited' = exited /\ runs' = runs
      /\ early' = early /\ unclaimed' = unclaimed /\ answer' = answer
      /\ refs' = [refs EXCEPT ![p] = @ - 1]
  BY <1>1, <1>2 DEF HandlerReturns, Released, InScript
<1>4. /\ stack' \in [Interpreters -> Seq(FrameSet)]
      /\ \A j \in Interpreters : j # i => stack'[j] = stack[j]
      /\ f \in FrameSet
  BY <1>1, <1>3, AfterPop DEF Inv
<1>5. p \in Promises /\ Sound(p)
  BY <1>1, <1>2, <1>4, FrameFields DEF Inv
<1>6. ASSUME NEW q \in Promises
      PROVE  /\ Calls(q)' = Calls(q) /\ Answers(q)' = Answers(q) /\ Sends(q)' = Sends(q)
             /\ \A pcs : Stage(q, pcs)' <=> Stage(q, pcs)
             /\ q # p => Thens(q)' = Thens(q)
             /\ q = p => /\ Len(stack[i]) \in Thens(q)
                         /\ Thens(q)' = Thens(q) \ {Len(stack[i])}
  <2>1. /\ IF f.kind = "call" /\ f.p = q
           THEN Len(stack[i]) \in Calls(q) /\ Calls(q)' = Calls(q) \ {Len(stack[i])}
           ELSE Calls(q)' = Calls(q) /\ \A pcs : Stage(q, pcs)' <=> Stage(q, pcs)
        /\ IF f.kind = "answer" /\ f.p = q
           THEN /\ Len(stack[i]) \in Answers(q)
                /\ Answers(q)' = Answers(q) \ {Len(stack[i])}
           ELSE Answers(q)' = Answers(q)
        /\ IF f.kind = "then" /\ f.p = q
           THEN /\ Len(stack[i]) \in Thens(q)
                /\ Thens(q)' = Thens(q) \ {Len(stack[i])}
           ELSE Thens(q)' = Thens(q)
        /\ IF f.kind = "send" /\ f.p = q
           THEN /\ Len(stack[i]) \in Sends(q)
                /\ Sends(q)' = Sends(q) \ {Len(stack[i])}
           ELSE Sends(q)' = Sends(q)
    BY <1>1, <1>3, AfterPop DEF Inv
  <2>2. QED
    BY <1>1, <1>2, <2>1
<1>7. Typed'
  <2>1. refs' \in [Promises -> Int]
    BY <1>3, <1>5 DEF Inv, Typed
  <2>2. QED
    BY <1>3, <1>4, <2>1 DEF Inv, Typed
<1>8. Placed' /\ Emptied'
  BY <1>3, <1>4, PlacedAfterPop DEF Inv, Typed, Emptied
<1>9. ASSUME NEW q \in Promises, q # p
      PROVE  Same(q)
  <2>1. refs'[q] = refs[q]
    BY <1>3, <1>9 DEF Inv, Typed
  <2>2. QED
    BY <1>3, <1>6, <1>9, <2>1 DEF Same
<1>10. Sound(p)'
  <2>1. (Unanswered(p)' <=> Unanswered(p)) /\ (Answering(p)' <=> Answering(p))
    BY <1>3, <1>5, <1>6 DEF Unanswered, Answering
  <2>2. OwnRef(p)' <=> OwnRef(p)
    BY <1>3, <2>1 DEF OwnRef
  <2>3. Thens(p) # {} /\ Thens(p)' = Thens(p) \ {Len(stack[i])}
    BY <1>5, <1>6
  <2>4. Framed(p)' /\ Left(p)' /\ Ran(p)'
    BY <1>3, <1>5, <1>6 DEF Sound, Framed, Left, Ran
  <2>5. Phased(p)'
    BY <1>3, <1>5, <1>6, <2>1, <2>3 DEF Sound, Phased
  <2>6. Sending(p)'
    BY <1>3, <1>5, <1>6, <2>2 DEF Sound, Sending
  <2>7. Account(p)'
    <3>1. /\ AnswerRefs(p)' = AnswerRefs(p) /\ CallRefs(p)' = CallRefs(p)
          /\ OwnRefs(p)' = OwnRefs(p) /\ HeldRefs(p)' = HeldRefs(p)
      BY <1>3, <2>2 DEF AnswerRefs, CallRefs, OwnRefs, HeldRefs
    <3>2. Cardinality(Thens(p)') = Cardinality(Thens(p)) - 1
      <4>1. PICK S : S = Thens(p) /\ IsFiniteSet(S)
        BY <1>5, ThensFinite DEF Inv
      <4>2. PICK n : n = Len(stack[i]) /\ n \in S
        BY <1>5, <1>6, <4>1
      <4>3. Cardinality(S \ {n}) = Cardinality(S) - 1
        BY <4>1, <4>2, FS_RemoveElement
      <4>4. QED
        BY <2>3, <4>1, <4>2, <4>3
    <3>3. refs'[p] = refs[p] - 1
      BY <1>3, <1>5 DEF Inv, Typed
    <3>4. QED
      BY <1>5, <3>1, <3>2, <3>3, Terms, Accounted DEF Inv, Account
  <2>8. QED
    BY <2>4, <2>5, <2>6, <2>7 DEF Sound
<1>11. QED
  BY <1>5, <1>7, <1>8, <1>9, <1>10, Untouched DEF Inv

----------------------------------------------------------------------------
(* The steps of the interpreter that is called *)

LEMMA CallTimerSound ==
  ASSUME Inv, NEW p \in Promises, CallTimer(p)
  PROVE  Inv'
<1>1. PICK i \in Interpreters : i = to[p]
  BY DEF Inv, Typed
<1>2. PICK pc \in {"script", "refused"} :
        stack' = [stack EXCEPT ![i] = Append(@, Frame("call", p, pc))]
  BY <1>1 DEF CallTimer
<1>3. PICK f : f = Frame("call", p, pc)
  OBVIOUS
<1>4. f \in FrameSet /\ f.kind = "call" /\ f.p = p /\ f.pc = pc
  BY <1>3 DEF Frame, FrameSet, Pcs
<1>5. /\ i \notin exited /\ (stack[i] # <<>> => Top(i).pc = "script")
      /\ call[p] = "timer" /\ Sound(p)
      /\ from' = from /\ to' = to /\ replies' = replies /\ refs' = refs
      /\ mState' = mState /\ mResult' = mResult /\ handlers' = handlers
      /\ answer' = answer /\ held' = held /\ lost' = lost /\ exited' = exited
      /\ runs' = runs /\ early' = early /\ unclaimed' = unclaimed
      /\ call' = [call EXCEPT ![p] = "running"]
      /\ stack' = [stack EXCEPT ![i] = Append(@, f)]
  BY <1>1, <1>2, <1>3 DEF Inv, CallTimer, TimerMayRun, InScript
<1>6. i = IF f.kind = "call" THEN to[f.p] ELSE from[f.p]
  BY <1>1, <1>4
<1>7. /\ stack' \in [Interpreters -> Seq(FrameSet)]
      /\ \A j \in Interpreters : j # i => stack'[j] = stack[j]
  BY <1>4, <1>5, <1>6, AfterPush DEF Inv
<1>8. ASSUME NEW q \in Promises
      PROVE  /\ Answers(q)' = Answers(q) /\ Thens(q)' = Thens(q) /\ Sends(q)' = Sends(q)
             /\ q # p => Calls(q)' = Calls(q)
             /\ q = p => Calls(q)' = Calls(q) \cup {Len(stack[i]) + 1}
             /\ \A pcs : Stage(q, pcs)' <=> Stage(q, pcs) \/ (q = p /\ pc \in pcs)
  <2>1. /\ Calls(q)' = IF f.kind = "call" /\ f.p = q
                       THEN Calls(q) \cup {Len(stack[i]) + 1} ELSE Calls(q)
        /\ Answers(q)' = IF f.kind = "answer" /\ f.p = q
                         THEN Answers(q) \cup {Len(stack[i]) + 1} ELSE Answers(q)
        /\ Thens(q)' = IF f.kind = "then" /\ f.p = q
                       THEN Thens(q) \cup {Len(stack[i]) + 1} ELSE Thens(q)
        /\ Sends(q)' = IF f.kind = "send" /\ f.p = q
                       THEN Sends(q) \cup {Len(stack[i]) + 1} ELSE Sends(q)
        /\ Len(stack[i]) + 1 \notin Thens(q) \/ i # from[q]
        /\ \A pcs : Stage(q, pcs)' <=>
                      Stage(q, pcs) \/ (f.kind = "call" /\ f.p = q /\ f.pc \in pcs)
    BY <1>4, <1>5, <1>6, AfterPush DEF Inv
  <2>2. QED
    BY <1>4, <2>1
<1>9. Typed'
  <2>1. call' \in [Promises -> {"none", "sent", "posted", "timer", "running", "refused"}]
    BY <1>5 DEF Inv, Typed
  <2>2. QED
    BY <1>5, <1>7, <2>1 DEF Inv, Typed
<1>10. Placed'
  <2>1. f.pc = "script" \/ (f.kind = "call" /\ f.pc = "refused")
    BY <1>4
  <2>2. QED
    BY <1>4, <1>5, <1>6, <2>1, PlacedAfterPush DEF Inv
<1>11. Emptied'
  BY <1>5, <1>7 DEF Inv, Typed, Emptied
<1>12. ASSUME NEW q \in Promises, q # p
       PROVE  Same(q)
  <2>1. call'[q] = call[q]
    BY <1>5, <1>12 DEF Inv, Typed
  <2>2. QED
    BY <1>5, <1>8, <1>12, <2>1 DEF Same
<1>13. Sound(p)'
  <2>1. Calls(p) = {} /\ \A pcs : ~Stage(p, pcs)
    BY <1>5 DEF Sound, Framed, Stage
  <2>2. call'[p] = "running"
    BY <1>5 DEF Inv, Typed
  <2>3. /\ Unanswered(p) /\ Unanswered(p)' /\ ~Answering(p)' /\ ~Stage(p, {"locked"})'
    BY <1>5, <1>8, <2>1, <2>2 DEF Unanswered, Answering
  <2>4. Framed(p)'
    <3>1. Len(stack[i]) + 1 \in Int
      BY Stacks DEF Inv
    <3>2. QED
      BY <1>5, <1>8, <2>1, <2>2, <3>1 DEF Sound, Framed
  <2>5. Phased(p)'
    BY <1>5, <1>8, <2>1, <2>3 DEF Sound, Phased
  <2>6. Left(p)' /\ Ran(p)'
    BY <1>1, <1>5, <2>2 DEF Sound, Left, Ran
  <2>7. OwnRef(p) /\ OwnRef(p)'
    BY <2>3 DEF OwnRef
  <2>8. Sending(p)'
    BY <1>5, <1>8, <2>7 DEF Sound, Sending
  <2>9. Account(p)'
    <3>1. /\ CallRefs(p) = 1 /\ CallRefs(p)' = 1
          /\ OwnRefs(p) = 1 /\ OwnRefs(p)' = 1
      BY <1>5, <2>2, <2>7, Terms
    <3>2. /\ AnswerRefs(p)' = AnswerRefs(p) /\ HeldRefs(p)' = HeldRefs(p)
          /\ Thens(p)' = Thens(p)
      BY <1>5, <1>8 DEF AnswerRefs, HeldRefs
    <3>3. QED
      BY <1>5, <3>1, <3>2, Terms, Accounted DEF Inv, Account
  <2>10. QED
    BY <2>4, <2>5, <2>6, <2>8, <2>9 DEF Sound
<1>14. QED
  BY <1>9, <1>10, <1>11, <1>12, <1>13, Untouched DEF Inv

\* The function ends, and its caller waits for the answer.
LEMMA FunctionEndsWithReply ==
  ASSUME Inv, NEW i \in Interpreters, NEW way \in {"done", "failed"},
         FunctionEnds(i, way), replies[Top(i).p]
  PROVE  Inv'
<1>1. PICK f : f = Top(i)
  OBVIOUS
<1>2. PICK p : p = f.p
  OBVIOUS
<1>3. /\ stack[i] # <<>> /\ f.kind = "call" /\ f.pc \in {"script", "refused"}
      /\ TopBecomes(i, "locked") /\ "locked" \in Pcs \ {"waiting"}
      /\ from' = from /\ to' = to /\ replies' = replies /\ refs' = refs /\ call' = call
      /\ handlers' = handlers /\ held' = held /\ lost' = lost /\ exited' = exited
      /\ runs' = runs /\ early' = early /\ unclaimed' = unclaimed /\ answer' = answer
      /\ mState' = [mState EXCEPT ![p] = {way}]
      /\ mResult' = [mResult EXCEPT ![p] = "writing"]
  BY <1>1, <1>2 DEF FunctionEnds, InScript, Pcs
<1>4. f \in FrameSet /\ p \in Promises /\ Sound(p)
  <2>1. f \in FrameSet
    BY <1>1, <1>3, AfterTop DEF Inv
  <2>2. QED
    BY <1>2, <2>1, FrameFields DEF Inv
<1>5. /\ i = to[p] /\ call[p] = "running" /\ Calls(p) = {Len(stack[i])}
      /\ \A pcs : Stage(p, pcs) <=> f.pc \in pcs
  BY <1>1, <1>2, <1>3, <1>4, TopStage DEF Inv, Sound
<1>6. /\ stack' \in [Interpreters -> Seq(FrameSet)]
      /\ \A j \in Interpreters : j # i => stack'[j] = stack[j]
      /\ \A q \in Promises :
           /\ Calls(q)' = Calls(q) /\ Answers(q)' = Answers(q) /\ Thens(q)' = Thens(q)
           /\ Sends(q)' = Sends(q)
           /\ q # p => \A pcs : Stage(q, pcs)' <=> Stage(q, pcs)
      /\ \A pcs : Stage(p, pcs)' <=> "locked" \in pcs
  BY <1>1, <1>2, <1>3, <1>4, TopMoves DEF Inv, Sound
<1>7. Typed'
  <2>1. mState' \in [Promises -> SUBSET {"done", "failed", "called"}]
    BY <1>3 DEF Inv, Typed
  <2>2. mResult' \in [Promises -> {"none", "writing", "ready", "taken"}]
    BY <1>3 DEF Inv, Typed
  <2>3. QED
    BY <1>3, <1>6, <2>1, <2>2 DEF Inv, Typed
<1>8. Placed'
  BY <1>1, <1>2, <1>3, PlacedAfterTop DEF Inv
<1>9. Emptied'
  BY <1>3, <1>6 DEF Inv, Emptied, Typed
<1>10. ASSUME NEW q \in Promises, q # p
       PROVE  Same(q)
  <2>1. mState'[q] = mState[q] /\ mResult'[q] = mResult[q]
    BY <1>3, <1>10 DEF Inv, Typed
  <2>2. QED
    BY <1>2, <1>3, <1>6, <1>10, <2>1 DEF Same
<1>11. Sound(p)'
  <2>1. Unanswered(p) /\ ~Unanswered(p)' /\ Answering(p)' /\ Stage(p, {"locked"})'
    BY <1>3, <1>5, <1>6 DEF Unanswered, Answering
  <2>2. mState[p] = {} /\ answer[p] = "none" /\ p \notin lost /\ Thens(p) = {} /\ Answers(p) = {}
    BY <1>4, <2>1 DEF Sound, Phased, Framed
  <2>3. mState'[p] = {way} /\ mResult'[p] = "writing"
    BY <1>3, <1>4 DEF Inv, Typed
  <2>4. Framed(p)' /\ Left(p)'
    BY <1>3, <1>4, <1>6 DEF Sound, Framed, Left
  <2>5. Phased(p)'
    BY <1>3, <1>4, <1>6, <2>1, <2>2, <2>3 DEF Sound, Phased
  <2>6. OwnRef(p) /\ OwnRef(p)'
    BY <2>1 DEF OwnRef
  <2>7. Sending(p)'
    BY <1>3, <1>4, <1>6, <2>3, <2>6 DEF Sound, Sending
  <2>8. Ran(p)'
    BY <1>3, <1>4, <2>2, <2>3 DEF Sound, Ran
  <2>9. Account(p)'
    <3>1. OwnRefs(p) = 1 /\ OwnRefs(p)' = 1
      BY <1>4, <2>6, Terms
    <3>2. /\ AnswerRefs(p)' = AnswerRefs(p) /\ HeldRefs(p)' = HeldRefs(p)
          /\ CallRefs(p)' = CallRefs(p) /\ Thens(p)' = Thens(p)
      BY <1>3, <1>4, <1>6 DEF AnswerRefs, HeldRefs, CallRefs
    <3>3. QED
      BY <1>3, <1>4, <3>1, <3>2, Terms, Accounted DEF Inv, Account
  <2>10. QED
    BY <2>4, <2>5, <2>7, <2>8, <2>9 DEF Sound
<1>12. QED
  BY <1>4, <1>7, <1>8, <1>9, <1>10, <1>11, Untouched DEF Inv

\* The activation of a call ends, and nothing of the call is left on the stack.
LEMMA CallPops ==
  ASSUME Inv, from' = from, to' = to, NEW i \in Interpreters,
         stack[i] # <<>>, Top(i).kind = "call", Popped(i), NEW p, p = Top(i).p
  PROVE  /\ stack' \in [Interpreters -> Seq(FrameSet)]
         /\ \A j \in Interpreters : j # i => stack'[j] = stack[j]
         /\ p \in Promises /\ Sound(p) /\ i = to[p] /\ call[p] = "running"
         /\ \A pcs : Stage(p, pcs) <=> Top(i).pc \in pcs
         /\ Calls(p)' = {} /\ \A pcs : ~Stage(p, pcs)'
         /\ \A q \in Promises :
              /\ Answers(q)' = Answers(q) /\ Thens(q)' = Thens(q) /\ Sends(q)' = Sends(q)
              /\ q # p => /\ Calls(q)' = Calls(q)
                          /\ \A pcs : Stage(q, pcs)' <=> Stage(q, pcs)
<1>1. PICK f : f = Top(i)
  OBVIOUS
<1>2. /\ stack' \in [Interpreters -> Seq(FrameSet)]
      /\ \A j \in Interpreters : j # i => stack'[j] = stack[j]
      /\ f \in FrameSet
  BY <1>1, AfterPop DEF Inv
<1>3. p \in Promises /\ Sound(p)
  BY <1>1, <1>2, FrameFields DEF Inv
<1>4. /\ i = to[p] /\ call[p] = "running" /\ Calls(p) = {Len(stack[i])}
      /\ \A pcs : Stage(p, pcs) <=> Top(i).pc \in pcs
  BY <1>3, TopStage DEF Inv, Sound
<1>5. ASSUME NEW q \in Promises
      PROVE  /\ Answers(q)' = Answers(q) /\ Thens(q)' = Thens(q) /\ Sends(q)' = Sends(q)
             /\ q = p => Calls(q)' = Calls(q) \ {Len(stack[i])}
             /\ q # p => /\ Calls(q)' = Calls(q)
                         /\ \A pcs : Stage(q, pcs)' <=> Stage(q, pcs)
  <2>1. /\ IF f.kind = "call" /\ f.p = q
           THEN Len(stack[i]) \in Calls(q) /\ Calls(q)' = Calls(q) \ {Len(stack[i])}
           ELSE Calls(q)' = Calls(q) /\ \A pcs : Stage(q, pcs)' <=> Stage(q, pcs)
        /\ IF f.kind = "answer" /\ f.p = q
           THEN /\ Len(stack[i]) \in Answers(q)
                /\ Answers(q)' = Answers(q) \ {Len(stack[i])}
           ELSE Answers(q)' = Answers(q)
        /\ IF f.kind = "then" /\ f.p = q
           THEN /\ Len(stack[i]) \in Thens(q)
                /\ Thens(q)' = Thens(q) \ {Len(stack[i])}
           ELSE Thens(q)' = Thens(q)
        /\ IF f.kind = "send" /\ f.p = q
           THEN /\ Len(stack[i]) \in Sends(q)
                /\ Sends(q)' = Sends(q) \ {Len(stack[i])}
           ELSE Sends(q)' = Sends(q)
    BY <1>1, AfterPop DEF Inv
  <2>2. QED
    BY <1>1, <2>1
<1>6. Calls(p)' = {}
  BY <1>3, <1>4, <1>5
<1>7. \A pcs : ~Stage(p, pcs)'
  BY <1>6 DEF Stage
<1>8. QED
  BY <1>2, <1>3, <1>4, <1>5, <1>6, <1>7

\* The function ends, and nobody waits for an answer.
LEMMA FunctionEndsWithout ==
  ASSUME Inv, NEW i \in Interpreters, NEW way \in {"done", "failed"},
         FunctionEnds(i, way), ~replies[Top(i).p]
  PROVE  Inv'
<1>1. PICK p : p = Top(i).p
  OBVIOUS
<1>2. /\ stack[i] # <<>> /\ Top(i).kind = "call" /\ Top(i).pc \in {"script", "refused"}
      /\ Popped(i) /\ ~replies[p]
      /\ from' = from /\ to' = to /\ replies' = replies
      /\ mState' = mState /\ mResult' = mResult
      /\ handlers' = handlers /\ held' = held /\ lost' = lost /\ exited' = exited
      /\ runs' = runs /\ early' = early /\ unclaimed' = unclaimed /\ answer' = answer
      /\ refs' = [refs EXCEPT ![p] = @ - 2]
      /\ call' = [call EXCEPT ![p] = "none"]
  BY <1>1 DEF FunctionEnds, InScript, Released
<1>3. /\ stack' \in [Interpreters -> Seq(FrameSet)]
      /\ \A j \in Interpreters : j # i => stack'[j] = stack[j]
      /\ p \in Promises /\ Sound(p) /\ i = to[p] /\ call[p] = "running"
      /\ \A pcs : Stage(p, pcs) <=> Top(i).pc \in pcs
      /\ Calls(p)' = {} /\ \A pcs : ~Stage(p, pcs)'
      /\ \A q \in Promises :
           /\ Answers(q)' = Answers(q) /\ Thens(q)' = Thens(q) /\ Sends(q)' = Sends(q)
           /\ q # p => /\ Calls(q)' = Calls(q)
                       /\ \A pcs : Stage(q, pcs)' <=> Stage(q, pcs)
  BY <1>1, <1>2, CallPops
<1>4. Typed'
  <2>1. refs' \in [Promises -> Int]
    BY <1>2, <1>3 DEF Inv, Typed
  <2>2. call' \in [Promises -> {"none", "sent", "posted", "timer", "running", "refused"}]
    BY <1>2 DEF Inv, Typed
  <2>3. QED
    BY <1>2, <1>3, <2>1, <2>2 DEF Inv, Typed
<1>5. Placed' /\ Emptied'
  BY <1>2, <1>3, PlacedAfterPop DEF Inv, Typed, Emptied
<1>6. ASSUME NEW q \in Promises, q # p
      PROVE  Same(q)
  <2>1. refs'[q] = refs[q] /\ call'[q] = call[q]
    BY <1>2, <1>6 DEF Inv, Typed
  <2>2. QED
    BY <1>2, <1>3, <1>6, <2>1 DEF Same
<1>7. Sound(p)'
  <2>1. refs'[p] = refs[p] - 2 /\ call'[p] = "none"
    BY <1>2, <1>3 DEF Inv, Typed
  <2>2. Unanswered(p) /\ ~Unanswered(p)' /\ ~Answering(p)'
    BY <1>2, <1>3, <2>1 DEF Unanswered, Answering
  <2>3. mState[p] = {} /\ answer[p] = "none" /\ p \notin lost /\ Thens(p) = {} /\ Answers(p) = {}
    BY <1>3, <2>2 DEF Sound, Phased, Framed
  <2>4. OwnRef(p) /\ ~OwnRef(p)'
    BY <1>2, <2>2, <2>3 DEF OwnRef
  <2>5. Framed(p)' /\ Left(p)' /\ Ran(p)'
    BY <1>2, <1>3, <2>1, <2>3 DEF Sound, Framed, Left, Ran
  <2>6. Phased(p)'
    BY <1>2, <1>3, <2>2, <2>3 DEF Phased
  <2>7. Sending(p)'
    BY <1>2, <1>3 DEF Sound, Sending
  <2>8. Account(p)'
    <3>1. /\ OwnRefs(p) = 1 /\ OwnRefs(p)' = 0
          /\ CallRefs(p) = 1 /\ CallRefs(p)' = 0
      BY <1>3, <2>1, <2>4, Terms
    <3>2. /\ AnswerRefs(p)' = AnswerRefs(p) /\ HeldRefs(p)' = HeldRefs(p)
          /\ Thens(p)' = Thens(p)
      BY <1>2, <1>3 DEF AnswerRefs, HeldRefs
    <3>3. QED
      BY <1>3, <2>1, <3>1, <3>2, Terms, Accounted DEF Inv, Account
  <2>9. QED
    BY <2>5, <2>6, <2>7, <2>8 DEF Sound
<1>8. QED
  BY <1>3, <1>4, <1>5, <1>6, <1>7, Untouched DEF Inv

\* Only a call's activation is at the places where its function has ended.
LEMMA TopIsCall ==
  ASSUME Inv, NEW i \in Interpreters, stack[i] # <<>>,
         Top(i).pc \in {"locked", "unlocked", "posted"}
  PROVE  Top(i).kind = "call"
<1>1. stack[i] \in Seq(FrameSet) /\ Len(stack[i]) \in 1 .. Len(stack[i])
  BY Stacks DEF Inv
<1>2. Top(i) = stack[i][Len(stack[i])]
  BY DEF Top, Last
<1>3. QED
  BY <1>1, <1>2 DEF Inv, Placed, InPlace

\* The activation on top comes from one place to another.
LEMMA CallMoves ==
  ASSUME Inv, from' = from, to' = to, replies' = replies, exited' = exited,
         unclaimed' = unclaimed, NEW i \in Interpreters,
         stack[i] # <<>>, Top(i).pc \in {"locked", "unlocked"},
         NEW pc \in Pcs \ {"waiting"},
         TopBecomes(i, pc), NEW p, p = Top(i).p
  PROVE  /\ stack' \in [Interpreters -> Seq(FrameSet)] /\ Placed' /\ Emptied'
         /\ p \in Promises /\ Sound(p) /\ i = to[p] /\ call[p] = "running" /\ replies[p]
         /\ \A pcs : Stage(p, pcs) <=> Top(i).pc \in pcs
         /\ \A pcs : Stage(p, pcs)' <=> pc \in pcs
         /\ \A q \in Promises :
              /\ Calls(q)' = Calls(q) /\ Answers(q)' = Answers(q) /\ Thens(q)' = Thens(q)
              /\ Sends(q)' = Sends(q)
              /\ q # p => \A pcs : Stage(q, pcs)' <=> Stage(q, pcs)
<1>1. PICK f : f = Top(i)
  OBVIOUS
<1>2. f.kind = "call"
  BY <1>1, TopIsCall
<1>3. p \in Promises /\ Sound(p)
  <2>1. f \in FrameSet
    BY <1>1, <1>2, AfterTop DEF Inv
  <2>2. QED
    BY <1>1, <2>1, FrameFields DEF Inv
<1>4. /\ i = to[p] /\ call[p] = "running" /\ replies[p]
      /\ \A pcs : Stage(p, pcs) <=> Top(i).pc \in pcs
  BY <1>1, <1>2, <1>3, TopStage DEF Inv, Sound
<1>5. /\ stack' \in [Interpreters -> Seq(FrameSet)]
      /\ \A j \in Interpreters : j # i => stack'[j] = stack[j]
      /\ \A pcs : Stage(p, pcs)' <=> pc \in pcs
      /\ \A q \in Promises :
           /\ Calls(q)' = Calls(q) /\ Answers(q)' = Answers(q) /\ Thens(q)' = Thens(q)
           /\ Sends(q)' = Sends(q)
           /\ q # p => \A pcs : Stage(q, pcs)' <=> Stage(q, pcs)
  BY <1>1, <1>2, <1>3, TopMoves DEF Inv, Sound
<1>6. Placed'
  BY <1>1, <1>2, <1>4, PlacedAfterTop DEF Inv
<1>7. Emptied'
  BY <1>5 DEF Inv, Emptied, Typed
<1>8. QED
  BY <1>3, <1>4, <1>5, <1>6, <1>7

LEMMA LeaveSound ==
  ASSUME Inv, NEW i \in Interpreters, Leave(i)
  PROVE  Inv'
<1>1. PICK p : p = Top(i).p
  OBVIOUS
<1>2. /\ stack[i] # <<>> /\ Top(i).pc = "locked" /\ TopBecomes(i, "unlocked")
      /\ "unlocked" \in Pcs \ {"waiting"}
      /\ from' = from /\ to' = to /\ replies' = replies /\ refs' = refs /\ call' = call
      /\ mState' = mState /\ handlers' = handlers /\ held' = held /\ lost' = lost
      /\ exited' = exited /\ runs' = runs /\ early' = early /\ unclaimed' = unclaimed
      /\ answer' = answer
      /\ mResult' = [mResult EXCEPT ![p] = "ready"]
  BY <1>1 DEF Leave, Pcs
<1>3. /\ stack' \in [Interpreters -> Seq(FrameSet)] /\ Placed' /\ Emptied'
      /\ p \in Promises /\ Sound(p) /\ call[p] = "running"
      /\ \A pcs : Stage(p, pcs) <=> Top(i).pc \in pcs
      /\ \A pcs : Stage(p, pcs)' <=> "unlocked" \in pcs
      /\ \A q \in Promises :
           /\ Calls(q)' = Calls(q) /\ Answers(q)' = Answers(q) /\ Thens(q)' = Thens(q)
           /\ Sends(q)' = Sends(q)
           /\ q # p => \A pcs : Stage(q, pcs)' <=> Stage(q, pcs)
  BY <1>1, <1>2, CallMoves
<1>4. Typed'
  <2>1. mResult' \in [Promises -> {"none", "writing", "ready", "taken"}]
    BY <1>2 DEF Inv, Typed
  <2>2. QED
    BY <1>2, <1>3, <2>1 DEF Inv, Typed
<1>5. ASSUME NEW q \in Promises, q # p
      PROVE  Same(q)
  <2>1. mResult'[q] = mResult[q]
    BY <1>2, <1>5 DEF Inv, Typed
  <2>2. QED
    BY <1>2, <1>3, <1>5, <2>1 DEF Same
<1>6. Sound(p)'
  <2>1. ~Unanswered(p)' /\ Answering(p) /\ Answering(p)' /\ ~Stage(p, {"locked"})'
    BY <1>2, <1>3 DEF Unanswered, Answering
  <2>2. /\ mState[p] # {} /\ answer[p] = "none" /\ p \notin lost
        /\ Thens(p) = {} /\ Answers(p) = {}
    BY <1>2, <1>3, <2>1 DEF Sound, Phased
  <2>3. mResult'[p] = "ready"
    BY <1>2, <1>3 DEF Inv, Typed
  <2>4. Framed(p)' /\ Left(p)' /\ Ran(p)'
    BY <1>2, <1>3 DEF Sound, Framed, Left, Ran
  <2>5. Phased(p)'
    BY <1>2, <1>3, <2>1, <2>2, <2>3 DEF Phased
  <2>6. OwnRef(p) /\ OwnRef(p)'
    BY <2>1 DEF OwnRef
  <2>7. Sending(p)'
    BY <1>2, <1>3, <2>6 DEF Sound, Sending
  <2>8. Account(p)'
    <3>1. OwnRefs(p) = 1 /\ OwnRefs(p)' = 1
      BY <1>3, <2>6, Terms
    <3>2. /\ AnswerRefs(p)' = AnswerRefs(p) /\ HeldRefs(p)' = HeldRefs(p)
          /\ CallRefs(p)' = CallRefs(p) /\ Thens(p)' = Thens(p)
      BY <1>2, <1>3 DEF AnswerRefs, HeldRefs, CallRefs
    <3>3. QED
      BY <1>2, <1>3, <3>1, <3>2, Terms, Accounted DEF Inv, Account
  <2>9. QED
    BY <2>4, <2>5, <2>7, <2>8 DEF Sound
<1>7. QED
  BY <1>3, <1>4, <1>5, <1>6, Untouched DEF Inv

LEMMA PostAnswerSound ==
  ASSUME Inv, NEW i \in Interpreters, PostAnswer(i)
  PROVE  Inv'
<1>1. PICK p : p = Top(i).p
  OBVIOUS
<1>2. /\ stack[i] # <<>> /\ Top(i).pc = "unlocked" /\ TopBecomes(i, "posted")
      /\ "posted" \in Pcs \ {"waiting"}
      /\ from' = from /\ to' = to /\ replies' = replies /\ call' = call
      /\ mState' = mState /\ handlers' = handlers /\ held' = held /\ lost' = lost
      /\ exited' = exited /\ runs' = runs /\ early' = early /\ unclaimed' = unclaimed
      /\ \/ /\ from[p] \in exited
            /\ mResult' = [mResult EXCEPT ![p] = "none"]
            /\ refs' = [refs EXCEPT ![p] = @ - 1] /\ answer' = answer
         \/ /\ from[p] \notin exited
            /\ answer' = [answer EXCEPT ![p] = "posted"]
            /\ refs' = refs /\ mResult' = mResult
  BY <1>1 DEF PostAnswer, Released, Pcs
<1>3. /\ stack' \in [Interpreters -> Seq(FrameSet)] /\ Placed' /\ Emptied'
      /\ p \in Promises /\ Sound(p) /\ call[p] = "running"
      /\ \A pcs : Stage(p, pcs) <=> Top(i).pc \in pcs
      /\ \A pcs : Stage(p, pcs)' <=> "posted" \in pcs
      /\ \A q \in Promises :
           /\ Calls(q)' = Calls(q) /\ Answers(q)' = Answers(q) /\ Thens(q)' = Thens(q)
           /\ Sends(q)' = Sends(q)
           /\ q # p => \A pcs : Stage(q, pcs)' <=> Stage(q, pcs)
  BY <1>1, <1>2, CallMoves
<1>4. Typed'
  <2>1. mResult' \in [Promises -> {"none", "writing", "ready", "taken"}]
    BY <1>2 DEF Inv, Typed
  <2>2. refs' \in [Promises -> Int]
    BY <1>2, <1>3 DEF Inv, Typed
  <2>3. answer' \in [Promises -> {"none", "posted", "timer", "running"}]
    BY <1>2 DEF Inv, Typed
  <2>4. QED
    BY <1>2, <1>3, <2>1, <2>2, <2>3 DEF Inv, Typed
<1>5. ASSUME NEW q \in Promises, q # p
      PROVE  Same(q)
  <2>1. mResult'[q] = mResult[q] /\ refs'[q] = refs[q] /\ answer'[q] = answer[q]
    BY <1>2, <1>5 DEF Inv, Typed
  <2>2. QED
    BY <1>2, <1>3, <1>5, <2>1 DEF Same
<1>6. Sound(p)'
  <2>1. ~Unanswered(p)' /\ Answering(p) /\ ~Answering(p)' /\ ~Stage(p, {"locked"})'
    BY <1>2, <1>3 DEF Unanswered, Answering
  <2>2. mState[p] # {} /\ answer[p] = "none" /\ p \notin lost /\ Answers(p) = {}
    BY <1>3, <2>1 DEF Sound, Phased, Framed
  <2>3. HeldRefs(p)' = HeldRefs(p) /\ CallRefs(p)' = CallRefs(p) /\ Thens(p)' = Thens(p)
    BY <1>2, <1>3 DEF HeldRefs, CallRefs
  <2>4. OwnRefs(p) = 1 /\ AnswerRefs(p) = 0
    BY <1>3, <2>1, <2>2, Terms DEF OwnRef
  <2>5. ~Stage(p, {"locked"})
    BY <1>2, <1>3
  <2>6. CASE from[p] \in exited
    <3>1. Thens(p) = {} /\ Sends(p) = {}
      <4>1. stack[from[p]] = <<>>
        BY <2>6 DEF Inv, Emptied
      <4>2. QED
        BY <4>1 DEF Thens, Sends, On
    <3>2. refs'[p] = refs[p] - 1 /\ answer' = answer
      BY <1>2, <1>3, <2>6 DEF Inv, Typed
    <3>3. Framed(p)' /\ Left(p)' /\ Ran(p)'
      BY <1>2, <1>3, <3>2 DEF Sound, Framed, Left, Ran
    <3>4. Phased(p)'
      BY <1>2, <1>3, <2>1, <2>2, <2>6, <3>1, <3>2 DEF Phased
    <3>5. Sending(p)'
      BY <1>3, <3>1 DEF Sending
    <3>6. Account(p)'
      <4>1. OwnRefs(p)' = 0 /\ AnswerRefs(p)' = 0
        BY <1>2, <1>3, <2>1, <2>2, <3>2, Terms DEF OwnRef
      <4>2. QED
        BY <1>3, <2>3, <2>4, <3>2, <4>1, Terms, Accounted DEF Inv, Account
    <3>7. QED
      BY <3>3, <3>4, <3>5, <3>6 DEF Sound
  <2>7. CASE from[p] \notin exited
    <3>1. answer'[p] = "posted" /\ refs' = refs /\ mResult' = mResult
      BY <1>2, <1>3, <2>7 DEF Inv, Typed
    <3>2. mResult[p] \in {"ready", "taken"}
      BY <1>3, <2>2, <2>5, <2>7 DEF Sound, Phased
    <3>3. Framed(p)' /\ Left(p)' /\ Ran(p)'
      BY <1>2, <1>3, <2>2, <2>7, <3>1 DEF Sound, Framed, Left, Ran
    <3>4. Phased(p)'
      BY <1>2, <1>3, <2>1, <2>2, <2>5, <3>1, <3>2 DEF Sound, Phased
    <3>5. OwnRef(p)'
      BY <3>1 DEF OwnRef
    <3>6. Sending(p)'
      BY <1>2, <1>3, <3>1, <3>5 DEF Sound, Sending
    <3>7. Account(p)'
      <4>1. OwnRefs(p)' = 1 /\ AnswerRefs(p)' = 0
        BY <1>3, <3>1, <3>5, Terms
      <4>2. QED
        BY <1>3, <2>3, <2>4, <3>1, <4>1, Terms, Accounted DEF Inv, Account
    <3>8. QED
      BY <3>3, <3>4, <3>6, <3>7 DEF Sound
  <2>8. QED
    BY <2>6, <2>7
<1>7. QED
  BY <1>3, <1>4, <1>5, <1>6, Untouched DEF Inv

LEMMA CallEndsSound ==
  ASSUME Inv, NEW i \in Interpreters, CallEnds(i)
  PROVE  Inv'
<1>1. PICK p : p = Top(i).p
  OBVIOUS
<1>2. /\ stack[i] # <<>> /\ Top(i).pc = "posted" /\ Popped(i)
      /\ from' = from /\ to' = to /\ replies' = replies
      /\ mState' = mState /\ mResult' = mResult
      /\ handlers' = handlers /\ held' = held /\ lost' = lost /\ exited' = exited
      /\ runs' = runs /\ early' = early /\ unclaimed' = unclaimed /\ answer' = answer
      /\ refs' = [refs EXCEPT ![p] = @ - 1]
      /\ call' = [call EXCEPT ![p] = "none"]
  BY <1>1 DEF CallEnds, Released
<1>3. Top(i).kind = "call"
  BY <1>2, TopIsCall
<1>4. /\ stack' \in [Interpreters -> Seq(FrameSet)]
      /\ \A j \in Interpreters : j # i => stack'[j] = stack[j]
      /\ p \in Promises /\ Sound(p) /\ i = to[p] /\ call[p] = "running"
      /\ \A pcs : Stage(p, pcs) <=> Top(i).pc \in pcs
      /\ Calls(p)' = {} /\ \A pcs : ~Stage(p, pcs)'
      /\ \A q \in Promises :
           /\ Answers(q)' = Answers(q) /\ Thens(q)' = Thens(q) /\ Sends(q)' = Sends(q)
           /\ q # p => /\ Calls(q)' = Calls(q)
                       /\ \A pcs : Stage(q, pcs)' <=> Stage(q, pcs)
  BY <1>1, <1>2, <1>3, CallPops
<1>5. Typed'
  <2>1. refs' \in [Promises -> Int]
    BY <1>2, <1>4 DEF Inv, Typed
  <2>2. call' \in [Promises -> {"none", "sent", "posted", "timer", "running", "refused"}]
    BY <1>2 DEF Inv, Typed
  <2>3. QED
    BY <1>2, <1>4, <2>1, <2>2 DEF Inv, Typed
<1>6. Placed'
  BY <1>2, PlacedAfterPop DEF Inv
<1>7. Emptied'
  BY <1>2, <1>4 DEF Inv, Typed, Emptied
<1>8. ASSUME NEW q \in Promises, q # p
      PROVE  Same(q)
  <2>1. refs'[q] = refs[q] /\ call'[q] = call[q]
    BY <1>2, <1>8 DEF Inv, Typed
  <2>2. QED
    BY <1>2, <1>4, <1>8, <2>1 DEF Same
<1>9. Sound(p)'
  <2>1. refs'[p] = refs[p] - 1 /\ call'[p] = "none"
    BY <1>2, <1>4 DEF Inv, Typed
  <2>2. /\ ~Unanswered(p) /\ ~Unanswered(p)' /\ ~Answering(p) /\ ~Answering(p)'
        /\ ~Stage(p, {"locked"})
    BY <1>2, <1>4, <2>1 DEF Unanswered, Answering
  <2>3. OwnRef(p)' <=> OwnRef(p)
    BY <1>2, <2>2 DEF OwnRef
  <2>4. Framed(p)' /\ Left(p)' /\ Ran(p)'
    BY <1>2, <1>4, <2>1 DEF Sound, Framed, Left, Ran
  <2>5. Phased(p)'
    BY <1>2, <1>4, <2>2 DEF Sound, Phased
  <2>6. Sending(p)'
    BY <1>2, <1>4, <2>3 DEF Sound, Sending
  <2>7. Account(p)'
    <3>1. CallRefs(p) = 1 /\ CallRefs(p)' = 0
      BY <1>4, <2>1, Terms
    <3>2. /\ AnswerRefs(p)' = AnswerRefs(p) /\ HeldRefs(p)' = HeldRefs(p)
          /\ OwnRefs(p)' = OwnRefs(p) /\ Thens(p)' = Thens(p)
      BY <1>2, <1>4, <2>3 DEF AnswerRefs, HeldRefs, OwnRefs
    <3>3. QED
      BY <1>4, <2>1, <3>1, <3>2, Terms, Accounted DEF Inv, Account
  <2>8. QED
    BY <2>4, <2>5, <2>6, <2>7 DEF Sound
<1>10. QED
  BY <1>4, <1>5, <1>6, <1>7, <1>8, <1>9, Untouched DEF Inv

----------------------------------------------------------------------------
(* An interpreter exits *)

LEMMA ExitSound ==
  ASSUME Inv, NEW i \in Interpreters, Exit(i)
  PROVE  Inv'
<1> DEFINE TimerOf(p) == \/ to[p] = i /\ call[p] = "timer"
                         \/ from[p] = i /\ answer[p] = "timer"
           MessageOf(p) == \/ to[p] = i /\ call[p] = "posted"
                           \/ from[p] = i /\ answer[p] = "posted"
           OneIf(b) == IF b THEN 1 ELSE 0
<1>1. /\ i \in Interpreters \ exited /\ stack[i] = <<>>
      /\ from' = from /\ to' = to /\ replies' = replies /\ mState' = mState
      /\ mResult' = mResult /\ handlers' = handlers /\ stack' = stack
      /\ unclaimed' = unclaimed /\ runs' = runs /\ early' = early
      /\ exited' = exited \cup {i}
  BY DEF Exit
<1>2. /\ held' = held \ {p \in held : from[p] = i}
      /\ lost' = lost \cup {p \in Promises : TimerOf(p)} \cup {p \in Promises : MessageOf(p)}
      /\ call' = [p \in Promises |->
           IF to[p] = i /\ call[p] = "sent" THEN "refused"
           ELSE IF to[p] = i THEN "none" ELSE call[p]]
      /\ answer' = [p \in Promises |-> IF from[p] = i THEN "none" ELSE answer[p]]
  BY DEF Exit
<1>3. refs' = [p \in Promises |->
                 refs[p] - (IF p \in {q \in Promises : TimerOf(q)} THEN 1 ELSE 0)
                         - (IF p \in {q \in held : from[q] = i} THEN 1 ELSE 0)]
  BY DEF Exit
<1>4. \A p \in Promises :
        /\ Calls(p)' = Calls(p) /\ Answers(p)' = Answers(p) /\ Thens(p)' = Thens(p)
        /\ Sends(p)' = Sends(p)
        /\ \A pcs : Stage(p, pcs)' <=> Stage(p, pcs)
  BY <1>1, StackKept
<1>5. Typed'
  <2>1. refs' \in [Promises -> Int]
    <3>1. \A p \in Promises : refs[p] \in Int
      BY DEF Inv, Typed
    <3>2. \A p \in Promises :
            refs[p] - (IF p \in {q \in Promises : TimerOf(q)} THEN 1 ELSE 0)
                    - (IF p \in {q \in held : from[q] = i} THEN 1 ELSE 0) \in Int
      BY <3>1
    <3>3. QED
      BY <1>3, <3>2
  <2>2. call' \in [Promises -> {"none", "sent", "posted", "timer", "running", "refused"}]
    BY <1>2 DEF Inv, Typed
  <2>3. answer' \in [Promises -> {"none", "posted", "timer", "running"}]
    BY <1>2 DEF Inv, Typed
  <2>4. held' \subseteq Promises /\ lost' \subseteq Promises /\ exited' \subseteq Interpreters
    BY <1>1, <1>2 DEF Inv, Typed
  <2>5. QED
    BY <1>1, <2>1, <2>2, <2>3, <2>4 DEF Inv, Typed
<1>6. Placed'
  BY <1>1, PlacedKept DEF Inv
<1>7. Emptied'
  BY <1>1 DEF Inv, Emptied
<1>8. ASSUME NEW p \in Promises
      PROVE  Sound(p)'
  <2>1. Sound(p) /\ from[p] \in Interpreters /\ to[p] \in Interpreters
    BY DEF Inv, Typed
  <2>2. /\ call'[p] = IF to[p] = i /\ call[p] = "sent" THEN "refused"
                      ELSE IF to[p] = i THEN "none" ELSE call[p]
        /\ answer'[p] = IF from[p] = i THEN "none" ELSE answer[p]
        /\ p \in held' <=> p \in held /\ from[p] # i
        /\ p \in lost' <=> p \in lost \/ TimerOf(p) \/ MessageOf(p)
    BY <1>2
  <2>3. /\ to[p] = i => Calls(p) = {} /\ \A pcs : ~Stage(p, pcs)
        /\ from[p] = i => Answers(p) = {} /\ Thens(p) = {}
    <3>1. Len(stack[i]) = 0
      BY <1>1
    <3>2. \A kind : On(i, kind, p) = {}
      BY <3>1 DEF On
    <3>3. QED
      BY <3>2 DEF Calls, Answers, Thens, Stage
  <2>4. /\ to[p] = i => call[p] \in {"none", "sent", "posted", "timer"}
        /\ from[p] = i => answer[p] \in {"none", "posted", "timer"}
    <3>1. to[p] = i => call[p] # "running" /\ call[p] # "refused"
      BY <1>1, <2>1, <2>3 DEF Sound, Framed, Left
    <3>2. from[p] = i => answer[p] # "running"
      BY <2>1, <2>3 DEF Sound, Framed
    <3>3. QED
      BY <3>1, <3>2 DEF Inv, Typed
  <2>5. call[p] \in {"sent", "posted", "timer"} => Unanswered(p) /\ answer[p] = "none"
    BY <2>1 DEF Unanswered, Sound, Phased
  <2>6. Answering(p)' <=> Answering(p)
    BY <1>4 DEF Answering
  <2>7. Answering(p) => call[p] = "running" /\ answer[p] = "none" /\ to[p] # i
    <3>1. call[p] # "running" => \A pcs : ~Stage(p, pcs)
      BY <2>1, OneStage DEF Inv, Sound
    <3>2. QED
      BY <2>1, <2>3, <3>1 DEF Answering, Sound, Phased
  <2>8. Unanswered(p)' => Unanswered(p) /\ p \notin lost'
    <3>1. Unanswered(p)' => Unanswered(p)
      BY <1>4, <2>2 DEF Unanswered
    <3>2. Unanswered(p) => answer[p] = "none" /\ p \notin lost
      BY <2>1 DEF Sound, Phased
    <3>3. Unanswered(p)' /\ to[p] = i => call[p] = "sent"
      BY <1>4, <2>2, <2>3 DEF Unanswered
    <3>4. QED
      BY <2>2, <3>1, <3>2, <3>3
  <2>9. OwnRef(p)' <=> OwnRef(p)
    <3>1. Unanswered(p) => Unanswered(p)' \/ p \in lost'
      <4>1. CASE to[p] = i
        BY <1>4, <2>2, <2>3, <2>4, <4>1 DEF Unanswered
      <4>2. CASE to[p] # i
        BY <1>4, <2>2, <4>2 DEF Unanswered
      <4>3. QED
        BY <4>1, <4>2
    <3>2. answer[p] # "none" => answer'[p] # "none" \/ p \in lost'
      BY <2>2, <2>4
    <3>3. answer'[p] # "none" => answer[p] # "none"
      BY <2>2
    <3>4. p \in lost' => p \in lost \/ answer[p] # "none" \/ Unanswered(p)
      BY <2>2, <2>5
    <3>5. p \in lost => p \in lost'
      BY <2>2
    <3>6. QED
      BY <2>6, <2>8, <3>1, <3>2, <3>3, <3>4, <3>5 DEF OwnRef
  <2>10. Framed(p)'
    <3>1. /\ call'[p] = "running" => call[p] = "running"
          /\ call[p] = "running" => call'[p] = "running"
      BY <2>2, <2>4
    <3>2. /\ answer'[p] = "running" => answer[p] = "running"
          /\ answer[p] = "running" => answer'[p] = "running"
      BY <2>2, <2>4
    <3>3. QED
      BY <1>4, <2>1, <3>1, <3>2 DEF Sound, Framed
  <2>11. Phased(p)'
    <3>1. /\ Unanswered(p)' => mState[p] = {} /\ answer'[p] = "none" /\ p \notin lost'
          /\ Answering(p)' => mState[p] # {} /\ answer'[p] = "none" /\ p \notin lost'
          /\ answer'[p] # "none" => mState[p] # {} /\ p \notin lost'
      <4>1. Unanswered(p)' => mState[p] = {} /\ answer'[p] = "none" /\ p \notin lost'
        BY <2>1, <2>2, <2>8 DEF Sound, Phased
      <4>2. Answering(p)' => mState[p] # {} /\ answer'[p] = "none" /\ p \notin lost'
        BY <2>1, <2>2, <2>6, <2>7 DEF Sound, Phased
      <4>3. answer'[p] # "none" => mState[p] # {} /\ p \notin lost'
        BY <2>1, <2>2, <2>5 DEF Sound, Phased
      <4>4. QED
        BY <4>1, <4>2, <4>3
    <3>2. from'[p] \notin exited' => from[p] \notin exited
      BY <1>1
    <3>3. QED
      BY <1>1, <1>4, <2>1, <3>1, <3>2 DEF Sound, Phased
  <2>12. Left(p)'
    <3>1. from[p] \in exited' => p \notin held' /\ answer'[p] = "none"
      BY <1>1, <2>1, <2>2 DEF Sound, Left
    <3>2. to[p] \in exited' => call'[p] \in {"none", "refused"}
      BY <1>1, <2>1, <2>2 DEF Sound, Left
    <3>3. call'[p] = "refused" => to[p] \in exited'
      BY <1>1, <2>1, <2>2 DEF Sound, Left
    <3>4. QED
      BY <1>1, <3>1, <3>2, <3>3 DEF Left
  <2>13. Sending(p)'
    BY <1>1, <1>4, <2>1, <2>2, <2>9 DEF Sound, Sending
  <2>14. Account(p)'
    <3>1. OwnRefs(p)' = OwnRefs(p) /\ Thens(p)' = Thens(p)
      BY <1>4, <2>9 DEF OwnRefs
    <3>2. PICK t \in {0, 1}, m \in {0, 1} :
            /\ t = 1 <=> TimerOf(p)
            /\ m = 1 <=> p \in held /\ from[p] = i
            /\ refs'[p] = refs[p] - t - m
      <4>1. PICK t \in {0, 1}, m \in {0, 1} :
              /\ t = IF TimerOf(p) THEN 1 ELSE 0
              /\ m = IF p \in held /\ from[p] = i THEN 1 ELSE 0
        OBVIOUS
      <4>2. refs'[p] = refs[p] - t - m
        BY <1>3, <4>1
      <4>3. QED
        BY <4>1, <4>2
    <3>3. HeldRefs(p)' = HeldRefs(p) - m
      <4>1. m = 1 => HeldRefs(p) = 1 /\ HeldRefs(p)' = 0
        BY <2>2, <3>2, Terms
      <4>2. m = 0 => HeldRefs(p)' = HeldRefs(p)
        BY <2>2, <3>2 DEF HeldRefs
      <4>3. QED
        BY <3>2, <4>1, <4>2, Terms
    <3>4. CallRefs(p)' + AnswerRefs(p)' = CallRefs(p) + AnswerRefs(p) - t
      <4>1. CASE t = 0
        <5>1. /\ call[p] \in {"timer", "running"} <=> call'[p] \in {"timer", "running"}
              /\ answer[p] \in {"timer", "running"} <=> answer'[p] \in {"timer", "running"}
          BY <2>2, <2>4, <3>2, <4>1
        <5>2. CallRefs(p)' = CallRefs(p) /\ AnswerRefs(p)' = AnswerRefs(p)
          BY <5>1 DEF CallRefs, AnswerRefs
        <5>3. QED
          BY <4>1, <5>2, Terms
      <4>2. CASE t = 1 /\ to[p] = i /\ call[p] = "timer"
        <5>1. answer[p] = "none" /\ answer'[p] = "none" /\ call'[p] = "none"
          BY <2>2, <2>5, <4>2
        <5>2. CallRefs(p) = 1 /\ CallRefs(p)' = 0 /\ AnswerRefs(p) = 0 /\ AnswerRefs(p)' = 0
          BY <4>2, <5>1, Terms
        <5>3. QED
          BY <4>2, <5>2
      <4>3. CASE t = 1 /\ from[p] = i /\ answer[p] = "timer"
        <5>1. answer'[p] = "none" /\ call[p] \notin {"sent", "posted", "timer"}
          BY <2>2, <2>5, <4>3
        <5>2. call[p] \in {"timer", "running"} <=> call'[p] \in {"timer", "running"}
          BY <2>2, <2>4, <5>1
        <5>3. CallRefs(p)' = CallRefs(p)
          BY <5>2 DEF CallRefs
        <5>4. AnswerRefs(p) = 1 /\ AnswerRefs(p)' = 0
          BY <4>3, <5>1, Terms
        <5>5. QED
          BY <4>3, <5>3, <5>4, Terms
      <4>4. QED
        BY <3>2, <4>1, <4>2, <4>3
    <3>5. refs'[p] = refs[p] - t - m
      BY <3>2
    <3>6. t \in Int /\ m \in Int
      OBVIOUS
    <3>7. refs'[p] = HeldRefs(p)' + OwnRefs(p)' + CallRefs(p)' + AnswerRefs(p)'
                     + Cardinality(Thens(p)')
      BY <2>1, <3>1, <3>3, <3>4, <3>5, <3>6, Terms, Accounted DEF Inv
    <3>8. QED
      BY <3>7 DEF Account
  <2>15. Ran(p)'
    BY <1>1, <2>1, <2>2 DEF Sound, Ran
  <2>16. QED
    BY <2>10, <2>11, <2>12, <2>13, <2>14, <2>15 DEF Sound
<1>9. QED
  BY <1>5, <1>6, <1>7, <1>8 DEF Inv

----------------------------------------------------------------------------
(* The theorems *)

LEMMA InitInv == Init => Inv
<1> SUFFICES ASSUME Init PROVE Inv
  OBVIOUS
<1>2. PICK parties \in Parties : /\ from = [p \in Promises |-> parties[p][1]]
                                 /\ to = [p \in Promises |-> parties[p][2]]
  BY DEF Init
<1>3. parties \in [Promises -> Interpreters \X Interpreters]
  BY PromisesAssumption
<1>4. /\ from \in [Promises -> Interpreters] /\ to \in [Promises -> Interpreters]
  BY <1>2, <1>3
<1>5. Typed
  <2>1. /\ refs \in [Promises -> Int] /\ runs \in [Promises -> Nat]
        /\ mResult \in [Promises -> {"none", "writing", "ready", "taken"}]
        /\ call \in [Promises -> {"none", "sent", "posted", "timer", "running", "refused"}]
        /\ answer \in [Promises -> {"none", "posted", "timer", "running"}]
    BY DEF Init
  <2>2. replies \in [Promises -> BOOLEAN] /\ early \in [Promises -> BOOLEAN]
    BY DEF Init
  <2>3. /\ mState \in [Promises -> SUBSET {"done", "failed", "called"}]
        /\ handlers \in [Promises -> SUBSET {"done", "failed"}]
    BY DEF Init
  <2>4. stack \in [Interpreters -> Seq(FrameSet)]
    BY DEF Init
  <2>5. /\ held \subseteq Promises /\ exited \subseteq Interpreters /\ lost \subseteq Promises
        /\ unclaimed \subseteq Promises
    BY DEF Init
  <2>6. QED
    BY <1>4, <2>1, <2>2, <2>3, <2>4, <2>5 DEF Typed
<1>6. \A i \in Interpreters : stack[i] = <<>> /\ Len(stack[i]) = 0
  BY DEF Init
<1>7. Placed /\ Emptied
  BY <1>6 DEF Placed, Emptied, Init
<1>8. ASSUME NEW p \in Promises
      PROVE  Sound(p)
  <2>1. Calls(p) = {} /\ Answers(p) = {} /\ Thens(p) = {} /\ Sends(p) = {}
    BY <1>4, <1>6 DEF Calls, Answers, Thens, Sends, On
  <2>2. \A pcs : ~Stage(p, pcs)
    BY <2>1 DEF Stage
  <2>3. /\ call[p] = "none" /\ answer[p] = "none" /\ p \notin held /\ p \notin lost
        /\ refs[p] = 0 /\ mState[p] = {} /\ runs[p] = 0 /\ exited = {}
    BY DEF Init
  <2>4. ~Unanswered(p) /\ ~Answering(p) /\ ~OwnRef(p)
    BY <2>2, <2>3 DEF Unanswered, Answering, OwnRef
  <2>5. Framed(p) /\ Left(p) /\ Ran(p)
    BY <2>1, <2>3 DEF Framed, Left, Ran
  <2>6. Phased(p)
    BY <2>1, <2>2, <2>3, <2>4 DEF Phased
  <2>7. Sending(p)
    BY <2>1 DEF Sending
  <2>8. Account(p)
    <3>1. Cardinality(Thens(p)) = 0
      BY <2>1, FS_EmptySet
    <3>2. HeldRefs(p) = 0 /\ OwnRefs(p) = 0 /\ CallRefs(p) = 0 /\ AnswerRefs(p) = 0
      BY <2>3, <2>4, Terms
    <3>3. QED
      BY <2>3, <3>1, <3>2 DEF Account
  <2>9. QED
    BY <2>5, <2>6, <2>7, <2>8 DEF Sound
<1>9. QED
  BY <1>5, <1>7, <1>8 DEF Inv

LEMMA NextInv == Inv /\ [Next]_vars => Inv'
<1> SUFFICES ASSUME Inv, [Next]_vars PROVE Inv'
  OBVIOUS
<1>1. CASE UNCHANGED vars
  <2>1. Typed' /\ Placed' /\ Emptied'
    BY <1>1 DEF Inv, Typed, Placed, InPlace, Emptied, vars
  <2>2. stack' = stack /\ from' = from /\ to' = to
    BY <1>1 DEF vars
  <2>3. \A q \in Promises : Same(q)
    BY <1>1, <2>2, StackKept DEF Same, vars
  <2>4. QED
    BY <2>1, <2>3, Untouched DEF Inv
<1>2. ASSUME NEW p \in Promises, AsyncCall(p)
      PROVE  Inv'
  BY <1>2, NewSound DEF AsyncCall
<1>3. ASSUME NEW p \in Promises, PostFunction(p)
      PROVE  Inv'
  BY <1>3, NewSound DEF PostFunction
<1>4. ASSUME NEW p \in Promises, NEW way \in {"done", "failed"}, Then(p, way)
      PROVE  Inv'
  BY <1>4, ThenSets, ThenRuns
<1>5. ASSUME NEW p \in Promises, Discard(p)
      PROVE  Inv'
  BY <1>5, DiscardSound
<1>6. ASSUME NEW p \in Promises, TakeCall(p)
      PROVE  Inv'
  BY <1>6, TakeCallSound
<1>7. ASSUME NEW p \in Promises, CallTimer(p)
      PROVE  Inv'
  BY <1>7, CallTimerSound
<1>8. ASSUME NEW p \in Promises, TakeAnswer(p)
      PROVE  Inv'
  BY <1>8, TakeAnswerSound
<1>9. ASSUME NEW p \in Promises, AnswerTimer(p)
      PROVE  Inv'
  BY <1>9, AnswerTimerWithout, AnswerTimerRuns
<1>10. ASSUME NEW i \in Interpreters, SendReturns(i)
       PROVE  Inv'
  BY <1>10, SendReturnsSound
<1>11. ASSUME NEW i \in Interpreters, HandlerReturns(i)
       PROVE  Inv'
  <2>1. Top(i).kind = "answer" \/ Top(i).kind = "then"
    BY <1>11 DEF HandlerReturns
  <2>2. QED
    BY <1>11, <2>1, AnswerReturns, ThenReturns
<1>12. ASSUME NEW i \in Interpreters, Straight(i)
       PROVE  Inv'
  BY <1>12, LeaveSound, PostAnswerSound, CallEndsSound DEF Straight
<1>13. ASSUME NEW i \in Interpreters, Exit(i)
       PROVE  Inv'
  BY <1>13, ExitSound
<1>14. ASSUME NEW i \in Interpreters, NEW way \in {"done", "failed"}, FunctionEnds(i, way)
       PROVE  Inv'
  BY <1>14, FunctionEndsWithReply, FunctionEndsWithout
<1>15. ASSUME NEW i \in Interpreters, ScriptRuns(i)
       PROVE  Inv'
  BY <1>15, ScriptRunsSound
<1>16. QED
  BY <1>1, <1>2, <1>3, <1>4, <1>5, <1>6, <1>7, <1>8, <1>9, <1>10, <1>11, <1>12, <1>13,
     <1>14, <1>15 DEF Next

LEMMA Invariance == Spec => []Inv
<1>1. Init => Inv
  BY InitInv
<1>2. Inv /\ [Next]_vars => Inv'
  BY NextInv
<1>3. QED
  BY <1>1, <1>2, PTL DEF Spec

\* What an activation of a promise is counted as.
LEMMA Activation ==
  ASSUME Inv, NEW i \in Interpreters, NEW n \in 1 .. Len(stack[i]),
         NEW p, p = stack[i][n].p
  PROVE  /\ p \in Promises
         /\ \/ stack[i][n].kind = "call" /\ call[p] = "running"
            \/ stack[i][n].kind = "answer" /\ answer[p] = "running" /\ n \in Answers(p)
            \/ stack[i][n].kind = "then" /\ n \in Thens(p)
            \/ stack[i][n].kind = "send" /\ n \in Sends(p)
<1>1. PICK f \in FrameSet : f = stack[i][n]
  BY Stacks DEF Inv
<1>2. p = f.p /\ p \in Promises /\ f.kind \in {"call", "answer", "then", "send"}
  BY <1>1, FrameFields
<1>3. i = IF f.kind = "call" THEN to[p] ELSE from[p]
  BY <1>1, <1>2 DEF Inv, Placed, InPlace
<1>4. Framed(p)
  BY <1>2 DEF Inv, Sound
<1>5. CASE f.kind = "call"
  <2>1. n \in Calls(p)
    BY <1>1, <1>2, <1>3, <1>5 DEF Calls, On
  <2>2. QED
    BY <1>1, <1>2, <1>4, <1>5, <2>1 DEF Framed
<1>6. CASE f.kind = "answer"
  <2>1. n \in Answers(p)
    BY <1>1, <1>2, <1>3, <1>6 DEF Answers, On
  <2>2. QED
    BY <1>1, <1>2, <1>4, <1>6, <2>1 DEF Framed
<1>7. CASE f.kind = "then"
  <2>1. n \in Thens(p)
    BY <1>1, <1>2, <1>3, <1>7 DEF Thens, On
  <2>2. QED
    BY <1>1, <1>2, <1>7, <2>1
<1>8. CASE f.kind = "send"
  <2>1. n \in Sends(p)
    BY <1>1, <1>2, <1>3, <1>8 DEF Sends, On
  <2>2. QED
    BY <1>1, <1>2, <1>8, <2>1
<1>9. QED
  BY <1>2, <1>5, <1>6, <1>7, <1>8

\* Every set of positions that is not empty counts.
LEMMA ThensCount ==
  ASSUME Typed, NEW p \in Promises, Thens(p) # {}
  PROVE  Cardinality(Thens(p)) >= 1
<1>1. PICK S : S = Thens(p) /\ IsFiniteSet(S) /\ Cardinality(S) \in Nat
  BY ThensFinite
<1>2. Cardinality(S) # 0
  BY <1>1, FS_EmptySet
<1>3. QED
  BY <1>1, <1>2

LEMMA InvReferences == Inv => ReferencesSound
<1> SUFFICES ASSUME Inv, NEW p \in Promises
             PROVE  /\ Used(p) => refs[p] > 0
                    /\ ~Used(p) /\ p \notin lost => refs[p] = 0
  BY DEF ReferencesSound
<1>1. Typed /\ Sound(p)
  BY DEF Inv
<1>2. /\ refs[p] = HeldRefs(p) + OwnRefs(p) + CallRefs(p) + AnswerRefs(p)
                   + Cardinality(Thens(p))
      /\ refs[p] \in Int /\ Cardinality(Thens(p)) \in Nat
  BY <1>1, Accounted
<1>3. ASSUME Used(p)
      PROVE  p \in held \/ OwnRef(p) \/ call[p] \in {"timer", "running"} \/ Thens(p) # {}
  <2>1. CASE p \in held
    BY <2>1
  <2>2. CASE call[p] # "none"
    BY <1>1, <2>2 DEF Typed, OwnRef, Unanswered
  <2>3. CASE answer[p] # "none"
    BY <2>3 DEF OwnRef
  <2>4. CASE \E i \in Interpreters : \E n \in DOMAIN stack[i] : Uses(stack[i][n], p)
    <3>0. PICK i \in Interpreters : \E n \in DOMAIN stack[i] : Uses(stack[i][n], p)
      BY <2>4
    <3>1. PICK n \in DOMAIN stack[i] : Uses(stack[i][n], p)
      BY <3>0
    <3>2. n \in 1 .. Len(stack[i]) /\ p = stack[i][n].p
      BY <1>1, <3>1, Stacks DEF Uses
    <3>3. \/ stack[i][n].kind = "call" /\ call[p] = "running"
          \/ stack[i][n].kind = "answer" /\ answer[p] = "running"
          \/ stack[i][n].kind = "then" /\ Thens(p) # {}
          \/ stack[i][n].kind = "send" /\ Sends(p) # {}
      BY <3>2, Activation
    <3>4. stack[i][n].kind = "send" => p \notin unclaimed
      BY <3>1 DEF Uses
    <3>5. Sends(p) # {} /\ p \notin unclaimed => OwnRef(p)
      BY <1>1 DEF Sound, Sending
    <3>6. QED
      BY <3>3, <3>4, <3>5 DEF OwnRef
  <2>5. QED
    BY <1>3, <2>1, <2>2, <2>3, <2>4 DEF Used
<1>4. Used(p) => refs[p] > 0
  BY <1>1, <1>2, <1>3, Terms, ThensCount
<1>5. ASSUME ~Used(p), p \notin lost
      PROVE  refs[p] = 0
  <2>1. p \notin held /\ call[p] = "none" /\ answer[p] = "none"
    BY <1>5 DEF Used
  <2>2. Thens(p) = {}
    <3>1. from[p] \in Interpreters /\ stack[from[p]] \in Seq(FrameSet)
      BY <1>1, Stacks DEF Typed
    <3>2. \A n \in DOMAIN stack[from[p]] : ~Uses(stack[from[p]][n], p)
      BY <1>5, <3>1 DEF Used
    <3>3. QED
      BY <3>1, <3>2 DEF Thens, On, Uses
  <2>3. \A pcs : ~Stage(p, pcs)
    BY <1>1, <2>1, OneStage DEF Sound
  <2>4. ~OwnRef(p)
    BY <1>5, <2>1, <2>3 DEF OwnRef, Unanswered, Answering
  <2>5. HeldRefs(p) = 0 /\ OwnRefs(p) = 0 /\ CallRefs(p) = 0 /\ AnswerRefs(p) = 0
    BY <2>1, <2>4, Terms
  <2>6. Cardinality(Thens(p)) = 0
    BY <2>2, FS_EmptySet
  <2>7. QED
    BY <1>2, <2>5, <2>6
<1>6. QED
  BY <1>4, <1>5

\* A promise has a reference for everything that refers to it, and no others, in every
\* order of the steps of both threads: the count is neither too low, while the promise
\* is still used, nor too high when nothing is left of the call.  There are the two
\* exceptions that the property states: an exit that destroyed the message or the timer
\* with the promise's own reference leaves the count too high; and an AsyncCall whose
\* answer was taken by script that a message ran in its SendMessage is not counted, and
\* may return a promise that is deleted.
THEOREM ReferencesCounted == Spec => []ReferencesSound
<1>1. Inv => ReferencesSound
  BY InvReferences
<1>2. QED
  BY <1>1, Invariance, PTL

\* However the answer, Then, Catch and the timers interleave, a handler does not run a
\* second time; the exception is a handler that is set while the answer waits as a timer.
THEOREM HandlerOnce == Spec => []HandlerRunsOnce
<1>1. Inv => HandlerRunsOnce
  BY DEF Inv, Sound, Ran, HandlerRunsOnce
<1>2. QED
  BY <1>1, Invariance, PTL

\* A handler never runs with a result that the other thread is still writing, nor with
\* one that has been freed.
THEOREM ResultWhole == Spec => []ResultComplete
<1>1. Inv => ResultComplete
  <2> SUFFICES ASSUME Inv, NEW i \in Interpreters, NEW n \in DOMAIN stack[i],
                      stack[i][n].kind \in {"answer", "then"}
               PROVE  mResult[stack[i][n].p] = "taken"
    BY DEF ResultComplete
  <2>1. n \in 1 .. Len(stack[i])
    BY Stacks DEF Inv
  <2>2. PICK p : p = stack[i][n].p
    OBVIOUS
  <2>3. p \in Promises /\ (Answers(p) # {} \/ Thens(p) # {})
    BY <2>1, <2>2, Activation
  <2>4. Phased(p)
    BY <2>3 DEF Inv, Sound
  <2>5. QED
    BY <2>2, <2>3, <2>4 DEF Phased
<1>2. QED
  BY <1>1, Invariance, PTL

============================================================================
