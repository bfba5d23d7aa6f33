--------------------------- MODULE Hotkeys_proofs ---------------------------
(***************************************************************************)
(* Theorems about Hotkeys for every value of its constants: any number of  *)
(* hotkeys and variants, any limits and any length of the queue.           *)
(*                                                                         *)
(* Whatever an action does to the frames, it does it on top of the frames  *)
(* below the top one, or on top of all of them; the lemmas say what that   *)
(* does to the number of threads of a variant.  Consider, in which four    *)
(* actions end, is then treated once.                                      *)
(*                                                                         *)
(* The last part shows that a press that is still queued does not launch a *)
(* variant that has been turned off.  The search for the variant to launch *)
(* is interrupted only by the callbacks of expressions, so that what it    *)
(* has found is still eligible unless one of those came after it in the    *)
(* list.  The invariant says so of the search that is under way, and of    *)
(* every frame and message how it came by the variant it names.            *)
(***************************************************************************)
EXTENDS Hotkeys, FiniteSetTheorems, SequenceTheorems, TLAPS

\* The positions of the threads of variant v.
Positions(v, stack) ==
  {j \in DOMAIN stack : stack[j].at = "thread" /\ stack[j].v = v}

\* What a frame is besides its type: a thread is of a variant, and the callback
\* of an expression is at one of the hotkey's variants.
Sound(f) ==
  /\ f.at = "thread" => f.v \in Variants
  /\ f.at = "eval" => f.i \in Indices(f.hk)

FramesSound(stack) ==
  stack \in Seq(Frame) /\ \A j \in DOMAIN stack : Sound(stack[j])

\* BufferedPressHasThread of some frames, not necessarily the current ones.
CountedBy(stack) ==
  \A v \in Variants :
    /\ mExistingThreads[v] = ThreadsOfVariant(v, stack)
    /\ mRunAgainAfterFinished[v] => ThreadsOfVariant(v, stack) > 0

\* What concerns the frames and the counts.
Counts ==
  /\ mExistingThreads \in [Variants -> Nat]
  /\ mRunAgainAfterFinished \in [Variants -> BOOLEAN]
  /\ FramesSound(frames) /\ CountedBy(frames)

Others ==
  /\ mEnabled \in [Variants -> BOOLEAN] /\ mMaxThreads \in [Variants -> Limits]
  /\ g_IsSuspended \in BOOLEAN
  /\ windows \subseteq Variants
  /\ queue \in Seq(Message)

\* The inductive invariant: a press is answered by the thread of its frame, so
\* the frames have to be sound for the counts to be kept.
IInv == Others /\ Counts

\* What LimitRespected says of a step, the frames before it being those given.
WithinLimit(stack) ==
  \A v \in Variants :
    ThreadsOfVariant(v, frames') > ThreadsOfVariant(v, stack)
      => ThreadsOfVariant(v, frames') <= mMaxThreads[v]

----------------------------------------------------------------------------
(* Counting the threads of a variant. *)

\* The number of threads of a variant is a natural number.
LEMMA CountType ==
  ASSUME NEW stack \in Seq(Frame), NEW v
  PROVE  /\ IsFiniteSet(Positions(v, stack))
         /\ ThreadsOfVariant(v, stack) = Cardinality(Positions(v, stack))
         /\ ThreadsOfVariant(v, stack) \in Nat
<1>1. DOMAIN stack = 1 .. Len(stack) /\ Len(stack) \in Nat
  BY LenProperties
<1>2. IsFiniteSet(1 .. Len(stack))
  BY <1>1, FS_Interval
<1>3. Positions(v, stack) \in SUBSET (1 .. Len(stack))
  BY <1>1 DEF Positions
<1>4. IsFiniteSet(Positions(v, stack))
  BY <1>2, <1>3, FS_Subset
<1>5. ThreadsOfVariant(v, stack) = Cardinality(Positions(v, stack))
  BY DEF ThreadsOfVariant, Positions
<1>6. QED
  BY <1>4, <1>5, FS_CardinalityType

\* A frame put on top adds one to the count of its variant if it is a thread,
\* and leaves every other count alone.
LEMMA CountPush ==
  ASSUME NEW stack \in Seq(Frame), NEW f \in Frame, NEW v
  PROVE  ThreadsOfVariant(v, Append(stack, f)) =
           ThreadsOfVariant(v, stack)
             + (IF f.at = "thread" /\ f.v = v THEN 1 ELSE 0)
<1> DEFINE top == Len(stack) + 1
           pushed == Append(stack, f)
<1>1. /\ Len(stack) \in Nat /\ DOMAIN stack = 1 .. Len(stack)
      /\ pushed \in Seq(Frame)
      /\ DOMAIN pushed = 1 .. top
      /\ \A j \in 1 .. Len(stack) : pushed[j] = stack[j]
      /\ pushed[top] = f
  <2>1. pushed \in Seq(Frame) /\ Len(pushed) = top
    BY AppendProperties
  <2>2. DOMAIN pushed = 1 .. Len(pushed)
    BY <2>1, LenProperties
  <2>3. QED
    BY <2>1, <2>2, AppendProperties, LenProperties
<1>2. /\ IsFiniteSet(Positions(v, stack))
      /\ ThreadsOfVariant(v, stack) = Cardinality(Positions(v, stack))
      /\ ThreadsOfVariant(v, stack) \in Nat
      /\ ThreadsOfVariant(v, pushed) = Cardinality(Positions(v, pushed))
  BY <1>1, CountType
<1> HIDE DEF pushed
<1>3. CASE f.at = "thread" /\ f.v = v
  <2>1. Positions(v, pushed) = Positions(v, stack) \cup {top}
    BY <1>1, <1>3 DEF Positions
  <2>2. top \notin Positions(v, stack)
    BY <1>1 DEF Positions
  <2>3. Cardinality(Positions(v, pushed)) = Cardinality(Positions(v, stack)) + 1
    BY <1>2, <2>1, <2>2, FS_AddElement
  <2>4. QED
    BY <1>2, <1>3, <2>3 DEF pushed
<1>4. CASE ~(f.at = "thread" /\ f.v = v)
  <2>1. Positions(v, pushed) = Positions(v, stack)
    BY <1>1, <1>4 DEF Positions
  <2>2. QED
    BY <1>2, <1>4, <2>1 DEF pushed
<1>5. QED
  BY <1>3, <1>4

\* A sound frame put on sound frames.
LEMMA SoundPush ==
  ASSUME NEW stack, FramesSound(stack), NEW f \in Frame, Sound(f)
  PROVE  FramesSound(Append(stack, f))
<1>1. stack \in Seq(Frame)
  BY DEF FramesSound
<1>2. Append(stack, f) \in Seq(Frame) /\ Len(Append(stack, f)) = Len(stack) + 1
  BY <1>1, AppendProperties
<1>3. DOMAIN Append(stack, f) = 1 .. Len(stack) + 1
  BY <1>2, LenProperties
<1>4. \A j \in 1 .. Len(stack) + 1 :
        Append(stack, f)[j] = IF j = Len(stack) + 1 THEN f ELSE stack[j]
  BY <1>1
<1>5. DOMAIN stack = 1 .. Len(stack) /\ Len(stack) \in Nat
  BY <1>1, LenProperties
<1>6. QED
  BY <1>2, <1>3, <1>4, <1>5 DEF FramesSound

\* When there is a top frame, it stands on the frames below it, and changing it
\* is putting another frame in its place.
LEMMA TopOnBelow ==
  ASSUME FramesSound(frames), Depth > 0
  PROVE  /\ Top \in Frame /\ Sound(Top)
         /\ FramesSound(Below)
         /\ frames = Append(Below, Top)
         /\ \A f \in Frame : [frames EXCEPT ![Depth] = f] = Append(Below, f)
<1>1. /\ frames \in Seq(Frame) /\ Depth \in Nat
      /\ DOMAIN frames = 1 .. Depth
  BY LenProperties DEF FramesSound, Depth
<1>2. Top \in Frame /\ Sound(Top)
  BY <1>1, ElementOfSeq DEF FramesSound, Top, Depth
<1>3. /\ Below \in Seq(Frame) /\ Len(Below) = Depth - 1
      /\ \A j \in 1 .. Depth - 1 : Below[j] = frames[j]
  BY <1>1, ElementOfSeq DEF Below, Depth
<1>4. DOMAIN Below = 1 .. Depth - 1
  BY <1>3, LenProperties
<1>5. FramesSound(Below)
  BY <1>1, <1>3, <1>4 DEF FramesSound
<1>6. ASSUME NEW f \in Frame
      PROVE  [frames EXCEPT ![Depth] = f] = Append(Below, f)
  <2> DEFINE changed == [frames EXCEPT ![Depth] = f]
             pushed == Append(Below, f)
  <2>1. Depth \in 1 .. Len(frames)
    BY <1>1 DEF Depth
  <2>2. /\ changed \in Seq(Frame) /\ Len(changed) = Depth
        /\ \A j \in 1 .. Depth :
             changed[j] = IF j = Depth THEN f ELSE frames[j]
    BY <1>1, <2>1, ExceptSeq DEF Depth
  <2>3. /\ pushed \in Seq(Frame) /\ Len(pushed) = Depth
        /\ \A j \in 1 .. Depth :
             pushed[j] = IF j = Depth THEN f ELSE frames[j]
    <3>1. /\ pushed \in Seq(Frame) /\ Len(pushed) = Len(Below) + 1
          /\ \A j \in 1 .. Len(Below) : pushed[j] = Below[j]
          /\ pushed[Len(Below) + 1] = f
      BY <1>3, AppendProperties
    <3> HIDE DEF pushed
    <3>2. QED
      BY <1>1, <1>3, <3>1
  <2> HIDE DEF changed, pushed
  <2>4. changed = pushed
    BY <2>2, <2>3, SeqEqual
  <2>5. QED
    BY <2>4 DEF changed, pushed
<1>7. frames = Append(Below, Top)
  <2>1. [frames EXCEPT ![Depth] = Top] = frames
    BY <1>1 DEF Top
  <2>2. QED
    BY <1>2, <1>6, <2>1
<1>8. QED
  BY <1>2, <1>5, <1>6, <1>7

----------------------------------------------------------------------------
(* What the actions do. *)

\* A step that changes no count, and takes no buffered press on.
LEMMA SameCounts ==
  ASSUME Counts, FramesSound(frames'), UNCHANGED mExistingThreads,
         \A v \in Variants :
           ThreadsOfVariant(v, frames') = ThreadsOfVariant(v, frames),
         mRunAgainAfterFinished' \in [Variants -> BOOLEAN],
         \A v \in Variants :
           mRunAgainAfterFinished'[v] => mRunAgainAfterFinished[v]
  PROVE  Counts' /\ WithinLimit(frames)
<1>1. \A v \in Variants : ThreadsOfVariant(v, frames) \in Nat
  BY CountType DEF Counts, FramesSound
<1>2. CountedBy(frames)'
  BY DEF Counts, CountedBy
<1>3. WithinLimit(frames)
  BY <1>1 DEF WithinLimit
<1>4. QED
  BY <1>2, <1>3 DEF Counts

\* Consider keeps the counts exact on top of sound frames: it buffers a press
\* only when the variant has a thread among them, and launches no more threads
\* than the limit.
LEMMA ConsiderKeeps ==
  ASSUME Others, Counts, NEW hk \in HotkeyIDs, NEW v \in Variants, NEW below,
         FramesSound(below), CountedBy(below), Consider(hk, v, below)
  PROVE  Counts' /\ WithinLimit(below)
<1>1. /\ mExistingThreads \in [Variants -> Nat]
      /\ mRunAgainAfterFinished \in [Variants -> BOOLEAN]
      /\ mMaxThreads[v] \in Nat /\ mMaxThreads[v] >= 1
  <2>1. mMaxThreads[v] \in Limits
    BY DEF Others
  <2>2. Limits \subseteq 1 .. MaxThreadsTotal /\ MaxThreadsTotal \in Nat
    BY HotkeysAssumption
  <2>3. mMaxThreads[v] \in Nat /\ mMaxThreads[v] >= 1
    <3> DEFINE limit == mMaxThreads[v]
    <3>1. limit \in 1 .. MaxThreadsTotal
      BY <2>1, <2>2
    <3> HIDE DEF limit
    <3>2. limit \in Nat /\ limit >= 1
      BY <2>2, <3>1
    <3>3. QED
      BY <3>2 DEF limit
  <2>4. QED
    BY <2>3 DEF Counts
<1>2. \A u \in Variants : ThreadsOfVariant(u, below) \in Nat
  BY CountType DEF FramesSound
<1>3. CASE ~PerformIsAllowed(v)
  <2>1. frames' = below /\ UNCHANGED mExistingThreads
    BY <1>3 DEF Consider
  <2>2. PICK buffer \in BOOLEAN :
          mRunAgainAfterFinished' =
            [mRunAgainAfterFinished EXCEPT ![v] = @ \/ buffer]
    BY <1>3 DEF Consider
  <2>3. /\ mRunAgainAfterFinished' \in [Variants -> BOOLEAN]
        /\ \A u \in Variants \ {v} :
             mRunAgainAfterFinished'[u] = mRunAgainAfterFinished[u]
    BY <1>1, <2>2, Zenon
  <2>4. ThreadsOfVariant(v, below) > 0
    BY <1>1, <1>2, <1>3 DEF PerformIsAllowed, CountedBy
  <2>5. CountedBy(frames)'
    <3>1. ASSUME NEW u \in Variants, mRunAgainAfterFinished'[u]
          PROVE  ThreadsOfVariant(u, below) > 0
      <4>1. CASE u = v
        BY <2>4, <4>1
      <4>2. CASE u # v
        BY <2>3, <3>1, <4>2 DEF CountedBy
      <4>3. QED
        BY <4>1, <4>2
    <3>2. \A u \in Variants : mExistingThreads'[u] = ThreadsOfVariant(u, below)
      BY <2>1 DEF CountedBy
    <3>3. QED
      BY <2>1, <3>1, <3>2 DEF CountedBy
  <2>6. QED
    BY <1>1, <1>2, <2>1, <2>3, <2>5 DEF Counts, WithinLimit
<1>4. CASE PerformIsAllowed(v) /\ frames' = below /\ UNCHANGED mExistingThreads
  <2>1. UNCHANGED mRunAgainAfterFinished
    BY <1>4 DEF Consider
  <2>2. QED
    BY <1>1, <1>2, <1>4, <2>1 DEF Counts, CountedBy, WithinLimit
<1>5. ASSUME PerformIsAllowed(v), UNCHANGED mRunAgainAfterFinished,
             frames' = Append(below, [at |-> "thread", hk |-> hk, v |-> v,
                                      i |-> 0]),
             mExistingThreads' = [mExistingThreads EXCEPT ![v] = @ + 1]
      PROVE  Counts' /\ WithinLimit(below)
  <2> DEFINE f == [at |-> "thread", hk |-> hk, v |-> v, i |-> 0]
  <2>1. f \in Frame /\ Sound(f) /\ f.at = "thread" /\ f.v = v
    BY DEF Frame, Sound
  <2> HIDE DEF f
  <2>2. FramesSound(frames')
    BY <1>5, <2>1, SoundPush DEF f
  <2>3. \A u \in Variants :
          ThreadsOfVariant(u, frames') =
            ThreadsOfVariant(u, below) + (IF u = v THEN 1 ELSE 0)
    BY <1>5, <2>1, CountPush DEF f, FramesSound
  <2>4. mExistingThreads' \in [Variants -> Nat]
    BY <1>1, <1>5
  <2>5. CountedBy(frames)'
    BY <1>1, <1>2, <1>5, <2>3 DEF CountedBy
  <2>6. WithinLimit(below)
    BY <1>1, <1>2, <1>5, <2>3 DEF WithinLimit, PerformIsAllowed, CountedBy
  <2>7. QED
    BY <1>1, <1>5, <2>2, <2>4, <2>5, <2>6 DEF Counts
<1>6. QED
  BY <1>3, <1>4, <1>5 DEF Consider

\* A step that leaves the frames and their counts alone.
LEMMA FramesLeft ==
  ASSUME Counts,
         UNCHANGED <<mExistingThreads, mRunAgainAfterFinished, frames>>
  PROVE  Counts' /\ WithinLimit(frames)
BY SameCounts DEF Counts

\* A message put into the queue is of its type.
LEMMA PostType ==
  ASSUME Others, NEW message \in Message, Post(message)
  PROVE  queue' \in Seq(Message)
BY AppendProperties DEF Others, Post

\* The variants a hotkey's list holds.
LEMMA ListedVariants ==
  ASSUME NEW hk \in HotkeyIDs, NEW i \in Indices(hk)
  PROVE  VariantsOf[hk][i] \in Variants /\ i \in Nat
<1>1. VariantsOf[hk] \in Seq(Variants)
  BY HotkeysAssumption
<1>2. QED
  BY <1>1, LenProperties, ElementOfSeq DEF Indices

\* What the hook posts names a variant of the hotkey's, or none.
LEMMA HookPressStep ==
  ASSUME IInv, NEW hk \in HotkeyIDs, NEW true, HookPress(hk, true)
  PROVE  IInv' /\ WithinLimit(frames)
<1>1. PICK v \in Certain(hk, true) : Post([hk |-> hk, variant |-> v])
  BY DEF HookPress
<1>2. v \in Variants \cup {None}
  BY ListedVariants DEF Certain
<1>3. [hk |-> hk, variant |-> v] \in Message
  BY <1>2 DEF Message
<1>4. queue' \in Seq(Message)
  BY <1>1, <1>3, PostType DEF IInv
<1>5. Others'
  BY <1>4 DEF HookPress, IInv, Others
<1>6. QED
  BY <1>5, FramesLeft DEF HookPress, IInv

\* A registered hotkey's message names no variant.
LEMMA RegisteredPressStep ==
  ASSUME IInv, NEW hk \in HotkeyIDs, RegisteredPress(hk)
  PROVE  IInv' /\ WithinLimit(frames)
<1>1. [hk |-> hk, variant |-> None] \in Message
  BY DEF Message
<1>2. queue' \in Seq(Message)
  BY <1>1, PostType DEF RegisteredPress, IInv
<1>3. Others'
  BY <1>2 DEF RegisteredPress, IInv, Others
<1>4. QED
  BY <1>3, FramesLeft DEF RegisteredPress, IInv

\* The other steps that leave the frames alone: a window changes, or the script
\* changes its hotkeys and no buffered press is added.
LEMMA SettingsStep ==
  ASSUME IInv,
         \/ \E v \in Variants :
              \/ WindowsChange(v) \/ Enable(v) \/ Disable(v)
              \/ \E n \in Limits : SetMaxThreads(v, n)
         \/ ToggleSuspendState \/ ResetRunAgainAfterFinished
  PROVE  IInv' /\ WithinLimit(frames)
<1>1. UNCHANGED <<queue, frames, mExistingThreads>>
  BY DEF WindowsChange, Enable, Disable, SetMaxThreads, ToggleSuspendState,
         ResetRunAgainAfterFinished
<1>2. Others'
  BY <1>1 DEF IInv, Others, WindowsChange, Enable, Disable, SetMaxThreads,
              ToggleSuspendState, ResetRunAgainAfterFinished, switches
<1>3. /\ mRunAgainAfterFinished' \in [Variants -> BOOLEAN]
      /\ \A u \in Variants :
           mRunAgainAfterFinished'[u] => mRunAgainAfterFinished[u]
  BY DEF IInv, Counts, WindowsChange, Enable, Disable, SetMaxThreads,
         ToggleSuspendState, ResetRunAgainAfterFinished, switches
<1>4. Counts' /\ WithinLimit(frames)
  BY <1>1, <1>3, SameCounts DEF IInv, Counts
<1>5. QED
  BY <1>2, <1>4 DEF IInv

\* A frame that is no thread, on top, is put in or replaced by another: the
\* frames stay sound and no count changes.
LEMMA OtherFrame ==
  ASSUME Counts, NEW f \in Frame, Sound(f), f.at # "thread",
         UNCHANGED <<mExistingThreads, mRunAgainAfterFinished>>,
         \/ frames' = Append(frames, f)
         \/ Depth > 0 /\ Top.at # "thread" /\ frames' = Append(Below, f)
  PROVE  Counts' /\ WithinLimit(frames)
<1>1. FramesSound(frames) /\ frames \in Seq(Frame)
  BY DEF Counts, FramesSound
<1>2. CASE frames' = Append(frames, f)
  <2>1. FramesSound(frames')
    BY <1>1, <1>2, SoundPush
  <2>2. \A v \in Variants :
          ThreadsOfVariant(v, frames') = ThreadsOfVariant(v, frames)
    BY <1>1, <1>2, CountPush, CountType
  <2>3. QED
    BY <2>1, <2>2, SameCounts DEF Counts
<1>3. CASE Depth > 0 /\ Top.at # "thread" /\ frames' = Append(Below, f)
  <2>1. /\ Top \in Frame /\ FramesSound(Below) /\ Below \in Seq(Frame)
        /\ frames = Append(Below, Top)
    BY <1>1, <1>3, TopOnBelow DEF FramesSound
  <2>2. FramesSound(frames')
    BY <1>3, <2>1, SoundPush
  <2>3. \A v \in Variants :
          /\ ThreadsOfVariant(v, frames') = ThreadsOfVariant(v, Below)
          /\ ThreadsOfVariant(v, frames) = ThreadsOfVariant(v, Below)
    <3>1. ASSUME NEW v \in Variants, NEW e \in Frame, e.at # "thread"
          PROVE  ThreadsOfVariant(v, Append(Below, e))
                   = ThreadsOfVariant(v, Below)
      BY <2>1, <3>1, CountPush, CountType
    <3>2. QED
      BY <1>3, <2>1, <3>1
  <2>4. QED
    BY <2>2, <2>3, SameCounts DEF Counts
<1>4. QED
  BY <1>2, <1>3

\* When the top frame is no thread, the frames below it hold all the threads.
LEMMA BelowOther ==
  ASSUME Counts, Depth > 0, Top.at # "thread"
  PROVE  /\ FramesSound(Below) /\ CountedBy(Below)
         /\ \A v \in Variants :
              ThreadsOfVariant(v, frames) = ThreadsOfVariant(v, Below)
<1>1. /\ Top \in Frame /\ FramesSound(Below) /\ Below \in Seq(Frame)
      /\ frames = Append(Below, Top)
  BY TopOnBelow DEF FramesSound, Counts
<1>2. \A v \in Variants :
        ThreadsOfVariant(v, frames) = ThreadsOfVariant(v, Below)
  BY <1>1, CountPush, CountType
<1>3. CountedBy(Below)
  BY <1>2 DEF Counts, CountedBy
<1>4. QED
  BY <1>1, <1>2, <1>3

\* The search or the evaluation on top ends in Consider.
LEMMA ConsiderOnTop ==
  ASSUME IInv, Depth > 0, Top.at # "thread", NEW v \in Variants,
         Consider(Top.hk, v, Below)
  PROVE  Counts' /\ WithinLimit(frames)
<1>1. Top.hk \in HotkeyIDs
  BY TopOnBelow DEF IInv, Counts, Frame
<1>2. Counts' /\ WithinLimit(Below)
  BY <1>1, BelowOther, ConsiderKeeps DEF IInv
<1>3. WithinLimit(frames)
  BY <1>2, BelowOther DEF WithinLimit, IInv
<1>4. QED
  BY <1>2, <1>3

\* A message is taken: its variant is considered, or a search begins.
LEMMA TakeMessageStep ==
  ASSUME IInv, TakeMessage
  PROVE  IInv' /\ WithinLimit(frames)
<1> DEFINE m == Head(queue)
<1>1. m \in Message /\ queue' \in Seq(Message)
  BY HeadTailProperties DEF TakeMessage, IInv, Others
<1>2. Others'
  BY <1>1 DEF TakeMessage, IInv, Others, switches
<1>3. m.hk \in HotkeyIDs /\ m.variant \in Variants \cup {None}
  BY <1>1 DEF Message
<1>4. CASE m.variant # None
  <2>1. Consider(m.hk, m.variant, frames)
    BY <1>4 DEF TakeMessage
  <2>2. m.variant \in Variants
    BY <1>3, <1>4
  <2> HIDE DEF m
  <2>3. Counts' /\ WithinLimit(frames)
    BY <1>3, <2>1, <2>2, ConsiderKeeps DEF IInv, Counts
  <2>4. QED
    BY <1>2, <2>3 DEF IInv
<1>5. CASE m.variant = None
  <2> DEFINE f == [at |-> "search", hk |-> m.hk, v |-> None, i |-> 1]
  <2>1. f \in Frame /\ Sound(f) /\ f.at # "thread"
    BY <1>3 DEF Frame, Sound
  <2>2. /\ frames' = Append(frames, f)
        /\ UNCHANGED <<mExistingThreads, mRunAgainAfterFinished>>
    BY <1>5 DEF TakeMessage
  <2> HIDE DEF f
  <2>3. Counts' /\ WithinLimit(frames)
    BY <2>1, <2>2, OtherFrame DEF IInv
  <2>4. QED
    BY <1>2, <2>3 DEF IInv
<1>6. QED
  BY <1>4, <1>5

\* While a search goes on, its candidate is one of the hotkey's variants.
LEMMA SearchFrame ==
  ASSUME IInv, Depth > 0
  PROVE  /\ Top \in Frame
         /\ Top.at = "eval" => Top.i \in Indices(Top.hk)
         /\ Top.i \in Indices(Top.hk) => Candidate \in Variants
<1>1. Top \in Frame /\ Sound(Top)
  BY TopOnBelow DEF IInv, Counts
<1>2. Top.hk \in HotkeyIDs
  BY <1>1 DEF Frame
<1>3. QED
  BY <1>1, <1>2, ListedVariants DEF Sound, Candidate

\* A search goes on to the next variant or into the callback of an expression:
\* the top frame is replaced.
LEMMA TopReplaced ==
  ASSUME IInv, Depth > 0, Top.at # "thread", NEW f \in Frame, Sound(f),
         f.at # "thread", frames' = [frames EXCEPT ![Depth] = f],
         UNCHANGED <<mExistingThreads, mRunAgainAfterFinished>>
  PROVE  Counts' /\ WithinLimit(frames)
<1>1. frames' = Append(Below, f)
  BY TopOnBelow DEF IInv, Counts
<1>2. QED
  BY <1>1, OtherFrame DEF IInv

\* The search goes on; what it has found is a variant.
LEMMA PassStep ==
  ASSUME IInv, Pass
  PROVE  IInv' /\ WithinLimit(frames)
<1>1. Depth > 0 /\ Top.at = "search" /\ Top.i \in Indices(Top.hk)
  BY DEF Pass, Searching, At
<1>2. Top \in Frame /\ Candidate \in Variants
  BY <1>1, SearchFrame
<1> DEFINE found == IF Eligible(Candidate) /\ Criterion[Candidate] = "none"
                    THEN Candidate ELSE Top.v
           f == [Top EXCEPT !.i = @ + 1, !.v = found]
<1>3. found \in Variants \cup {None} /\ Top.i + 1 \in Nat
  <2>1. Top.v \in Variants \cup {None} /\ Top.i \in Nat
    BY <1>2 DEF Frame
  <2>2. QED
    BY <1>2, <2>1
<1>4. frames' = [frames EXCEPT ![Depth] = f]
  BY DEF Pass, Top
<1> HIDE DEF found
<1>5. f \in Frame /\ Sound(f) /\ f.at # "thread"
  BY <1>1, <1>2, <1>3 DEF Frame, Sound
<1> HIDE DEF f
<1>6. Counts' /\ WithinLimit(frames)
  BY <1>1, <1>4, <1>5, TopReplaced DEF Pass
<1>7. QED
  BY <1>6 DEF Pass, IInv, Others, switches

\* The search ends in a variant whose window criterion holds.
LEMMA FireStep ==
  ASSUME IInv, Fire
  PROVE  IInv' /\ WithinLimit(frames)
<1>1. Depth > 0 /\ Top.at = "search" /\ Top.i \in Indices(Top.hk)
  BY DEF Fire, Searching, At
<1>2. Counts' /\ WithinLimit(frames)
  BY <1>1, SearchFrame, ConsiderOnTop DEF Fire
<1>3. QED
  BY <1>2 DEF Fire, IInv, Others, switches

\* The search goes into the callback of an expression.
LEMMA EvalStep ==
  ASSUME IInv, Eval
  PROVE  IInv' /\ WithinLimit(frames)
<1> DEFINE f == [Top EXCEPT !.at = "eval"]
<1>1. Depth > 0 /\ Top.at = "search" /\ Top.i \in Indices(Top.hk)
  BY DEF Eval, Searching, At
<1>2. Top \in Frame
  BY <1>1, SearchFrame
<1>3. frames' = [frames EXCEPT ![Depth] = f]
  BY DEF Eval, Top
<1>4. f \in Frame /\ Sound(f) /\ f.at # "thread"
  BY <1>1, <1>2 DEF Frame, Sound
<1> HIDE DEF f
<1>5. Counts' /\ WithinLimit(frames)
  BY <1>1, <1>3, <1>4, TopReplaced DEF Eval
<1>6. QED
  BY <1>5 DEF Eval, IInv, Others, switches

\* The callback returns: its variant is considered, or the search goes on.
LEMMA EvalReturnsStep ==
  ASSUME IInv, NEW result \in BOOLEAN, EvalReturns(result)
  PROVE  IInv' /\ WithinLimit(frames)
<1> SUFFICES Counts' /\ WithinLimit(frames)
  BY DEF EvalReturns, IInv, Others, switches
<1>1. Depth > 0 /\ Top.at = "eval"
  BY DEF EvalReturns, At
<1>2. Top \in Frame /\ Top.i \in Indices(Top.hk) /\ Candidate \in Variants
  BY <1>1, SearchFrame
<1>3. CASE result
  BY <1>1, <1>2, <1>3, ConsiderOnTop DEF EvalReturns
<1>4. CASE ~result
  <2> DEFINE f == [Top EXCEPT !.at = "search", !.i = @ + 1]
  <2>1. frames' = [frames EXCEPT ![Depth] = f]
    BY <1>4 DEF EvalReturns, Top
  <2>2. Top.i \in Nat /\ Top.i + 1 \in Nat
    BY <1>2 DEF Frame
  <2>3. f \in Frame /\ Sound(f) /\ f.at # "thread"
    BY <1>1, <1>2, <2>2 DEF Frame, Sound
  <2> HIDE DEF f
  <2>4. QED
    BY <1>1, <1>4, <2>1, <2>3, TopReplaced DEF EvalReturns
<1>5. QED
  BY <1>3, <1>4

\* The search ends with the global variant, or none.
LEMMA SearchEndsStep ==
  ASSUME IInv, SearchEnds
  PROVE  IInv' /\ WithinLimit(frames)
<1> SUFFICES Counts' /\ WithinLimit(frames)
  BY DEF SearchEnds, IInv, Others, switches
<1>1. Depth > 0 /\ Top.at = "search"
  BY DEF SearchEnds, At
<1>2. CASE Top.v = None
  BY <1>1, <1>2, BelowOther, SameCounts DEF SearchEnds, IInv, Counts
<1>3. CASE Top.v # None
  <2>1. Top.v \in Variants
    BY <1>1, <1>3, SearchFrame DEF Frame
  <2>2. QED
    BY <1>1, <1>3, <2>1, ConsiderOnTop DEF SearchEnds
<1>4. QED
  BY <1>2, <1>3

\* A thread that ends is taken off the count of its variant, and leaves no
\* buffered press: posted again or not, it is forgotten.
LEMMA ThreadEndsStep ==
  ASSUME IInv, NEW failed \in BOOLEAN, NEW old \in BOOLEAN,
         ThreadEnds(failed, old)
  PROVE  IInv' /\ WithinLimit(frames)
<1>1. Depth > 0 /\ Top.at = "thread"
  BY DEF ThreadEnds, At
<1>2. /\ Top \in Frame /\ Top.v \in Variants /\ Top.hk \in HotkeyIDs
      /\ FramesSound(Below) /\ Below \in Seq(Frame)
      /\ frames = Append(Below, Top)
  BY <1>1, TopOnBelow DEF IInv, Counts, Sound, FramesSound, Frame
<1>3. \A u \in Variants :
        /\ ThreadsOfVariant(u, Below) \in Nat
        /\ ThreadsOfVariant(u, frames) =
             ThreadsOfVariant(u, Below) + (IF u = Top.v THEN 1 ELSE 0)
  BY <1>1, <1>2, CountPush, CountType
<1>4. /\ frames' = Below
      /\ mExistingThreads' = [mExistingThreads EXCEPT ![Top.v] = @ - 1]
      /\ mRunAgainAfterFinished' =
           [mRunAgainAfterFinished EXCEPT ![Top.v] = FALSE]
  BY DEF ThreadEnds, CountedDown, BufferCleared
<1>5. /\ mExistingThreads \in [Variants -> Nat]
      /\ mRunAgainAfterFinished \in [Variants -> BOOLEAN]
      /\ CountedBy(frames)
  BY DEF IInv, Counts
<1>6. \A u \in Variants : mExistingThreads'[u] = ThreadsOfVariant(u, Below)
  BY <1>2, <1>3, <1>4, <1>5 DEF CountedBy
<1>7. mExistingThreads' \in [Variants -> Nat]
  <2>1. \A u \in Variants : mExistingThreads'[u] \in Nat
    BY <1>3, <1>6
  <2>2. /\ DOMAIN mExistingThreads' = Variants
        /\ mExistingThreads' = [u \in Variants |-> mExistingThreads'[u]]
    BY <1>4, <1>5
  <2>3. QED
    BY <2>1, <2>2
<1>8. /\ mRunAgainAfterFinished' \in [Variants -> BOOLEAN]
      /\ ~mRunAgainAfterFinished'[Top.v]
      /\ \A u \in Variants \ {Top.v} :
           mRunAgainAfterFinished'[u] = mRunAgainAfterFinished[u]
  BY <1>2, <1>4, <1>5, Zenon
<1>9. \A u \in Variants :
        mRunAgainAfterFinished'[u] => ThreadsOfVariant(u, Below) > 0
  <2> SUFFICES ASSUME NEW u \in Variants, mRunAgainAfterFinished'[u]
               PROVE  ThreadsOfVariant(u, Below) > 0
    OBVIOUS
  <2>1. u # Top.v
    BY <1>8
  <2>2. mRunAgainAfterFinished[u]
    BY <1>8, <2>1
  <2>3. ThreadsOfVariant(u, frames) > 0
    BY <1>5, <2>2 DEF CountedBy
  <2>4. QED
    BY <1>3, <2>1, <2>3
<1>10. CountedBy(frames)'
  BY <1>4, <1>6, <1>9 DEF CountedBy
<1>11. Counts' /\ WithinLimit(frames)
  <2>1. WithinLimit(frames)
    BY <1>3, <1>4 DEF WithinLimit
  <2>2. QED
    BY <1>2, <1>4, <1>7, <1>8, <1>10, <2>1 DEF Counts
<1>12. queue' \in Seq(Message)
  <2>1. [hk |-> Top.hk, variant |-> None] \in Message
    BY <1>2 DEF Message
  <2>2. CASE Post([hk |-> Top.hk, variant |-> None])
    BY <2>1, <2>2, PostType DEF IInv
  <2>3. CASE UNCHANGED queue
    BY <2>3 DEF IInv, Others
  <2>4. QED
    BY <2>2, <2>3 DEF ThreadEnds
<1>13. Others'
  BY <1>12 DEF ThreadEnds, IInv, Others, switches
<1>14. QED
  BY <1>11, <1>13 DEF IInv

----------------------------------------------------------------------------
(* The specification. *)

\* The initial states satisfy the invariant.
LEMMA InitInv == Init => IInv
<1> SUFFICES ASSUME Init PROVE IInv
  OBVIOUS
<1>1. frames = <<>> /\ queue = <<>>
  BY DEF Init
<1>2. frames \in Seq(Frame) /\ DOMAIN frames = {} /\ queue \in Seq(Message)
  <2>1. frames \in Seq(Frame) /\ Len(frames) = 0 /\ queue \in Seq(Message)
    BY <1>1, EmptySeq
  <2>2. DOMAIN frames = 1 .. 0
    BY <2>1, LenProperties
  <2>3. 1 .. 0 = {}
    OBVIOUS
  <2>4. QED
    BY <2>1, <2>2, <2>3
<1>3. \A v \in Variants : ThreadsOfVariant(v, frames) = 0
  <2>1. \A v \in Variants : Positions(v, frames) = {}
    BY <1>2 DEF Positions
  <2>2. Cardinality({}) = 0
    BY FS_EmptySet
  <2>3. QED
    BY <1>2, <2>1, <2>2, CountType
<1>4. Counts
  BY <1>2, <1>3 DEF Init, Counts, FramesSound, CountedBy
<1>5. Others
  BY <1>2 DEF Init, Others
<1>6. QED
  BY <1>4, <1>5 DEF IInv

\* Every step preserves the invariant and keeps to the limits.
LEMMA NextInv == IInv /\ [Next]_vars => IInv' /\ WithinLimit(frames)
<1> SUFFICES ASSUME IInv, [Next]_vars PROVE IInv' /\ WithinLimit(frames)
  OBVIOUS
<1>1. ASSUME NEW hk \in HotkeyIDs, RegisteredPress(hk)
      PROVE  IInv' /\ WithinLimit(frames)
  BY <1>1, RegisteredPressStep
<1>2. ASSUME NEW hk \in HotkeyIDs, NEW true \in SUBSET Variants,
             HookPress(hk, true)
      PROVE  IInv' /\ WithinLimit(frames)
  BY <1>2, HookPressStep
<1>3. CASE \/ \E v \in Variants :
                \/ WindowsChange(v) \/ Enable(v) \/ Disable(v)
                \/ \E n \in Limits : SetMaxThreads(v, n)
           \/ ToggleSuspendState \/ ResetRunAgainAfterFinished
  BY <1>3, SettingsStep
<1>4. CASE TakeMessage
  BY <1>4, TakeMessageStep
<1>5. CASE Pass
  BY <1>5, PassStep
<1>6. CASE Fire
  BY <1>6, FireStep
<1>7. CASE Eval
  BY <1>7, EvalStep
<1>8. ASSUME NEW result \in BOOLEAN, EvalReturns(result)
      PROVE  IInv' /\ WithinLimit(frames)
  BY <1>8, EvalReturnsStep
<1>9. CASE SearchEnds
  BY <1>9, SearchEndsStep
<1>10. ASSUME NEW failed \in BOOLEAN, NEW old \in BOOLEAN,
              ThreadEnds(failed, old)
       PROVE  IInv' /\ WithinLimit(frames)
  BY <1>10, ThreadEndsStep
<1>11. CASE UNCHANGED vars
  <2>1. Counts' /\ WithinLimit(frames)
    BY <1>11, FramesLeft DEF vars, IInv
  <2>2. Others'
    BY <1>11 DEF vars, IInv, Others
  <2>3. QED
    BY <2>1, <2>2 DEF IInv
<1>12. QED
  BY <1>1, <1>2, <1>3, <1>4, <1>5, <1>6, <1>7, <1>8, <1>9, <1>10, <1>11
     DEF Next, Steps

\* The invariant holds in every reachable state.
LEMMA Invariance == Spec => []IInv
<1>1. IInv /\ [Next]_vars => IInv'
  BY NextInv
<1>2. QED
  BY InitInv, <1>1, PTL DEF Spec

\* Every variable keeps its type: no variant's thread count goes below zero, and
\* no frame or message names a hotkey or variant that does not exist.
THEOREM TypeCorrect == Spec => []TypeOK
<1>1. IInv => TypeOK
  BY DEF IInv, Others, Counts, FramesSound, TypeOK
<1>2. QED
  BY <1>1, Invariance, PTL

\* mExistingThreads is exact (PerformInNewThreadMadeByCaller and every way a
\* press is launched), and a press buffered by mRunAgainAfterFinished always
\* has a running thread of its variant to answer it.
THEOREM BufferedPressWaits == Spec => []BufferedPressHasThread
<1>1. IInv => BufferedPressHasThread
  BY DEF IInv, Counts, CountedBy, BufferedPressHasThread
<1>2. QED
  BY <1>1, Invariance, PTL

\* However a press reached MsgSleep, it launches no more threads of a variant
\* than its #MaxThreadsPerHotkey, even one the script has just lowered.
THEOREM LaunchesWithinLimit == Spec => LimitRespected
<1>1. IInv /\ [Next]_vars =>
        [\A v \in Variants :
           Launches(v) => ThreadsOfVariant(v, frames') <= mMaxThreads[v]]_vars
  BY NextInv DEF WithinLimit, Launches
<1>2. QED
  BY <1>1, Invariance, PTL DEF Spec, LimitRespected


----------------------------------------------------------------------------
(* A variant that has been turned off *)

HotIf(v) == Criterion[v] = "hotif"

\* A message names a variant whose expression the hook has evaluated.
QueueTraced == \A j \in DOMAIN queue : queue[j].variant # None => HotIf(queue[j].variant)

\* The variant a search has found comes before the one it is at; a callback
\* evaluates an expression.
Traced(f) ==
  /\ f.at # "thread" /\ f.v # None =>
       \E j \in Indices(f.hk) : j < f.i /\ VariantsOf[f.hk][j] = f.v
  /\ f.at = "eval" => HotIf(VariantsOf[f.hk][f.i])

FramesTraced(stack) == \A j \in DOMAIN stack : Traced(stack[j])

\* A search goes on only while it is on top.
SearchOnTop(stack) == \A j \in DOMAIN stack : stack[j].at = "search" => j = Len(stack)

\* What a search has found may fire still, or is exempt.
Fresh == At("search") /\ Top.v # None => Eligible(Top.v) \/ BeforeHotIf(Top.v)

SInv == QueueTraced /\ FramesTraced(frames) /\ SearchOnTop(frames) /\ Fresh

\* What TurnedOffStaysSilent says of a step.
Silent ==
  \A v \in Variants : Launches(v) => Eligible(v) \/ HotIf(v) \/ BeforeHotIf(v)

NoSearch(stack) == \A j \in DOMAIN stack : stack[j].at # "search"

----------------------------------------------------------------------------
(* What becomes of the frames. *)

\* The positions and elements of a stack with a frame put on top.
LEMMA Pushed ==
  ASSUME NEW stack \in Seq(Frame), NEW f \in Frame
  PROVE  LET pushed == Append(stack, f)
             n == Len(stack)
         IN  /\ n \in Nat /\ DOMAIN stack = 1 .. n
             /\ Len(pushed) = n + 1 /\ DOMAIN pushed = 1 .. n + 1
             /\ \A j \in 1 .. n : pushed[j] = stack[j]
             /\ pushed[n + 1] = f
<1>1. Append(stack, f) \in Seq(Frame)
  BY AppendProperties
<1>2. DOMAIN Append(stack, f) = 1 .. Len(Append(stack, f))
  BY <1>1, LenProperties
<1>3. QED
  BY <1>2, AppendProperties, LenProperties

\* Frames among which no search is going on stay.
LEMMA StackStays ==
  ASSUME NEW below \in Seq(Frame), NoSearch(below), FramesTraced(below),
         UNCHANGED Criterion, frames' = below
  PROVE  FramesTraced(frames)' /\ SearchOnTop(frames)' /\ Fresh'
<1>1. FramesTraced(frames)'
  BY DEF FramesTraced, Traced, HotIf
<1>2. SearchOnTop(frames)'
  BY DEF NoSearch, SearchOnTop
<1>3. ~At("search")'
  <2>1. Len(below) \in Nat /\ DOMAIN below = 1 .. Len(below)
    BY LenProperties
  <2>2. QED
    BY <2>1 DEF At, Depth, Top, NoSearch
<1>4. QED
  BY <1>1, <1>2, <1>3 DEF Fresh

\* A frame is put on top of them.
LEMMA StackGrows ==
  ASSUME NEW below \in Seq(Frame), NoSearch(below), FramesTraced(below),
         UNCHANGED Criterion, NEW f \in Frame, Traced(f),
         frames' = Append(below, f),
         f.at = "search" /\ f.v # None =>
           /\ UNCHANGED <<mEnabled, g_IsSuspended>>
           /\ Eligible(f.v) \/ BeforeHotIf(f.v)
  PROVE  FramesTraced(frames)' /\ SearchOnTop(frames)' /\ Fresh'
<1> DEFINE n == Len(below)
<1>1. /\ n \in Nat /\ DOMAIN below = 1 .. n
      /\ Len(frames') = n + 1 /\ DOMAIN frames' = 1 .. n + 1
      /\ \A j \in 1 .. n : frames'[j] = below[j]
      /\ frames'[n + 1] = f
  BY Pushed
<1> HIDE DEF n
<1>2. FramesTraced(frames)'
  <2>1. \A j \in DOMAIN frames' : Traced(frames'[j])
    BY <1>1 DEF FramesTraced
  <2>2. QED
    BY <2>1 DEF FramesTraced, Traced, HotIf
<1>3. SearchOnTop(frames)'
  BY <1>1 DEF NoSearch, SearchOnTop
<1>4. Top' = f
  BY <1>1 DEF Top, Depth
<1>5. Fresh'
  BY <1>4 DEF Fresh, At, Eligible, BeforeHotIf
<1>6. QED
  BY <1>2, <1>3, <1>5

\* No search goes on below the top frame.
LEMMA BelowTop ==
  ASSUME IInv, SInv, Depth > 0
  PROVE  /\ Below \in Seq(Frame) /\ Top \in Frame
         /\ NoSearch(Below) /\ FramesTraced(Below) /\ Traced(Top)
<1>1. /\ Top \in Frame /\ Below \in Seq(Frame)
      /\ frames = Append(Below, Top)
  BY TopOnBelow DEF IInv, Counts, FramesSound
<1> DEFINE n == Len(Below)
<1>2. /\ n \in Nat /\ DOMAIN Below = 1 .. n
      /\ Len(frames) = n + 1 /\ DOMAIN frames = 1 .. n + 1
      /\ \A j \in 1 .. n : frames[j] = Below[j]
      /\ frames[n + 1] = Top
  BY <1>1, Pushed
<1> HIDE DEF n
<1>3. NoSearch(Below)
  BY <1>2 DEF NoSearch, SInv, SearchOnTop
<1>4. FramesTraced(Below) /\ Traced(Top)
  BY <1>2 DEF SInv, FramesTraced
<1>5. QED
  BY <1>1, <1>3, <1>4

\* No search goes on while the script or the idle loop runs.
LEMMA NoneWhilePumping ==
  ASSUME IInv, SInv, Pumping
  PROVE  NoSearch(frames) /\ frames \in Seq(Frame)
<1>1. frames \in Seq(Frame)
  BY DEF IInv, Counts, FramesSound
<1>2. DOMAIN frames = 1 .. Len(frames) /\ Len(frames) \in Nat
  BY <1>1, LenProperties
<1>3. QED
  BY <1>1, <1>2 DEF NoSearch, Pumping, At, Top, Depth, SInv, SearchOnTop

\* Frames that have as many threads as before launch nothing.
LEMMA NothingLaunched ==
  ASSUME FramesSound(frames),
         \A v \in Variants :
           ThreadsOfVariant(v, frames') = ThreadsOfVariant(v, frames)
  PROVE  Silent
<1>1. \A v \in Variants : ThreadsOfVariant(v, frames) \in Nat
  BY CountType DEF FramesSound
<1>2. QED
  BY <1>1 DEF Silent, Launches

\* Consider launches no variant but the one it is given.
LEMMA ConsiderSilent ==
  ASSUME FramesSound(frames), NEW hk \in HotkeyIDs, NEW v \in Variants,
         NEW below \in Seq(Frame), NoSearch(below), FramesTraced(below),
         \A u \in Variants :
           ThreadsOfVariant(u, frames) = ThreadsOfVariant(u, below),
         Consider(hk, v, below), UNCHANGED Criterion,
         Eligible(v) \/ HotIf(v) \/ BeforeHotIf(v)
  PROVE  FramesTraced(frames)' /\ SearchOnTop(frames)' /\ Fresh' /\ Silent
<1>1. CASE frames' = below
  BY <1>1, StackStays, NothingLaunched
<1>2. CASE frames' = Append(below, [at |-> "thread", hk |-> hk, v |-> v,
                                    i |-> 0])
  <2> DEFINE f == [at |-> "thread", hk |-> hk, v |-> v, i |-> 0]
  <2>1. f \in Frame /\ Traced(f) /\ f.at = "thread" /\ f.v = v
    BY DEF Frame, Traced
  <2> HIDE DEF f
  <2>2. FramesTraced(frames)' /\ SearchOnTop(frames)' /\ Fresh'
    BY <1>2, <2>1, StackGrows DEF f
  <2>3. \A u \in Variants :
          /\ ThreadsOfVariant(u, below) \in Nat
          /\ ThreadsOfVariant(u, frames') =
               ThreadsOfVariant(u, below) + (IF u = v THEN 1 ELSE 0)
    BY <1>2, <2>1, CountPush, CountType DEF f
  <2>4. \A u \in Variants : Launches(u) => u = v
    BY <2>3 DEF Launches
  <2>5. Silent
    BY <2>4 DEF Silent
  <2>6. QED
    BY <2>2, <2>5
<1>3. QED
  BY <1>1, <1>2 DEF Consider

\* Steps that leave the frames and the switches alone.
LEMMA FramesLeftSilent ==
  ASSUME IInv, SInv, UNCHANGED <<Criterion, frames, mEnabled, g_IsSuspended>>
  PROVE  FramesTraced(frames)' /\ SearchOnTop(frames)' /\ Fresh' /\ Silent
<1>1. FramesTraced(frames)'
  BY DEF SInv, FramesTraced, Traced, HotIf
<1>2. SearchOnTop(frames)'
  BY DEF SInv, SearchOnTop
<1>3. Fresh'
  BY DEF SInv, Fresh, At, Top, Depth, Eligible, BeforeHotIf
<1>4. Silent
  BY NothingLaunched DEF IInv, Counts
<1>5. QED
  BY <1>1, <1>2, <1>3, <1>4

----------------------------------------------------------------------------
(* What becomes of the queue. *)

\* A message put into the queue.
LEMMA PostTraced ==
  ASSUME Others, QueueTraced, UNCHANGED Criterion,
         NEW message \in Message, Post(message),
         message.variant # None => HotIf(message.variant)
  PROVE  QueueTraced'
<1>1. /\ queue \in Seq(Message) /\ queue' = Append(queue, message)
      /\ queue' \in Seq(Message) /\ Len(queue') = Len(queue) + 1
  BY AppendProperties DEF Post, Others
<1>2. /\ DOMAIN queue = 1 .. Len(queue) /\ DOMAIN queue' = 1 .. Len(queue) + 1
      /\ Len(queue) \in Nat
  BY <1>1, LenProperties
<1>3. /\ \A j \in 1 .. Len(queue) : queue'[j] = queue[j]
      /\ queue'[Len(queue) + 1] = message
  BY <1>1, AppendProperties
<1>4. \A j \in 1 .. Len(queue) + 1 :
        queue'[j].variant # None => HotIf(queue'[j].variant)
  BY <1>2, <1>3 DEF QueueTraced
<1>5. QED
  BY <1>2, <1>4 DEF QueueTraced, HotIf

\* The queue stays.
LEMMA QueueLeft ==
  ASSUME QueueTraced, UNCHANGED <<Criterion, queue>>
  PROVE  QueueTraced'
BY DEF QueueTraced, HotIf

\* The first message is taken out of it.
LEMMA TailTraced ==
  ASSUME Others, QueueTraced, queue # <<>>, queue' = Tail(queue),
         UNCHANGED Criterion
  PROVE  /\ QueueTraced'
         /\ Head(queue) \in Message
         /\ Head(queue).variant # None => HotIf(Head(queue).variant)
<1>1. /\ queue \in Seq(Message) /\ Head(queue) \in Message
      /\ queue' \in Seq(Message) /\ Len(queue') = Len(queue) - 1
      /\ \A j \in 1 .. Len(queue') : queue'[j] = queue[j + 1]
  BY HeadTailProperties DEF Others
<1>2. /\ DOMAIN queue = 1 .. Len(queue) /\ DOMAIN queue' = 1 .. Len(queue')
      /\ Len(queue) \in Nat /\ Len(queue') \in Nat
  BY <1>1, LenProperties
<1>3. \A j \in 1 .. Len(queue') :
        queue'[j].variant # None => HotIf(queue'[j].variant)
  BY <1>1, <1>2 DEF QueueTraced
<1>4. Head(queue) = queue[1] /\ 1 \in DOMAIN queue
  BY <1>1, <1>2
<1>5. QED
  BY <1>1, <1>2, <1>3, <1>4 DEF QueueTraced, HotIf

----------------------------------------------------------------------------
(* The steps. *)

\* The hook names a variant whose expression it has evaluated; the system names
\* none.
LEMMA PressSilent ==
  ASSUME IInv, SInv, UNCHANGED Criterion, NEW hk \in HotkeyIDs,
         RegisteredPress(hk) \/ \E true \in SUBSET Variants : HookPress(hk, true)
  PROVE  SInv' /\ Silent
<1>1. UNCHANGED <<frames, mEnabled, g_IsSuspended>>
  BY DEF RegisteredPress, HookPress
<1>2. CASE RegisteredPress(hk)
  <2>1. [hk |-> hk, variant |-> None] \in Message
    BY DEF Message
  <2>2. QueueTraced'
    BY <1>2, <2>1, PostTraced DEF RegisteredPress, IInv, SInv
  <2>3. QED
    BY <1>1, <2>2, FramesLeftSilent DEF SInv
<1>3. ASSUME NEW true \in SUBSET Variants, HookPress(hk, true)
      PROVE  SInv' /\ Silent
  <2>1. PICK v \in Certain(hk, true) : Post([hk |-> hk, variant |-> v])
    BY <1>3 DEF HookPress
  <2>2. v \in Variants \cup {None} /\ (v # None => HotIf(v))
    BY ListedVariants DEF Certain, HotIf
  <2>3. [hk |-> hk, variant |-> v] \in Message
    BY <2>2 DEF Message
  <2>4. QueueTraced'
    BY <2>1, <2>2, <2>3, PostTraced DEF IInv, SInv
  <2>5. QED
    BY <1>1, <2>4, FramesLeftSilent DEF SInv
<1>4. QED
  BY <1>2, <1>3

\* The script changes its hotkeys only while no search goes on.
LEMMA SettingsSilent ==
  ASSUME IInv, SInv, UNCHANGED Criterion,
         \/ \E v \in Variants :
              \/ WindowsChange(v) \/ Enable(v) \/ Disable(v)
              \/ \E n \in Limits : SetMaxThreads(v, n)
         \/ ToggleSuspendState \/ ResetRunAgainAfterFinished
  PROVE  SInv' /\ Silent
<1>1. UNCHANGED <<queue, frames>>
  BY DEF WindowsChange, Enable, Disable, SetMaxThreads, ToggleSuspendState,
         ResetRunAgainAfterFinished
<1>2. QueueTraced'
  BY <1>1, QueueLeft DEF SInv
<1>3. CASE Pumping
  <2>1. FramesTraced(frames)' /\ SearchOnTop(frames)' /\ Fresh'
    BY <1>1, <1>3, NoneWhilePumping, StackStays DEF SInv
  <2>2. Silent
    BY <1>1, NothingLaunched DEF IInv, Counts
  <2>3. QED
    BY <1>2, <2>1, <2>2 DEF SInv
<1>4. CASE ~Pumping
  <2>1. UNCHANGED <<mEnabled, g_IsSuspended>>
    BY <1>4 DEF WindowsChange, Enable, Disable, SetMaxThreads,
         ToggleSuspendState, ResetRunAgainAfterFinished
  <2>2. QED
    BY <1>1, <1>2, <2>1, FramesLeftSilent DEF SInv
<1>5. QED
  BY <1>3, <1>4

\* The variant a message names has an expression.
LEMMA TakeMessageSilent ==
  ASSUME IInv, SInv, UNCHANGED Criterion, TakeMessage
  PROVE  SInv' /\ Silent
<1> DEFINE m == Head(queue)
<1>1. QueueTraced' /\ m \in Message /\ (m.variant # None => HotIf(m.variant))
  BY TailTraced DEF TakeMessage, IInv, SInv
<1>2. NoSearch(frames) /\ frames \in Seq(Frame) /\ FramesTraced(frames)
  BY NoneWhilePumping DEF TakeMessage, SInv
<1>3. m.hk \in HotkeyIDs /\ m.variant \in Variants \cup {None}
  BY <1>1 DEF Message
<1>4. CASE m.variant # None
  <2>1. Consider(m.hk, m.variant, frames)
    BY <1>4 DEF TakeMessage
  <2> HIDE DEF m
  <2>2. FramesTraced(frames)' /\ SearchOnTop(frames)' /\ Fresh' /\ Silent
    BY <1>1, <1>2, <1>3, <1>4, <2>1, ConsiderSilent DEF IInv, Counts
  <2>3. QED
    BY <1>1, <2>2 DEF SInv
<1>5. CASE m.variant = None
  <2> DEFINE f == [at |-> "search", hk |-> m.hk, v |-> None, i |-> 1]
  <2>1. f \in Frame /\ Traced(f) /\ f.at # "thread" /\ f.v = None
    BY <1>3 DEF Frame, Traced
  <2>2. frames' = Append(frames, f)
    BY <1>5 DEF TakeMessage
  <2> HIDE DEF f
  <2>3. FramesTraced(frames)' /\ SearchOnTop(frames)' /\ Fresh'
    BY <1>2, <2>1, <2>2, StackGrows
  <2>4. \A u \in Variants :
          ThreadsOfVariant(u, frames') = ThreadsOfVariant(u, frames)
    BY <1>2, <2>1, <2>2, CountPush, CountType
  <2>5. Silent
    BY <2>4, NothingLaunched DEF IInv, Counts
  <2>6. QED
    BY <1>1, <2>3, <2>5 DEF SInv
<1>6. QED
  BY <1>4, <1>5

\* The search's frame, or its callback's, is replaced by another of the two.
LEMMA FrameReplaced ==
  ASSUME IInv, SInv, Depth > 0, Top.at # "thread", UNCHANGED Criterion,
         NEW f \in Frame, Traced(f), f.at # "thread",
         frames' = [frames EXCEPT ![Depth] = f],
         f.at = "search" /\ f.v # None =>
           /\ UNCHANGED <<mEnabled, g_IsSuspended>>
           /\ Eligible(f.v) \/ BeforeHotIf(f.v)
  PROVE  FramesTraced(frames)' /\ SearchOnTop(frames)' /\ Fresh' /\ Silent
<1>1. frames' = Append(Below, f) /\ frames = Append(Below, Top)
  BY TopOnBelow DEF IInv, Counts
<1>2. /\ Below \in Seq(Frame) /\ Top \in Frame
      /\ NoSearch(Below) /\ FramesTraced(Below)
  BY BelowTop
<1>3. FramesTraced(frames)' /\ SearchOnTop(frames)' /\ Fresh'
  BY <1>1, <1>2, StackGrows
<1>4. ASSUME NEW u \in Variants, NEW e \in Frame, e.at # "thread"
      PROVE  ThreadsOfVariant(u, Append(Below, e)) = ThreadsOfVariant(u, Below)
  BY <1>2, <1>4, CountPush, CountType
<1>5. \A u \in Variants :
        ThreadsOfVariant(u, frames') = ThreadsOfVariant(u, frames)
  BY <1>1, <1>2, <1>4
<1>6. Silent
  BY <1>5, NothingLaunched DEF IInv, Counts
<1>7. QED
  BY <1>3, <1>6

\* The search or its callback ends in Consider.
LEMMA ConsiderOnTopSilent ==
  ASSUME IInv, SInv, Depth > 0, Top.at # "thread", UNCHANGED Criterion,
         NEW v \in Variants, Consider(Top.hk, v, Below),
         Eligible(v) \/ HotIf(v) \/ BeforeHotIf(v)
  PROVE  FramesTraced(frames)' /\ SearchOnTop(frames)' /\ Fresh' /\ Silent
<1>1. Top.hk \in HotkeyIDs /\ FramesSound(frames)
  BY TopOnBelow DEF IInv, Counts, Frame
<1>2. \A u \in Variants :
        ThreadsOfVariant(u, frames) = ThreadsOfVariant(u, Below)
  BY BelowOther DEF IInv
<1>3. QED
  BY <1>1, <1>2, BelowTop, ConsiderSilent

\* What the search has found now is eligible; what it had found is as before.
LEMMA PassSilent ==
  ASSUME IInv, SInv, UNCHANGED Criterion, Pass
  PROVE  SInv' /\ Silent
<1>1. /\ At("search") /\ Depth > 0 /\ Top.at = "search"
      /\ Top.i \in Indices(Top.hk)
  BY DEF Pass, Searching, At
<1>2. Top \in Frame /\ Traced(Top) /\ Candidate \in Variants
  BY <1>1, SearchFrame, BelowTop
<1> DEFINE new == Eligible(Candidate) /\ Criterion[Candidate] = "none"
           found == IF new THEN Candidate ELSE Top.v
           f == [Top EXCEPT !.i = @ + 1, !.v = found]
<1>3. frames' = [frames EXCEPT ![Depth] = f]
  BY DEF Pass, Top
<1>4. /\ Top.hk \in HotkeyIDs /\ Top.v \in Variants \cup {None}
      /\ Top.i \in Nat /\ Top.i + 1 \in Nat
  BY <1>2 DEF Frame
<1>5. found \in Variants \cup {None}
  BY <1>2, <1>4
<1>6. found # None =>
        /\ \E j \in Indices(Top.hk) :
             j < Top.i + 1 /\ VariantsOf[Top.hk][j] = found
        /\ Eligible(found) \/ BeforeHotIf(found)
  <2>1. CASE new
    BY <1>1, <1>4, <2>1 DEF Candidate
  <2>2. CASE ~new
    <3> SUFFICES ASSUME Top.v # None
                 PROVE  /\ \E j \in Indices(Top.hk) :
                             j < Top.i + 1 /\ VariantsOf[Top.hk][j] = Top.v
                        /\ Eligible(Top.v) \/ BeforeHotIf(Top.v)
      BY <2>2
    <3>1. PICK j \in Indices(Top.hk) :
            j < Top.i /\ VariantsOf[Top.hk][j] = Top.v
      BY <1>1, <1>2 DEF Traced
    <3>2. j \in Nat
      BY <1>4, ListedVariants
    <3>3. Eligible(Top.v) \/ BeforeHotIf(Top.v)
      BY <1>1 DEF SInv, Fresh
    <3>4. QED
      BY <1>4, <3>1, <3>2, <3>3
  <2>3. QED
    BY <2>1, <2>2
<1> HIDE DEF found
<1>7. /\ f \in Frame /\ f.at = "search" /\ f.v = found
      /\ f.i = Top.i + 1 /\ f.hk = Top.hk
  BY <1>1, <1>2, <1>4, <1>5 DEF Frame
<1> HIDE DEF f
<1>8. Traced(f)
  BY <1>6, <1>7 DEF Traced
<1>9. f.v # None => Eligible(f.v) \/ BeforeHotIf(f.v)
  BY <1>6, <1>7
<1>10. FramesTraced(frames)' /\ SearchOnTop(frames)' /\ Fresh' /\ Silent
  BY <1>1, <1>3, <1>7, <1>8, <1>9, FrameReplaced DEF Pass, switches
<1>11. QED
  BY <1>10, QueueLeft DEF Pass, SInv

\* The variant whose criterion holds is eligible.
LEMMA FireSilent ==
  ASSUME IInv, SInv, UNCHANGED Criterion, Fire
  PROVE  SInv' /\ Silent
<1>1. Depth > 0 /\ Top.at = "search" /\ Top.i \in Indices(Top.hk)
  BY DEF Fire, Searching, At
<1>2. FramesTraced(frames)' /\ SearchOnTop(frames)' /\ Fresh' /\ Silent
  BY <1>1, SearchFrame, ConsiderOnTopSilent DEF Fire
<1>3. QED
  BY <1>2, QueueLeft DEF Fire, SInv

\* A callback begins, for an expression.
LEMMA EvalSilent ==
  ASSUME IInv, SInv, UNCHANGED Criterion, Eval
  PROVE  SInv' /\ Silent
<1> DEFINE f == [Top EXCEPT !.at = "eval"]
<1>1. Depth > 0 /\ Top.at = "search" /\ Top.i \in Indices(Top.hk)
  BY DEF Eval, Searching, At
<1>2. Top \in Frame /\ Traced(Top)
  BY <1>1, BelowTop
<1>3. frames' = [frames EXCEPT ![Depth] = f]
  BY DEF Eval, Top
<1>4. /\ f \in Frame /\ f.at = "eval"
      /\ f.v = Top.v /\ f.i = Top.i /\ f.hk = Top.hk
  BY <1>2 DEF Frame
<1> HIDE DEF f
<1>5. HotIf(VariantsOf[Top.hk][Top.i])
  BY DEF Eval, Candidate, HotIf
<1>6. Traced(f)
  BY <1>1, <1>2, <1>4, <1>5 DEF Traced
<1>7. FramesTraced(frames)' /\ SearchOnTop(frames)' /\ Fresh' /\ Silent
  BY <1>1, <1>3, <1>4, <1>6, FrameReplaced
<1>8. QED
  BY <1>7, QueueLeft DEF Eval, SInv

\* The callback's variant has an expression, and what was found before it comes
\* before an expression.
LEMMA EvalReturnsSilent ==
  ASSUME IInv, SInv, UNCHANGED Criterion,
         NEW result \in BOOLEAN, EvalReturns(result)
  PROVE  SInv' /\ Silent
<1> SUFFICES FramesTraced(frames)' /\ SearchOnTop(frames)' /\ Fresh' /\ Silent
  BY QueueLeft DEF EvalReturns, SInv
<1>1. Depth > 0 /\ Top.at = "eval"
  BY DEF EvalReturns, At
<1>2. /\ Top \in Frame /\ Traced(Top)
      /\ Top.i \in Indices(Top.hk) /\ Candidate \in Variants
  BY <1>1, SearchFrame, BelowTop
<1>3. HotIf(Candidate)
  BY <1>1, <1>2 DEF Traced, Candidate
<1>4. CASE result
  BY <1>1, <1>2, <1>3, <1>4, ConsiderOnTopSilent DEF EvalReturns
<1>5. CASE ~result
  <2> DEFINE f == [Top EXCEPT !.at = "search", !.i = @ + 1]
  <2>1. frames' = [frames EXCEPT ![Depth] = f]
    BY <1>5 DEF EvalReturns, Top
  <2>2. Top.hk \in HotkeyIDs /\ Top.i \in Nat /\ Top.i + 1 \in Nat
    BY <1>2 DEF Frame
  <2>3. /\ f \in Frame /\ f.at = "search"
        /\ f.v = Top.v /\ f.i = Top.i + 1 /\ f.hk = Top.hk
    BY <1>2, <2>2 DEF Frame
  <2> HIDE DEF f
  <2>4. Top.v # None =>
          /\ \E j \in Indices(Top.hk) :
               j < Top.i + 1 /\ VariantsOf[Top.hk][j] = Top.v
          /\ BeforeHotIf(Top.v)
    <3> SUFFICES ASSUME Top.v # None
                 PROVE  /\ \E j \in Indices(Top.hk) :
                             j < Top.i + 1 /\ VariantsOf[Top.hk][j] = Top.v
                        /\ BeforeHotIf(Top.v)
      OBVIOUS
    <3>1. PICK j \in Indices(Top.hk) :
            j < Top.i /\ VariantsOf[Top.hk][j] = Top.v
      BY <1>1, <1>2 DEF Traced
    <3>2. j \in Nat
      BY <2>2, ListedVariants
    <3>3. BeforeHotIf(Top.v)
      BY <1>2, <1>3, <2>2, <3>1 DEF BeforeHotIf, HotIf, Candidate
    <3>4. QED
      BY <2>2, <3>1, <3>2, <3>3
  <2>5. Traced(f)
    BY <2>3, <2>4 DEF Traced
  <2>6. QED
    BY <1>1, <2>1, <2>3, <2>4, <2>5, FrameReplaced DEF EvalReturns, switches
<1>6. QED
  BY <1>4, <1>5

\* What is launched at the end is what was found.
LEMMA SearchEndsSilent ==
  ASSUME IInv, SInv, UNCHANGED Criterion, SearchEnds
  PROVE  SInv' /\ Silent
<1> SUFFICES FramesTraced(frames)' /\ SearchOnTop(frames)' /\ Fresh' /\ Silent
  BY QueueLeft DEF SearchEnds, SInv
<1>1. At("search") /\ Depth > 0 /\ Top.at = "search"
  BY DEF SearchEnds, At
<1>2. CASE Top.v = None
  <2>1. frames' = Below
    BY <1>2 DEF SearchEnds
  <2>2. Silent
    BY <1>1, <2>1, BelowOther, NothingLaunched DEF IInv, Counts
  <2>3. QED
    BY <1>1, <2>1, <2>2, BelowTop, StackStays
<1>3. CASE Top.v # None
  <2>1. Top.v \in Variants
    BY <1>1, <1>3, SearchFrame DEF Frame
  <2>2. Eligible(Top.v) \/ BeforeHotIf(Top.v)
    BY <1>1, <1>3 DEF SInv, Fresh
  <2>3. QED
    BY <1>1, <1>3, <2>1, <2>2, ConsiderOnTopSilent DEF SearchEnds
<1>4. QED
  BY <1>2, <1>3

\* The end of a thread launches nothing.
LEMMA ThreadEndsSilent ==
  ASSUME IInv, SInv, UNCHANGED Criterion, NEW failed \in BOOLEAN,
         NEW old \in BOOLEAN, ThreadEnds(failed, old)
  PROVE  SInv' /\ Silent
<1>1. Depth > 0 /\ Top.at = "thread" /\ frames' = Below
  BY DEF ThreadEnds, At
<1>2. /\ Below \in Seq(Frame) /\ Top \in Frame
      /\ NoSearch(Below) /\ FramesTraced(Below)
  BY <1>1, BelowTop
<1>3. FramesTraced(frames)' /\ SearchOnTop(frames)' /\ Fresh'
  BY <1>1, <1>2, StackStays
<1>4. \A u \in Variants :
        /\ ThreadsOfVariant(u, Below) \in Nat
        /\ ThreadsOfVariant(u, frames) >= ThreadsOfVariant(u, Below)
  <2>1. frames = Append(Below, Top)
    BY <1>1, TopOnBelow DEF IInv, Counts
  <2>2. QED
    BY <1>2, <2>1, CountPush, CountType
<1>5. Silent
  <2>1. \A u \in Variants : ThreadsOfVariant(u, frames) \in Nat
    BY CountType DEF IInv, Counts, FramesSound
  <2>2. QED
    BY <1>1, <1>4, <2>1 DEF Silent, Launches
<1>6. QueueTraced'
  <2>1. [hk |-> Top.hk, variant |-> None] \in Message
    BY <1>2 DEF Message, Frame
  <2>2. CASE Post([hk |-> Top.hk, variant |-> None])
    BY <2>1, <2>2, PostTraced DEF IInv, SInv
  <2>3. CASE UNCHANGED queue
    BY <2>3, QueueLeft DEF SInv
  <2>4. QED
    BY <2>2, <2>3 DEF ThreadEnds
<1>7. QED
  BY <1>3, <1>5, <1>6 DEF SInv

----------------------------------------------------------------------------
(* The specification. *)

\* The initial states satisfy the invariant.
LEMMA InitSilent == Init => SInv
<1> SUFFICES ASSUME Init PROVE SInv
  OBVIOUS
<1>1. /\ frames = <<>> /\ queue = <<>>
      /\ Len(frames) = 0 /\ DOMAIN frames = {} /\ DOMAIN queue = {}
  BY DEF Init
<1>2. ~At("search")
  BY <1>1 DEF At, Depth
<1>3. QED
  BY <1>1, <1>2 DEF SInv, QueueTraced, FramesTraced, SearchOnTop, Fresh

\* Every step preserves the invariant and launches no variant turned off.
LEMMA NextSilent == IInv /\ SInv /\ [Next]_vars => SInv' /\ (Silent \/ UNCHANGED vars)
<1> SUFFICES ASSUME IInv, SInv, [Next]_vars
             PROVE  SInv' /\ (Silent \/ UNCHANGED vars)
  OBVIOUS
<1>1. CASE UNCHANGED vars
  BY <1>1, FramesLeftSilent, QueueLeft DEF vars, SInv
<1>2. ASSUME Next PROVE SInv' /\ Silent
  <2> UNCHANGED Criterion /\ Steps
    BY <1>2 DEF Next
  <2>1. ASSUME NEW hk \in HotkeyIDs,
               \/ RegisteredPress(hk)
               \/ \E true \in SUBSET Variants : HookPress(hk, true)
        PROVE  SInv' /\ Silent
    BY <2>1, PressSilent
  <2>2. CASE \/ \E v \in Variants :
                  \/ WindowsChange(v) \/ Enable(v) \/ Disable(v)
                  \/ \E n \in Limits : SetMaxThreads(v, n)
             \/ ToggleSuspendState \/ ResetRunAgainAfterFinished
    BY <2>2, SettingsSilent
  <2>3. CASE TakeMessage
    BY <2>3, TakeMessageSilent
  <2>4. CASE Pass
    BY <2>4, PassSilent
  <2>5. CASE Fire
    BY <2>5, FireSilent
  <2>6. CASE Eval
    BY <2>6, EvalSilent
  <2>7. ASSUME NEW result \in BOOLEAN, EvalReturns(result)
        PROVE  SInv' /\ Silent
    BY <2>7, EvalReturnsSilent
  <2>8. CASE SearchEnds
    BY <2>8, SearchEndsSilent
  <2>9. ASSUME NEW failed \in BOOLEAN, NEW old \in BOOLEAN,
               ThreadEnds(failed, old)
        PROVE  SInv' /\ Silent
    BY <2>9, ThreadEndsSilent
  <2>10. QED
    BY <2>1, <2>2, <2>3, <2>4, <2>5, <2>6, <2>7, <2>8, <2>9 DEF Steps
<1>3. QED
  BY <1>1, <1>2

\* A press still queued when its variant is turned off, or the script suspended,
\* does not launch it (CriterionAllowsFiring looks at mEnabled and g_IsSuspended
\* again), unless script code ran within the search itself.
THEOREM SilentWhenOff == Spec => TurnedOffStaysSilent
<1>1. IInv /\ SInv /\ [Next]_vars => SInv'
  BY NextSilent
<1>2. IInv /\ SInv /\ [Next]_vars =>
        [\A v \in Variants :
           Launches(v) =>
             Eligible(v) \/ Criterion[v] = "hotif" \/ BeforeHotIf(v)]_vars
  BY NextSilent DEF Silent, HotIf
<1>3. Spec => []SInv
  BY InitSilent, Invariance, <1>1, PTL DEF Spec
<1>4. QED
  BY <1>2, <1>3, Invariance, PTL DEF Spec, TurnedOffStaysSilent

=============================================================================
