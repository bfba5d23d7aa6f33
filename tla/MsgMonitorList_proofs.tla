----------------------- MODULE MsgMonitorList_proofs -----------------------
(***************************************************************************)
(* The passes over a MsgMonitorList keep their positions right, whatever   *)
(* their callbacks add, delete or dispose of, and however deep they nest:  *)
(* proofs for every list of callbacks and every value of the constants.    *)
(*                                                                         *)
(* What ties a pass to the array is the part of it that is still ahead:    *)
(* the positions from Coming(inst) to inst.count.  Add, Delete and Dispose *)
(* move that part with the callbacks in it; everything else follows.       *)
(***************************************************************************)
EXTENDS MsgMonitorList, FiniteSetTheorems, SequenceTheorems, TLAPS

\* The position that the pass will look at next.
Coming(inst) == IF inst.at = "run" THEN inst.index + 1 ELSE inst.index

\* The array has its type, and no callback is in it twice.
ArrayInv ==
  /\ list \in Lists
  /\ mMonitor \in Seq(MsgMonitorStruct)
  /\ \A a, b \in 1 .. mCount : mMonitor[a].key = mMonitor[b].key => a = b
  /\ disposed \in BOOLEAN /\ (disposed => mCount = 0)

\* The passes have their types; all but the innermost are in a callback.
PassesInv ==
  /\ mTop \in Seq(MsgMonitorInstance)
  /\ \A i \in 1 .. Depth - 1 : mTop[i].at = "run"

\* What is ahead of a pass is in the array, and is what it still has to visit.
Ahead(inst) ==
  /\ Coming(inst) >= 0 /\ inst.count <= mCount
  /\ \A j \in Int : j >= Coming(inst) /\ j < inst.count /\ At(j).key.msg = inst.msg
                      => At(j).key \in inst.todo

\* The callback that a pass is calling is where the pass says, or it is deleted.
Found(inst) ==
  inst.at = "run" =>
    /\ inst.key \in Keys /\ inst.key.msg = inst.msg
    /\ inst.gone => inst.deleted
    /\ ~inst.gone => inst.index \in 0 .. mCount - 1 /\ At(inst.index).key = inst.key

\* Unless callbacks are appended, nothing else is left to visit.
NothingElse(inst) ==
  "last" \notin list.placements =>
    /\ inst.count = mCount
    /\ \A k \in inst.todo : \E j \in Int :
         j >= Coming(inst) /\ j < inst.count /\ At(j).key = k

PositionsInv ==
  \A i \in 1 .. Depth : Ahead(mTop[i]) /\ Found(mTop[i]) /\ NothingElse(mTop[i])

Inv == ArrayInv /\ PassesInv /\ PositionsInv

----------------------------------------------------------------------------
(* Sequences *)

\* What is left of a sequence when one element of it is removed.
LEMMA RemoveAtFacts ==
  ASSUME NEW S, NEW s \in Seq(S), NEW i \in 1 .. Len(s)
  PROVE  /\ RemoveAt(s, i) \in Seq(S)
         /\ Len(RemoveAt(s, i)) = Len(s) - 1
         /\ \A j \in 1 .. Len(s) - 1 :
              RemoveAt(s, i)[j] = IF j < i THEN s[j] ELSE s[j + 1]
<1> DEFINE a == SubSeq(s, 1, i - 1)
           b == SubSeq(s, i + 1, Len(s))
<1>1. /\ a \in Seq(S) /\ Len(a) = i - 1
      /\ \A j \in 1 .. i - 1 : a[j] = s[j]
  OBVIOUS
<1>2. /\ b \in Seq(S) /\ Len(b) = Len(s) - i
      /\ \A j \in 1 .. Len(s) - i : b[j] = s[i + j]
  OBVIOUS
<1>3. RemoveAt(s, i) = a \o b
  BY DEF RemoveAt
<1> HIDE DEF a, b
<1>4. /\ a \o b \in Seq(S) /\ Len(a \o b) = Len(a) + Len(b)
      /\ \A j \in 1 .. Len(a) + Len(b) :
           (a \o b)[j] = IF j <= Len(a) THEN a[j] ELSE b[j - Len(a)]
  BY <1>1, <1>2, ConcatProperties
<1>5. Len(s) \in Nat /\ Len(a) + Len(b) = Len(s) - 1
  BY <1>1, <1>2
<1>6. ASSUME NEW j \in 1 .. Len(s) - 1
      PROVE  (a \o b)[j] = IF j < i THEN s[j] ELSE s[j + 1]
  <2>1. CASE j < i
    BY <1>1, <1>4, <1>5, <2>1
  <2>2. CASE ~(j < i)
    <3>1. j - Len(a) \in 1 .. Len(s) - i /\ i + (j - Len(a)) = j + 1
      BY <1>1, <1>5, <2>2
    <3>2. (a \o b)[j] = b[j - Len(a)]
      BY <1>1, <1>4, <1>5, <2>2
    <3>3. QED
      BY <1>2, <2>2, <3>1, <3>2
  <2>3. QED
    BY <2>1, <2>2
<1>7. QED
  BY <1>3, <1>4, <1>5, <1>6

\* All but the last element.
LEMMA FrontFacts ==
  ASSUME NEW S, NEW s \in Seq(S), Len(s) > 0
  PROVE  /\ Front(s) \in Seq(S)
         /\ Len(Front(s)) = Len(s) - 1
         /\ \A j \in 1 .. Len(s) - 1 : Front(s)[j] = s[j]
<1>1. PICK n \in 1 .. Len(s) : n = Len(s)
  OBVIOUS
<1>2. /\ SubSeq(s, 1, n - 1) \in Seq(S) /\ Len(SubSeq(s, 1, n - 1)) = n - 1
      /\ \A j \in 1 .. n - 1 : SubSeq(s, 1, n - 1)[j] = s[j]
  OBVIOUS
<1>3. QED
  BY <1>1, <1>2 DEF Front

----------------------------------------------------------------------------
(* Types *)

\* What the array and the passes hold.
LEMMA Elements ==
  ASSUME ArrayInv, PassesInv
  PROVE  /\ mCount \in Nat /\ Depth \in Nat
         /\ \A a \in 1 .. mCount : mMonitor[a] \in MsgMonitorStruct
         /\ \A i \in 1 .. Depth : mTop[i] \in MsgMonitorInstance
BY DEF ArrayInv, PassesInv, mCount, Depth

\* The fields of a pass.
LEMMA PassFields ==
  ASSUME NEW inst \in MsgMonitorInstance
  PROVE  /\ inst.index \in Int /\ inst.count \in Int /\ Coming(inst) \in Int
         /\ inst.at \in {"scan", "run"} /\ inst.msg \in Msgs
         /\ inst.deleted \in BOOLEAN /\ inst.gone \in BOOLEAN
         /\ inst.todo \subseteq Keys
BY DEF MsgMonitorInstance, Coming

\* A pass that has moved up by one.
LEMMA ShiftedFields ==
  ASSUME NEW inst \in MsgMonitorInstance
  PROVE  LET s == Shifted(inst)
         IN  /\ s \in MsgMonitorInstance
             /\ s.index = inst.index + 1 /\ s.count = inst.count + 1
             /\ s.at = inst.at /\ s.msg = inst.msg /\ s.key = inst.key
             /\ s.todo = inst.todo /\ s.gone = inst.gone /\ s.deleted = inst.deleted
<1>1. inst.index + 1 \in Int /\ inst.count + 1 \in Int
  BY PassFields
<1>2. Shifted(inst) \in MsgMonitorInstance
  BY <1>1 DEF MsgMonitorInstance, Shifted
<1>3. /\ Shifted(inst).index = inst.index + 1 /\ Shifted(inst).count = inst.count + 1
  BY DEF MsgMonitorInstance, Shifted
<1>4. /\ Shifted(inst).at = inst.at /\ Shifted(inst).msg = inst.msg
      /\ Shifted(inst).key = inst.key /\ Shifted(inst).todo = inst.todo
  BY DEF MsgMonitorInstance, Shifted
<1>5. Shifted(inst).gone = inst.gone /\ Shifted(inst).deleted = inst.deleted
  BY DEF MsgMonitorInstance, Shifted
<1>6. QED
  BY <1>2, <1>3, <1>4, <1>5

\* The place of a registered callback.
LEMMA FindFacts ==
  ASSUME ArrayInv, NEW key \in Registered
  PROVE  /\ Find(key) \in 0 .. mCount - 1
         /\ At(Find(key)).key = key
<1>1. mCount \in Nat
  BY DEF ArrayInv, mCount
<1>2. PICK a \in 1 .. mCount : mMonitor[a].key = key
  BY DEF Registered
<1>3. a - 1 \in 0 .. mCount - 1 /\ At(a - 1).key = key
  BY <1>1, <1>2 DEF At
<1>4. QED
  BY <1>3 DEF Find

\* While script code runs, every pass is in a callback.
LEMMA PassesInScript ==
  ASSUME Inv, InScript
  PROVE  \A i \in 1 .. Depth : /\ mTop[i] \in MsgMonitorInstance /\ mTop[i].at = "run"
                               /\ Ahead(mTop[i]) /\ Found(mTop[i]) /\ NothingElse(mTop[i])
<1>1. /\ Depth \in Nat
      /\ \A i \in 1 .. Depth : mTop[i] \in MsgMonitorInstance
  BY Elements DEF Inv
<1>2. \A i \in 1 .. Depth : mTop[i].at = "run"
  BY <1>1 DEF Inv, PassesInv, InScript, Top
<1>3. QED
  BY <1>1, <1>2 DEF Inv, PositionsInv

\* Everything about passes is kept while the callbacks stay where they are.
LEMMA KeysKept ==
  ASSUME ArrayInv, list' = list, mCount' = mCount,
         \A a \in 1 .. mCount : mMonitor'[a].key = mMonitor[a].key,
         NEW inst \in MsgMonitorInstance
  PROVE  /\ Ahead(inst) => Ahead(inst)'
         /\ Ahead(inst) /\ Found(inst) => Found(inst)'
         /\ Ahead(inst) /\ NothingElse(inst) => NothingElse(inst)'
<1>1. mCount \in Nat
  BY DEF ArrayInv, mCount
<1>2. \A j \in 0 .. mCount - 1 : At(j)'.key = At(j).key
  BY <1>1 DEF At
<1>3. Coming(inst) \in Int /\ inst.count \in Int /\ Keys' = Keys
  BY PassFields DEF Keys
<1>4. ASSUME Ahead(inst) PROVE Ahead(inst)'
  BY <1>1, <1>2, <1>3, <1>4 DEF Ahead
<1>5. ASSUME Found(inst) PROVE Found(inst)'
  BY <1>1, <1>2, <1>3, <1>5 DEF Found
<1>6. ASSUME Ahead(inst), NothingElse(inst) PROVE NothingElse(inst)'
  BY <1>1, <1>2, <1>3, <1>6 DEF NothingElse, Ahead
<1>7. QED
  BY <1>4, <1>5, <1>6

----------------------------------------------------------------------------
(* The script changes the list *)

\* A callback is added in front: everything moves by one, and so do the passes.
LEMMA AddFirstInv ==
  ASSUME Inv, list' = list, ~disposed, disposed' = disposed,
         NEW new \in MsgMonitorStruct, new.key \notin Registered,
         mMonitor' = <<new>> \o mMonitor,
         mTop' = [i \in 1 .. Depth |-> Shifted(mTop[i])],
         InScript
  PROVE  Inv'
<1>1. mCount \in Nat /\ Depth \in Nat
  BY Elements DEF Inv
<1>2. /\ mMonitor' \in Seq(MsgMonitorStruct) /\ mCount' = mCount + 1
      /\ mMonitor'[1] = new
      /\ \A a \in 1 .. mCount : mMonitor'[a + 1] = mMonitor[a]
  <2>1. <<new>> \in Seq(MsgMonitorStruct) /\ Len(<<new>>) = 1 /\ <<new>>[1] = new
    OBVIOUS
  <2>2. mMonitor \in Seq(MsgMonitorStruct)
    BY DEF Inv, ArrayInv
  <2> DEFINE one == <<new>>
  <2> HIDE DEF one
  <2>3. /\ one \o mMonitor \in Seq(MsgMonitorStruct)
        /\ Len(one \o mMonitor) = Len(one) + Len(mMonitor)
        /\ \A i \in 1 .. Len(one) + Len(mMonitor) : (one \o mMonitor)[i] =
              IF i <= Len(one) THEN one[i] ELSE mMonitor[i - Len(one)]
    BY <2>1, <2>2, ConcatProperties DEF one
  <2>4. mMonitor' = one \o mMonitor /\ Len(one) = 1 /\ one[1] = new
    BY <2>1 DEF one
  <2>5. QED
    BY <1>1, <2>3, <2>4 DEF mCount
<1>3. ASSUME NEW a \in 1 .. mCount', a # 1
      PROVE  a - 1 \in 1 .. mCount /\ mMonitor'[a] = mMonitor[a - 1]
  <2>1. PICK b \in 1 .. mCount : b + 1 = a
    BY <1>1, <1>2, <1>3
  <2>2. a - 1 = b
    BY <2>1
  <2>3. QED
    BY <1>2, <2>1, <2>2
<1>4. ArrayInv'
  <2>1. \A a \in 1 .. mCount : mMonitor[a].key # new.key
    BY DEF Registered
  <2>2. ASSUME NEW a \in 1 .. mCount', NEW b \in 1 .. mCount',
               mMonitor'[a].key = mMonitor'[b].key
        PROVE  a = b
    <3>1. CASE a = 1 \/ b = 1
      BY <1>2, <1>3, <2>1, <2>2, <3>1
    <3>2. CASE a # 1 /\ b # 1
      <4>1. a - 1 = b - 1
        BY <1>3, <2>2, <3>2, ZenonT(60) DEF Inv, ArrayInv
      <4>2. a \in Int /\ b \in Int
        BY <1>1, <1>2
      <4>3. QED
        BY <4>1, <4>2
    <3>3. QED
      BY <3>1, <3>2
  <2>3. QED
    BY <1>2, <2>2 DEF Inv, ArrayInv, MsgMonitorStruct, Keys
<1>5. ASSUME NEW j \in 0 .. mCount - 1 PROVE At(j + 1)' = At(j)
  <2>1. j + 1 \in 1 .. mCount
    BY <1>1
  <2>2. QED
    BY <1>2, <2>1 DEF At
<1>6. \A i \in 1 .. Depth : /\ mTop[i] \in MsgMonitorInstance /\ mTop[i].at = "run"
                            /\ Ahead(mTop[i]) /\ Found(mTop[i]) /\ NothingElse(mTop[i])
  BY PassesInScript
<1>7. ASSUME NEW inst \in MsgMonitorInstance, inst.at = "run",
             Ahead(inst), Found(inst), NothingElse(inst)
      PROVE  /\ Shifted(inst) \in MsgMonitorInstance' /\ Shifted(inst).at = "run"
             /\ Ahead(Shifted(inst))' /\ Found(Shifted(inst))' /\ NothingElse(Shifted(inst))'
  <2> DEFINE s == Shifted(inst)
  <2>1. /\ s \in MsgMonitorInstance /\ s.index = inst.index + 1 /\ s.count = inst.count + 1
        /\ s.at = "run" /\ s.msg = inst.msg /\ s.key = inst.key /\ s.todo = inst.todo
        /\ s.gone = inst.gone /\ s.deleted = inst.deleted
    BY <1>7, ShiftedFields
  <2> HIDE DEF s
  <2>2. /\ inst.index \in Int /\ inst.count \in Int
        /\ Coming(inst) = inst.index + 1 /\ Coming(s) = inst.index + 2
    BY <1>7, <2>1, PassFields DEF Coming
  <2>3. MsgMonitorInstance' = MsgMonitorInstance /\ Keys' = Keys
    BY DEF MsgMonitorInstance, Msgs, Keys
  <2>4. Ahead(s)'
    <3>1. inst.index + 1 >= 0 /\ inst.count <= mCount
      BY <1>7, <2>2 DEF Ahead
    <3>2. ASSUME NEW j \in Int, j >= inst.index + 2, j < inst.count + 1, At(j)'.key.msg = inst.msg
          PROVE  At(j)'.key \in inst.todo
      <4>1. PICK i \in 0 .. mCount - 1 : i + 1 = j /\ i >= inst.index + 1 /\ i < inst.count
        BY <1>1, <2>2, <3>1, <3>2, SMTT(30)
      <4>2. At(j)' = At(i)
        BY <1>5, <4>1
      <4>3. QED
        BY <1>7, <2>2, <3>2, <4>1, <4>2 DEF Ahead
    <3>3. QED
      BY <1>1, <1>2, <2>1, <2>2, <3>1, <3>2 DEF Ahead, Coming
  <2>5. Found(s)'
    BY <1>1, <1>2, <1>5, <1>7, <2>1, <2>2, <2>3, SMTT(30) DEF Found
  <2>6. NothingElse(s)'
    <3>1. ASSUME "last" \notin list.placements
          PROVE  /\ s.count = mCount'
                 /\ \A k \in s.todo : \E j \in Int :
                      j >= Coming(s) /\ j < s.count /\ At(j)'.key = k
      <4>1. inst.count = mCount
        BY <1>7, <3>1 DEF NothingElse
      <4>2. ASSUME NEW k \in inst.todo
            PROVE  \E j \in Int : j >= Coming(s) /\ j < s.count /\ At(j)'.key = k
        <5>1. PICK j \in Int : j >= Coming(inst) /\ j < inst.count /\ At(j).key = k
          BY <1>7, <3>1, <4>2 DEF NothingElse
        <5>2. j \in 0 .. mCount - 1
          BY <1>1, <1>7, <2>2, <5>1 DEF Ahead
        <5>3. WITNESS j + 1 \in Int
        <5>4. QED
          BY <1>5, <2>1, <2>2, <5>1, <5>2
      <4>3. QED
        BY <1>2, <2>1, <4>1, <4>2
    <3>2. QED
      BY <3>1 DEF NothingElse, Coming
  <2>7. QED
    BY <2>1, <2>3, <2>4, <2>5, <2>6 DEF s
<1>8. PassesInv'
  <2>1. Depth' = Depth /\ \A i \in 1 .. Depth : mTop'[i] = Shifted(mTop[i])
    BY <1>1 DEF Depth
  <2>2. \A i \in 1 .. Depth : mTop'[i] \in MsgMonitorInstance' /\ mTop'[i].at = "run"
    BY <1>6, <1>7, <2>1
  <2>3. mTop' \in Seq(MsgMonitorInstance')
    BY <1>1, <2>1, <2>2
  <2>4. QED
    BY <1>1, <2>1, <2>2, <2>3 DEF PassesInv
<1>9. PositionsInv'
  <2>1. Depth' = Depth /\ \A i \in 1 .. Depth : mTop'[i] = Shifted(mTop[i])
    BY <1>1 DEF Depth
  <2>2. ASSUME NEW i \in 1 .. Depth
        PROVE  Ahead(mTop[i])' /\ Found(mTop[i])' /\ NothingElse(mTop[i])'
    <3>1. PICK x : x = mTop[i]
      OBVIOUS
    <3>2. /\ Ahead(Shifted(x))' /\ Found(Shifted(x))' /\ NothingElse(Shifted(x))'
      BY <1>6, <1>7, <3>1
    <3>3. PICK y : y = Shifted(x)
      OBVIOUS
    <3>4. Ahead(y)' /\ Found(y)' /\ NothingElse(y)' /\ mTop'[i] = y
      BY <2>1, <3>1, <3>2, <3>3
    <3>5. QED
      BY <3>4 DEF Ahead, Found, NothingElse, Coming
  <2>3. QED
    BY <2>1, <2>2 DEF PositionsInv
<1>10. QED
  BY <1>4, <1>8, <1>9 DEF Inv


\* A callback is added at the end, beyond what any pass will look at.
LEMMA AddLastInv ==
  ASSUME Inv, list' = list, ~disposed, disposed' = disposed, mTop' = mTop,
         "last" \in list.placements,
         NEW new \in MsgMonitorStruct, new.key \notin Registered,
         mMonitor' = Append(mMonitor, new)
  PROVE  Inv'
<1>1. mCount \in Nat /\ Depth \in Nat
  BY Elements DEF Inv
<1>2. /\ mMonitor' \in Seq(MsgMonitorStruct) /\ mCount' = mCount + 1
      /\ mMonitor'[mCount + 1] = new
      /\ \A a \in 1 .. mCount : mMonitor'[a] = mMonitor[a]
  BY DEF Inv, ArrayInv, mCount
<1>3. \A a \in 1 .. mCount : mMonitor[a].key # new.key
  BY DEF Registered
<1>4. \A a, b \in 1 .. mCount' : mMonitor'[a].key = mMonitor'[b].key => a = b
  BY <1>1, <1>2, <1>3 DEF Inv, ArrayInv
<1>5. ArrayInv'
  BY <1>2, <1>4 DEF Inv, ArrayInv, MsgMonitorStruct, Keys
<1>6. PassesInv'
  BY DEF Inv, PassesInv, Depth, MsgMonitorInstance, Msgs, Keys
<1>7. ASSUME NEW j \in 0 .. mCount - 1 PROVE At(j)' = At(j)
  <2>1. j + 1 \in 1 .. mCount
    BY <1>1
  <2>2. QED
    BY <1>2, <2>1 DEF At
<1>8. ASSUME NEW inst \in MsgMonitorInstance, Ahead(inst), Found(inst)
      PROVE  Ahead(inst)' /\ Found(inst)' /\ NothingElse(inst)'
  <2>1. Coming(inst) \in Int /\ inst.count \in Int /\ Keys' = Keys
    BY PassFields DEF Keys
  <2>2. Ahead(inst)'
    BY <1>1, <1>2, <1>7, <1>8, <2>1, SMTT(30) DEF Ahead
  <2>3. Found(inst)'
    BY <1>1, <1>2, <1>7, <1>8, <2>1 DEF Found
  <2>4. QED
    BY <2>2, <2>3 DEF NothingElse
<1>9. PositionsInv'
  <2>1. ASSUME NEW i \in 1 .. Depth
        PROVE  Ahead(mTop[i])' /\ Found(mTop[i])' /\ NothingElse(mTop[i])'
    <3>1. PICK x \in MsgMonitorInstance : x = mTop[i]
      BY Elements DEF Inv
    <3>2. Ahead(x)' /\ Found(x)' /\ NothingElse(x)'
      BY <1>8, <3>1 DEF Inv, PositionsInv
    <3>3. QED
      BY <3>1, <3>2 DEF Ahead, Found, NothingElse, Coming
  <2>2. QED
    BY <2>1 DEF PositionsInv, Depth
<1>10. QED
  BY <1>5, <1>6, <1>9 DEF Inv

\* The steps that leave every callback in its place, and the passes as they are.
LEMMA MonitorsKeptInv ==
  ASSUME Inv, list' = list, disposed' = disposed, mTop' = mTop,
         mMonitor' \in Seq(MsgMonitorStruct), mCount' = mCount,
         \A a \in 1 .. mCount : mMonitor'[a].key = mMonitor[a].key
  PROVE  Inv'
<1>1. ArrayInv'
  BY DEF Inv, ArrayInv, MsgMonitorStruct, Keys
<1>2. PassesInv'
  BY DEF Inv, PassesInv, Depth, MsgMonitorInstance, Msgs, Keys
<1>3. PositionsInv'
  <2>1. ASSUME NEW i \in 1 .. Depth
        PROVE  Ahead(mTop[i])' /\ Found(mTop[i])' /\ NothingElse(mTop[i])'
    <3>1. PICK x \in MsgMonitorInstance : x = mTop[i]
      BY Elements DEF Inv
    <3>2. Ahead(x)' /\ Found(x)' /\ NothingElse(x)'
      BY <3>1, KeysKept DEF Inv, PositionsInv
    <3>3. QED
      BY <3>1, <3>2 DEF Ahead, Found, NothingElse, Coming
  <2>2. QED
    BY <2>1 DEF PositionsInv, Depth
<1>4. QED
  BY <1>1, <1>2, <1>3 DEF Inv

\* A callback's limit is changed.
LEMMA UpdateInv ==
  ASSUME Inv, list' = list, NEW key \in Keys, NEW limit \in list.limits, Update(key, limit)
  PROVE  Inv'
<1>1. PICK f \in 0 .. mCount - 1 : f = Find(key)
  BY FindFacts DEF Update, Inv
<1>2. mMonitor' = [mMonitor EXCEPT ![f + 1].max_instances = limit]
  BY <1>1 DEF Update
<1>3. mCount \in Nat /\ f + 1 \in 1 .. mCount
  BY <1>1, Elements DEF Inv
<1>4. \A a \in 1 .. mCount : mMonitor[a] \in MsgMonitorStruct
  BY Elements DEF Inv
<1>5. [mMonitor[f + 1] EXCEPT !.max_instances = limit] \in MsgMonitorStruct
  BY <1>3, <1>4 DEF MsgMonitorStruct
<1>6. mMonitor' \in Seq(MsgMonitorStruct) /\ mCount' = mCount
  BY <1>2, <1>3, <1>5 DEF Inv, ArrayInv, mCount
<1>7. \A a \in 1 .. mCount : mMonitor'[a].key = mMonitor[a].key
  BY <1>2, <1>3, <1>4 DEF Inv, ArrayInv, mCount, MsgMonitorStruct
<1>8. QED
  BY <1>6, <1>7, MonitorsKeptInv DEF Update


\* What MsgMonitorInstance::Delete makes of a pass, with its history.
DeletedFrom(inst, index, key) ==
  [Corrected(inst, index) EXCEPT !.gone = @ \/ inst.key = key, !.todo = @ \ {key}]

LEMMA DeletedFields ==
  ASSUME NEW inst \in MsgMonitorInstance, NEW f \in Nat, NEW key
  PROVE  LET d == DeletedFrom(inst, f, key)
         IN  /\ d \in MsgMonitorInstance
             /\ d.index = IF inst.index >= f THEN inst.index - 1 ELSE inst.index
             /\ d.count = inst.count - 1
             /\ d.at = inst.at /\ d.msg = inst.msg /\ d.key = inst.key
             /\ d.todo = inst.todo \ {key}
             /\ d.gone <=> inst.gone \/ inst.key = key
             /\ d.deleted <=> inst.deleted \/ inst.index = f
<1> DEFINE c == Corrected(inst, f)
<1>1. /\ inst.index \in Int /\ inst.index - 1 \in Int /\ inst.count - 1 \in Int
      /\ (inst.deleted \/ inst.index = f) \in BOOLEAN
  BY PassFields
<1>2. /\ c \in MsgMonitorInstance
      /\ c.index = IF inst.index >= f THEN inst.index - 1 ELSE inst.index
      /\ c.count = inst.count - 1
      /\ c.at = inst.at /\ c.msg = inst.msg /\ c.key = inst.key /\ c.todo = inst.todo
      /\ c.gone <=> inst.gone
      /\ c.deleted <=> inst.deleted \/ inst.index = f
  <2>1. CASE inst.index >= f
    <3> DEFINE e == [inst EXCEPT !.deleted = @ \/ inst.index = f,
                                 !.index = @ - 1, !.count = @ - 1]
    <3>1. c = e
      BY <1>1, <2>1 DEF Corrected
    <3>2. e \in MsgMonitorInstance
      BY <1>1 DEF MsgMonitorInstance
    <3>3. e.index = inst.index - 1 /\ e.count = inst.count - 1
      BY DEF MsgMonitorInstance
    <3>4. e.at = inst.at /\ e.msg = inst.msg /\ e.key = inst.key /\ e.todo = inst.todo
      BY DEF MsgMonitorInstance
    <3>5. (e.gone <=> inst.gone) /\ (e.deleted <=> inst.deleted \/ inst.index = f)
      BY DEF MsgMonitorInstance
    <3> HIDE DEF c, e
    <3>6. QED
      BY <1>1, <2>1, <3>1, <3>2, <3>3, <3>4, <3>5
  <2>2. CASE ~(inst.index >= f)
    <3> DEFINE e == [inst EXCEPT !.count = @ - 1]
    <3>1. c = e
      BY <1>1, <2>2 DEF Corrected
    <3>2. e \in MsgMonitorInstance
      BY <1>1 DEF MsgMonitorInstance
    <3>3. e.index = inst.index /\ e.count = inst.count - 1
      BY DEF MsgMonitorInstance
    <3>4. e.at = inst.at /\ e.msg = inst.msg /\ e.key = inst.key /\ e.todo = inst.todo
      BY DEF MsgMonitorInstance
    <3>5. e.gone = inst.gone /\ e.deleted = inst.deleted
      BY DEF MsgMonitorInstance
    <3> HIDE DEF c, e
    <3>6. QED
      BY <1>1, <2>2, <3>1, <3>2, <3>3, <3>4, <3>5
  <2>3. QED
    BY <2>1, <2>2
<1> DEFINE d == [c EXCEPT !.gone = @ \/ inst.key = key, !.todo = @ \ {key}]
<1>3. DeletedFrom(inst, f, key) = d
  BY DEF DeletedFrom
<1> HIDE DEF c
<1>4. c.todo \ {key} \subseteq Keys /\ (c.gone \/ inst.key = key) \in BOOLEAN
  BY <1>2, PassFields
<1>5. d \in MsgMonitorInstance
  BY <1>2, <1>4 DEF MsgMonitorInstance
<1>6. d.index = c.index /\ d.count = c.count /\ d.at = c.at /\ d.msg = c.msg
  BY <1>2 DEF MsgMonitorInstance
<1>7. d.key = c.key /\ d.todo = c.todo \ {key}
  BY <1>2 DEF MsgMonitorInstance
<1>8. (d.gone <=> c.gone \/ inst.key = key) /\ (d.deleted <=> c.deleted)
  BY <1>2 DEF MsgMonitorInstance
<1> HIDE DEF d
<1>9. QED
  BY <1>2, <1>3, <1>5, <1>6, <1>7, <1>8


\* A callback is deleted: the passes that call it are told, and what lies behind it
\* moves down with the passes that have come that far.
LEMMA DeleteInv ==
  ASSUME Inv, list' = list, NEW key \in Keys, Delete(key)
  PROVE  Inv'
<1>1. mCount \in Nat /\ Depth \in Nat
  BY Elements DEF Inv
<1>2. PICK f \in 0 .. mCount - 1 : f = Find(key) /\ At(f).key = key
  BY FindFacts DEF Delete, Inv
<1>3. /\ mMonitor' = RemoveAt(mMonitor, f + 1) /\ disposed' = disposed
      /\ Depth' = Depth
      /\ \A i \in 1 .. Depth : mTop'[i] = DeletedFrom(mTop[i], f, key)
      /\ mTop' = [i \in 1 .. Depth |-> DeletedFrom(mTop[i], f, key)]
  <2>1. mTop' = [i \in 1 .. Depth |-> DeletedFrom(mTop[i], f, key)]
    BY <1>2 DEF Delete, DeletedFrom
  <2>2. mMonitor' = RemoveAt(mMonitor, f + 1) /\ disposed' = disposed
    BY <1>2 DEF Delete
  <2>3. QED
    BY <1>1, <2>1, <2>2 DEF Depth
<1>4. /\ mMonitor' \in Seq(MsgMonitorStruct) /\ mCount' = mCount - 1
      /\ \A a \in 1 .. mCount - 1 :
           mMonitor'[a] = IF a < f + 1 THEN mMonitor[a] ELSE mMonitor[a + 1]
  <2>1. f + 1 \in 1 .. Len(mMonitor) /\ mMonitor \in Seq(MsgMonitorStruct)
    BY <1>1, <1>2 DEF mCount, Inv, ArrayInv
  <2>2. QED
    BY <1>3, <2>1, RemoveAtFacts DEF mCount
<1>5. ASSUME NEW j \in 0 .. mCount - 2
      PROVE  At(j)' = IF j < f THEN At(j) ELSE At(j + 1)
  <2>1. j + 1 \in 1 .. mCount - 1 /\ j + 1 + 1 = j + 2 /\ (j < f <=> j + 1 < f + 1)
    BY <1>1, <1>2
  <2>2. QED
    BY <1>4, <2>1 DEF At
<1>6. ASSUME NEW j \in 0 .. mCount - 1, At(j).key = key
      PROVE  j = f
  <2>1. j + 1 \in 1 .. mCount /\ f + 1 \in 1 .. mCount /\ (j + 1 = f + 1 => j = f)
    BY <1>1, <1>2
  <2>2. QED
    BY <1>2, <1>6, <2>1 DEF Inv, ArrayInv, At
<1>7. ArrayInv'
  <2>1. ASSUME NEW a \in 1 .. mCount - 1, NEW b \in 1 .. mCount - 1,
               mMonitor'[a].key = mMonitor'[b].key
        PROVE  a = b
    <3>1. PICK c \in 1 .. mCount : mMonitor'[a] = mMonitor[c] /\ c = IF a < f + 1 THEN a ELSE a + 1
      BY <1>1, <1>4
    <3>2. PICK d \in 1 .. mCount : mMonitor'[b] = mMonitor[d] /\ d = IF b < f + 1 THEN b ELSE b + 1
      BY <1>1, <1>4
    <3>3. c = d
      BY <2>1, <3>1, <3>2 DEF Inv, ArrayInv
    <3>4. QED
      BY <1>1, <1>2, <3>1, <3>2, <3>3
  <2>2. disposed => mCount - 1 = 0
    BY <1>2 DEF Inv, ArrayInv
  <2>3. QED
    BY <1>3, <1>4, <2>1, <2>2 DEF Inv, ArrayInv, MsgMonitorStruct, Keys
<1>8. \A i \in 1 .. Depth : /\ mTop[i] \in MsgMonitorInstance /\ mTop[i].at = "run"
                            /\ Ahead(mTop[i]) /\ Found(mTop[i]) /\ NothingElse(mTop[i])
  BY PassesInScript DEF Delete
<1>9. ASSUME NEW inst \in MsgMonitorInstance, inst.at = "run",
             Ahead(inst), Found(inst), NothingElse(inst),
             NEW d, d = DeletedFrom(inst, f, key)
      PROVE  /\ d \in MsgMonitorInstance /\ d.at = "run"
             /\ Ahead(d)' /\ Found(d)' /\ NothingElse(d)'
  <2>1. /\ d \in MsgMonitorInstance
        /\ d.index = IF inst.index >= f THEN inst.index - 1 ELSE inst.index
        /\ d.count = inst.count - 1
        /\ d.at = "run" /\ d.msg = inst.msg /\ d.key = inst.key
        /\ d.todo = inst.todo \ {key}
        /\ d.gone <=> inst.gone \/ inst.key = key
        /\ d.deleted <=> inst.deleted \/ inst.index = f
    BY <1>1, <1>2, <1>9, DeletedFields
  <2>2. inst.index \in Int /\ inst.count \in Int /\ Coming(inst) = inst.index + 1
        /\ Coming(d) = d.index + 1 /\ d.index \in Int
    BY <1>9, <2>1, PassFields DEF Coming
  <2>3. inst.index + 1 >= 0 /\ inst.count <= mCount
    BY <1>9, <2>2 DEF Ahead
  <2>4. Keys' = Keys
    BY DEF Keys
  <2>5. Ahead(d)'
    <3>1. ASSUME NEW j \in Int, j >= d.index + 1, j < d.count, At(j)'.key.msg = d.msg
          PROVE  At(j)'.key \in d.todo
      <4>1. PICK i \in 0 .. mCount - 1 : /\ At(j)' = At(i) /\ i # f
                                         /\ i >= inst.index + 1 /\ i < inst.count
        <5>1. CASE j < f
          BY <1>1, <1>2, <1>5, <2>1, <2>2, <2>3, <3>1, <5>1
        <5>2. CASE ~(j < f)
          <6>1. /\ j + 1 \in 0 .. mCount - 1 /\ j + 1 # f
                /\ j + 1 >= inst.index + 1 /\ j + 1 < inst.count /\ j \in 0 .. mCount - 2
            BY <1>1, <1>2, <2>1, <2>2, <2>3, <3>1, <5>2
          <6>2. QED
            BY <1>5, <5>2, <6>1
        <5>3. QED
          BY <5>1, <5>2
      <4>2. At(i).key \in inst.todo
        BY <1>9, <2>1, <2>2, <3>1, <4>1 DEF Ahead
      <4>3. At(i).key # key
        BY <1>6, <4>1
      <4>4. QED
        BY <2>1, <4>1, <4>2, <4>3
    <3>2. d.index + 1 >= 0 /\ d.count <= mCount'
      BY <1>1, <1>2, <1>4, <2>1, <2>2, <2>3
    <3>3. QED
      BY <2>1, <2>2, <3>1, <3>2 DEF Ahead, Coming
  <2>6. Found(d)'
    <3>1. CASE d.gone
      <4>1. d.deleted
        BY <1>6, <1>9, <2>1, <3>1 DEF Found
      <4>2. QED
        BY <1>9, <2>1, <2>4, <3>1, <4>1 DEF Found
    <3>2. CASE ~d.gone
      <4>1. inst.index \in 0 .. mCount - 1 /\ At(inst.index).key = inst.key /\ inst.index # f
        BY <1>2, <1>9, <2>1, <3>2 DEF Found
      <4>2. d.index \in 0 .. mCount - 2 /\ At(d.index)' = At(inst.index)
        <5>1. CASE inst.index >= f
          BY <1>1, <1>2, <1>5, <2>1, <4>1, <5>1
        <5>2. CASE ~(inst.index >= f)
          BY <1>1, <1>2, <1>5, <2>1, <4>1, <5>2
        <5>3. QED
          BY <5>1, <5>2
      <4>3. mCount' - 1 = mCount - 2
        BY <1>1, <1>4
      <4>4. QED
        BY <1>9, <2>1, <2>4, <3>2, <4>1, <4>2, <4>3 DEF Found
    <3>3. QED
      BY <3>1, <3>2
  <2>7. NothingElse(d)'
    <3>1. ASSUME "last" \notin list.placements, NEW k \in d.todo
          PROVE  \E j \in Int : j >= d.index + 1 /\ j < d.count /\ At(j)'.key = k
      <4>1. PICK i \in Int : i >= inst.index + 1 /\ i < inst.count /\ At(i).key = k
        BY <1>9, <2>1, <2>2, <3>1 DEF NothingElse
      <4>2. i # f /\ i \in 0 .. mCount - 1
        BY <1>1, <1>2, <2>1, <2>2, <2>3, <3>1, <4>1
      <4>3. CASE i < f
        <5>1. i \in 0 .. mCount - 2 /\ i >= d.index + 1 /\ i < d.count
          <6>1. inst.count = mCount
            BY <1>9, <3>1 DEF NothingElse
          <6>2. QED
            BY <1>1, <1>2, <2>1, <2>2, <4>1, <4>2, <4>3, <6>1
        <5>2. At(i)' = At(i)
          BY <1>5, <4>3, <5>1
        <5>3. QED
          BY <4>1, <5>1, <5>2
      <4>4. CASE i > f
        <5>1. /\ i - 1 \in 0 .. mCount - 2 /\ ~(i - 1 < f) /\ i - 1 + 1 = i
              /\ i - 1 >= d.index + 1 /\ i - 1 < d.count
          BY <1>1, <1>2, <2>1, <2>2, <2>3, <4>1, <4>2, <4>4
        <5>2. At(i - 1)' = At(i)
          BY <1>5, <5>1
        <5>3. QED
          BY <4>1, <5>1, <5>2
      <4>5. QED
        BY <1>2, <4>2, <4>3, <4>4
    <3>2. "last" \notin list.placements => d.count = mCount'
      BY <1>1, <1>4, <1>9, <2>1 DEF NothingElse
    <3>3. QED
      BY <2>1, <3>1, <3>2 DEF NothingElse, Coming
  <2>8. QED
    BY <2>1, <2>5, <2>6, <2>7
<1>10. PassesInv'
  <2>1. \A i \in 1 .. Depth : mTop'[i] \in MsgMonitorInstance /\ mTop'[i].at = "run"
    BY <1>3, <1>8, <1>9
  <2>2. MsgMonitorInstance' = MsgMonitorInstance
    BY DEF MsgMonitorInstance, Msgs, Keys
  <2>3. mTop' \in Seq(MsgMonitorInstance)
    BY <1>1, <1>3, <2>1
  <2>4. QED
    BY <1>1, <1>3, <2>1, <2>2, <2>3 DEF PassesInv
<1>11. PositionsInv'
  <2>1. ASSUME NEW i \in 1 .. Depth
        PROVE  Ahead(mTop[i])' /\ Found(mTop[i])' /\ NothingElse(mTop[i])'
    <3>1. PICK d : d = DeletedFrom(mTop[i], f, key)
      OBVIOUS
    <3>2. mTop'[i] = d /\ Ahead(d)' /\ Found(d)' /\ NothingElse(d)'
      BY <1>3, <1>8, <1>9, <3>1
    <3>3. QED
      BY <3>2 DEF Ahead, Found, NothingElse, Coming
  <2>2. QED
    BY <1>3, <2>1 DEF PositionsInv
<1>12. QED
  BY <1>7, <1>10, <1>11 DEF Inv


\* The list is disposed of: no pass has anything left to visit.
LEMMA DisposeInv ==
  ASSUME Inv, list' = list, Dispose
  PROVE  Inv'
<1>1. mCount \in Nat /\ Depth \in Nat
  BY Elements DEF Inv
<1> DEFINE D(inst) == [inst EXCEPT !.count = 0, !.deleted = TRUE, !.gone = TRUE, !.todo = {}]
<1>2. mMonitor' = <<>> /\ mCount' = 0 /\ disposed' = TRUE
  BY DEF Dispose, mCount
<1>3. mTop' = [i \in 1 .. Depth |-> D(mTop[i])]
  BY DEF Dispose
<1>4. MsgMonitorInstance' = MsgMonitorInstance /\ Keys' = Keys
  BY DEF MsgMonitorInstance, Msgs, Keys
<1>5. ASSUME NEW inst \in MsgMonitorInstance, inst.at = "run", Ahead(inst), Found(inst),
             NEW d, d = D(inst)
      PROVE  /\ d \in MsgMonitorInstance /\ d.at = "run"
             /\ Ahead(d)' /\ Found(d)' /\ NothingElse(d)'
  <2>1. d \in MsgMonitorInstance
    <3>1. 0 \in Int /\ TRUE \in BOOLEAN /\ {} \in SUBSET Keys
      OBVIOUS
    <3> DEFINE e == [inst EXCEPT !.count = 0, !.deleted = TRUE]
    <3>2. e \in MsgMonitorInstance
      BY <3>1 DEF MsgMonitorInstance
    <3>3. d = [e EXCEPT !.gone = TRUE, !.todo = {}]
      BY <1>5 DEF MsgMonitorInstance
    <3> HIDE DEF D, e
    <3>4. QED
      BY <3>1, <3>2, <3>3 DEF MsgMonitorInstance
  <2>2. d.index = inst.index /\ d.count = 0 /\ d.at = inst.at /\ d.msg = inst.msg
    BY <1>5 DEF MsgMonitorInstance
  <2>3. d.deleted /\ d.gone /\ d.todo = {} /\ d.key = inst.key
    BY <1>5 DEF MsgMonitorInstance
  <2>4. /\ inst.index \in Int /\ Coming(inst) = inst.index + 1
        /\ Coming(d) = inst.index + 1
    BY <1>5, <2>2, PassFields DEF Coming
  <2>5. inst.index + 1 >= 0
    BY <1>5, <2>4 DEF Ahead
  <2> HIDE DEF D
  <2>6. Ahead(d)'
    BY <1>2, <2>2, <2>4, <2>5 DEF Ahead, Coming
  <2>7. Found(d)'
    BY <1>4, <1>5, <2>2, <2>3 DEF Found
  <2>8. NothingElse(d)'
    BY <1>2, <2>2, <2>3 DEF NothingElse
  <2>9. QED
    BY <1>5, <2>1, <2>2, <2>6, <2>7, <2>8
<1> HIDE DEF D
<1>6. Depth' = Depth /\ \A i \in 1 .. Depth : mTop'[i] = D(mTop[i])
  BY <1>1, <1>3 DEF Depth
<1>7. \A i \in 1 .. Depth : /\ mTop[i] \in MsgMonitorInstance /\ mTop[i].at = "run"
                            /\ Ahead(mTop[i]) /\ Found(mTop[i])
  BY PassesInScript DEF Dispose
<1>8. ArrayInv'
  BY <1>2 DEF ArrayInv, Inv
<1>9. PassesInv'
  <2>1. \A i \in 1 .. Depth : mTop'[i] \in MsgMonitorInstance /\ mTop'[i].at = "run"
    BY <1>5, <1>6, <1>7
  <2>2. mTop' \in Seq(MsgMonitorInstance)
    BY <1>1, <1>3, <1>6, <2>1
  <2>3. QED
    BY <1>1, <1>4, <1>6, <2>1, <2>2 DEF PassesInv
<1>10. PositionsInv'
  <2>1. ASSUME NEW i \in 1 .. Depth
        PROVE  Ahead(mTop[i])' /\ Found(mTop[i])' /\ NothingElse(mTop[i])'
    <3>1. PICK d : d = D(mTop[i])
      OBVIOUS
    <3>2. mTop'[i] = d /\ Ahead(d)' /\ Found(d)' /\ NothingElse(d)'
      BY <1>5, <1>6, <1>7, <3>1
    <3>3. QED
      BY <3>2 DEF Ahead, Found, NothingElse, Coming
  <2>2. QED
    BY <1>6, <2>1 DEF PositionsInv
<1>11. QED
  BY <1>8, <1>9, <1>10 DEF Inv

----------------------------------------------------------------------------
(* The passes *)

\* A step that changes the innermost pass only, and leaves the callbacks in place.
LEMMA TopReplaced ==
  ASSUME Inv, list' = list, disposed' = disposed,
         mMonitor' \in Seq(MsgMonitorStruct), mCount' = mCount,
         \A a \in 1 .. mCount : mMonitor'[a].key = mMonitor[a].key,
         Depth > 0, NEW inst \in MsgMonitorInstance, SetTop(inst),
         Ahead(inst), Found(inst), NothingElse(inst)
  PROVE  Inv'
<1>1. Depth \in Nat
  BY Elements DEF Inv
<1>2. MsgMonitorInstance' = MsgMonitorInstance
  BY DEF MsgMonitorInstance, Msgs, Keys
<1>3. /\ mTop' \in Seq(MsgMonitorInstance) /\ Depth' = Depth
      /\ mTop'[Depth] = inst /\ \A i \in 1 .. Depth - 1 : mTop'[i] = mTop[i]
  BY <1>1 DEF SetTop, Depth, Inv, PassesInv
<1>4. ArrayInv'
  BY DEF Inv, ArrayInv, MsgMonitorStruct, Keys
<1>5. PassesInv'
  BY <1>1, <1>2, <1>3 DEF Inv, PassesInv
<1>6. PositionsInv'
  <2>1. ASSUME NEW i \in 1 .. Depth
        PROVE  Ahead(mTop[i])' /\ Found(mTop[i])' /\ NothingElse(mTop[i])'
    <3>1. PICK x \in MsgMonitorInstance :
            mTop'[i] = x /\ Ahead(x) /\ Found(x) /\ NothingElse(x)
      <4>1. CASE i = Depth
        BY <1>3, <4>1
      <4>2. CASE i # Depth
        <5>1. mTop'[i] = mTop[i]
          BY <1>1, <1>3, <4>2
        <5>2. QED
          BY <5>1, Elements DEF Inv, PositionsInv
      <4>3. QED
        BY <4>1, <4>2
    <3>2. Ahead(x)' /\ Found(x)' /\ NothingElse(x)'
      BY <3>1, KeysKept DEF Inv
    <3>3. QED
      BY <3>1, <3>2 DEF Ahead, Found, NothingElse, Coming
  <2>2. QED
    BY <1>3, <2>1 DEF PositionsInv
<1>7. QED
  BY <1>4, <1>5, <1>6 DEF Inv

\* A step that ends the innermost pass, and leaves the callbacks in place.
LEMMA TopEnds ==
  ASSUME Inv, list' = list, disposed' = disposed,
         mMonitor' \in Seq(MsgMonitorStruct), mCount' = mCount,
         \A a \in 1 .. mCount : mMonitor'[a].key = mMonitor[a].key,
         Depth > 0, mTop' = Front(mTop)
  PROVE  Inv'
<1>1. Depth \in Nat
  BY Elements DEF Inv
<1>2. MsgMonitorInstance' = MsgMonitorInstance
  BY DEF MsgMonitorInstance, Msgs, Keys
<1>3. /\ mTop' \in Seq(MsgMonitorInstance) /\ Depth' = Depth - 1
      /\ \A i \in 1 .. Depth - 1 : mTop'[i] = mTop[i]
  BY FrontFacts DEF Depth, Inv, PassesInv
<1>4. ArrayInv'
  BY DEF Inv, ArrayInv, MsgMonitorStruct, Keys
<1>5. PassesInv'
  BY <1>1, <1>2, <1>3 DEF Inv, PassesInv
<1>6. PositionsInv'
  <2>1. ASSUME NEW i \in 1 .. Depth - 1
        PROVE  Ahead(mTop[i])' /\ Found(mTop[i])' /\ NothingElse(mTop[i])'
    <3>1. PICK x \in MsgMonitorInstance :
            mTop'[i] = x /\ Ahead(x) /\ Found(x) /\ NothingElse(x)
      BY <1>1, <1>3, Elements DEF Inv, PositionsInv
    <3>2. Ahead(x)' /\ Found(x)' /\ NothingElse(x)'
      BY <3>1, KeysKept DEF Inv
    <3>3. QED
      BY <3>1, <3>2 DEF Ahead, Found, NothingElse, Coming
  <2>2. QED
    BY <1>3, <2>1 DEF PositionsInv
<1>7. QED
  BY <1>4, <1>5, <1>6 DEF Inv


\* A pass begins: what is ahead of it is the whole array.
LEMMA BeginInv ==
  ASSUME Inv, list' = list, NEW msg \in Msgs, Begin(msg)
  PROVE  Inv'
<1>1. mCount \in Nat /\ Depth \in Nat
  BY Elements DEF Inv
<1>2. MsgMonitorInstance' = MsgMonitorInstance
  BY DEF MsgMonitorInstance, Msgs, Keys
<1> DEFINE begun == {k \in Registered : k.msg = msg}
<1>3. PICK new : new = [msg |-> msg, index |-> 0, count |-> mCount, deleted |-> FALSE,
                        at |-> "scan", key |-> NoKey, gone |-> FALSE, todo |-> begun]
  OBVIOUS
<1>4. begun \subseteq Keys
  BY Elements DEF Registered, MsgMonitorStruct, Inv
<1>5. new \in MsgMonitorInstance
  BY <1>1, <1>3, <1>4 DEF MsgMonitorInstance
<1>6. /\ mTop' = Append(mTop, new) /\ mMonitor' = mMonitor /\ disposed' = disposed
      /\ mCount' = mCount
  BY <1>3 DEF Begin, mCount
<1>7. /\ mTop' \in Seq(MsgMonitorInstance) /\ Depth' = Depth + 1 /\ mTop'[Depth + 1] = new
      /\ \A i \in 1 .. Depth : mTop'[i] = mTop[i]
  BY <1>5, <1>6 DEF Depth, Inv, PassesInv
<1>8. \A i \in 1 .. Depth : /\ mTop[i] \in MsgMonitorInstance /\ mTop[i].at = "run"
                            /\ Ahead(mTop[i]) /\ Found(mTop[i]) /\ NothingElse(mTop[i])
  BY PassesInScript DEF Begin
<1>9. Ahead(new) /\ Found(new) /\ NothingElse(new)
  <2>1. new.index = 0 /\ new.count = mCount /\ new.at = "scan" /\ new.msg = msg
        /\ new.todo = begun /\ Coming(new) = 0
    BY <1>3 DEF Coming
  <2>2. ASSUME NEW j \in Int, j >= 0, j < mCount PROVE At(j).key \in Registered
    BY <1>1, <2>2 DEF Registered, At
  <2>3. ASSUME NEW k \in Registered
        PROVE  \E j \in Int : j >= 0 /\ j < mCount /\ At(j).key = k
    <3>1. Find(k) \in 0 .. mCount - 1 /\ At(Find(k)).key = k
      BY <2>3, FindFacts DEF Inv
    <3>2. QED
      BY <1>1, <3>1
  <2>4. QED
    BY <1>1, <2>1, <2>2, <2>3 DEF Ahead, Found, NothingElse
<1>10. ArrayInv'
  BY <1>6 DEF Inv, ArrayInv, MsgMonitorStruct, Keys
<1>11. PassesInv'
  BY <1>1, <1>2, <1>7, <1>8 DEF PassesInv
<1>12. PositionsInv'
  <2>1. ASSUME NEW i \in 1 .. Depth + 1
        PROVE  Ahead(mTop[i])' /\ Found(mTop[i])' /\ NothingElse(mTop[i])'
    <3>1. PICK x \in MsgMonitorInstance :
            mTop'[i] = x /\ Ahead(x) /\ Found(x) /\ NothingElse(x)
      BY <1>1, <1>5, <1>7, <1>8, <1>9
    <3>2. Ahead(x)' /\ Found(x)' /\ NothingElse(x)'
      BY <1>6, <3>1, KeysKept DEF Inv
    <3>3. QED
      BY <3>1, <3>2 DEF Ahead, Found, NothingElse, Coming
  <2>2. QED
    BY <1>7, <2>1 DEF PositionsInv
<1>13. QED
  BY <1>10, <1>11, <1>12 DEF Inv

\* The item that a pass looks at.
LEMMA ItemFacts ==
  ASSUME Inv, AtItem
  PROVE  /\ Depth > 0 /\ Depth \in Nat /\ Top \in MsgMonitorInstance /\ Top.at = "scan"
         /\ Ahead(Top) /\ NothingElse(Top)
         /\ Top.index \in 0 .. mCount - 1 /\ Coming(Top) = Top.index
         /\ Item \in MsgMonitorStruct /\ Item.key \in Keys
<1>1. Depth > 0 /\ Depth \in Nat /\ Top.at = "scan" /\ Top.index < Top.count
  BY Elements DEF AtItem, Scanning, Inv
<1>2. Top \in MsgMonitorInstance /\ Ahead(Top) /\ NothingElse(Top)
  BY <1>1, Elements DEF Inv, PositionsInv, Top
<1>3. Coming(Top) = Top.index /\ Top.index \in Int /\ Top.count \in Int
  BY <1>1, <1>2, PassFields DEF Coming
<1>4. Top.index \in 0 .. mCount - 1
  BY <1>1, <1>2, <1>3, Elements DEF Ahead, Inv
<1>5. Item \in MsgMonitorStruct
  <2>1. Top.index + 1 \in 1 .. mCount
    BY <1>4, Elements DEF Inv
  <2>2. QED
    BY <2>1, Elements DEF Inv, Item, At
<1>6. QED
  BY <1>1, <1>2, <1>3, <1>4, <1>5 DEF MsgMonitorStruct

\* An item is passed over.
LEMMA SkipInv ==
  ASSUME Inv, list' = list, Skip
  PROVE  Inv'
<1>1. /\ Depth > 0 /\ Top \in MsgMonitorInstance /\ Top.at = "scan"
      /\ Ahead(Top) /\ NothingElse(Top)
      /\ Top.index \in 0 .. mCount - 1 /\ Coming(Top) = Top.index
      /\ Item.key \in Keys
  BY ItemFacts DEF Skip
<1>2. PICK inst : inst = [Top EXCEPT !.index = @ + 1, !.todo = @ \ {Item.key}]
  OBVIOUS
<1>3. Top.index \in Int /\ Top.index + 1 \in Int /\ Top.todo \ {Item.key} \in SUBSET Keys
      /\ Top.count \in Int
  BY <1>1, PassFields
<1>4. inst \in MsgMonitorInstance
  BY <1>1, <1>2, <1>3 DEF MsgMonitorInstance
<1>5. inst.index = Top.index + 1 /\ inst.count = Top.count /\ inst.at = "scan"
  BY <1>1, <1>2 DEF MsgMonitorInstance
<1>6. inst.todo = Top.todo \ {Item.key} /\ inst.msg = Top.msg
  BY <1>1, <1>2 DEF MsgMonitorInstance
<1>7. Coming(inst) = Top.index + 1
  BY <1>5 DEF Coming
<1>8. \A j \in Int : j > Top.index /\ j < Top.count => At(j).key # Item.key
  <2>1. ASSUME NEW j \in Int, j > Top.index, j < Top.count, At(j).key = Item.key
        PROVE  FALSE
    <3>1. /\ Top.index + 1 \in 1 .. mCount /\ j + 1 \in 1 .. mCount
          /\ Top.index + 1 # j + 1 /\ mCount \in Nat
      BY <1>1, <1>3, <2>1, Elements DEF Ahead, Inv
    <3>2. QED
      BY <2>1, <3>1 DEF Inv, ArrayInv, At, Item
  <2>2. QED
    BY <2>1
<1>9. Ahead(inst)
  BY <1>1, <1>3, <1>5, <1>6, <1>7, <1>8 DEF Ahead
<1>10. Found(inst)
  BY <1>5 DEF Found
<1>11. NothingElse(inst)
  <2>1. ASSUME "last" \notin list.placements, NEW k \in inst.todo
        PROVE  \E j \in Int : j >= Coming(inst) /\ j < inst.count /\ At(j).key = k
    <3>1. PICK j \in Int : j >= Top.index /\ j < Top.count /\ At(j).key = k
      BY <1>1, <1>6, <2>1 DEF NothingElse
    <3>2. j # Top.index
      BY <1>6, <2>1, <3>1 DEF Item
    <3>3. QED
      BY <1>3, <1>5, <1>7, <3>1, <3>2
  <2>2. QED
    BY <1>1, <1>5, <2>1 DEF NothingElse
<1>12. SetTop(inst) /\ mMonitor' = mMonitor /\ disposed' = disposed
  BY <1>2 DEF Skip
<1>13. QED
  BY <1>1, <1>4, <1>9, <1>10, <1>11, <1>12, TopReplaced DEF Inv, ArrayInv, mCount


\* A count of instances is set: the callbacks stay in place.
WithCount(a, n) == [mMonitor EXCEPT ![a].instance_count = n]

LEMMA CountSet ==
  ASSUME ArrayInv, NEW a \in 1 .. mCount, NEW n \in Nat
  PROVE  /\ WithCount(a, n) \in Seq(MsgMonitorStruct) /\ Len(WithCount(a, n)) = mCount
         /\ \A b \in 1 .. mCount :
              /\ WithCount(a, n)[b].key = mMonitor[b].key
              /\ WithCount(a, n)[b].instance_count =
                   IF b = a THEN n ELSE mMonitor[b].instance_count
<1>1. mMonitor \in Seq(MsgMonitorStruct) /\ Len(mMonitor) = mCount /\ mCount \in Nat
  BY DEF ArrayInv, mCount
<1>2. \A b \in 1 .. mCount : mMonitor[b] \in MsgMonitorStruct
  BY <1>1
<1>3. PICK x : x = [mMonitor[a] EXCEPT !.instance_count = n]
  OBVIOUS
<1>4. x \in MsgMonitorStruct /\ x.key = mMonitor[a].key /\ x.instance_count = n
  BY <1>2, <1>3 DEF MsgMonitorStruct
<1>5. WithCount(a, n) = [mMonitor EXCEPT ![a] = x]
  BY <1>1, <1>3 DEF WithCount
<1>6. QED
  BY <1>1, <1>4, <1>5

\* A callback is called.
LEMMA LaunchInv ==
  ASSUME Inv, list' = list, Launch
  PROVE  Inv'
<1>1. /\ Depth > 0 /\ Top \in MsgMonitorInstance /\ Top.at = "scan"
      /\ Ahead(Top) /\ NothingElse(Top)
      /\ Top.index \in 0 .. mCount - 1 /\ Coming(Top) = Top.index
      /\ Item \in MsgMonitorStruct /\ Item.key \in Keys
  BY ItemFacts DEF Launch
<1>2. PICK inst : inst = [Top EXCEPT !.at = "run", !.key = Item.key, !.gone = FALSE,
                                     !.todo = @ \ {Item.key}]
  OBVIOUS
<1>3. Top.index \in Int /\ Top.index + 1 \in Int /\ Top.todo \ {Item.key} \in SUBSET Keys
      /\ Top.count \in Int
  BY <1>1, PassFields
<1>4. inst \in MsgMonitorInstance
  <2>1. PICK e \in MsgMonitorInstance : e = [Top EXCEPT !.at = "run", !.gone = FALSE]
    BY <1>1 DEF MsgMonitorInstance
  <2>2. inst = [e EXCEPT !.key = Item.key, !.todo = Top.todo \ {Item.key}]
    BY <1>1, <1>2, <2>1 DEF MsgMonitorInstance
  <2>3. QED
    BY <1>1, <1>3, <2>1, <2>2 DEF MsgMonitorInstance
<1>5. inst.index = Top.index /\ inst.count = Top.count /\ inst.at = "run"
  BY <1>1, <1>2 DEF MsgMonitorInstance
<1>6. /\ inst.todo = Top.todo \ {Item.key} /\ inst.msg = Top.msg /\ inst.key = Item.key
      /\ ~inst.gone
  BY <1>1, <1>2 DEF MsgMonitorInstance
<1>7. Coming(inst) = Top.index + 1
  BY <1>5 DEF Coming
<1>8. \A j \in Int : j > Top.index /\ j < Top.count => At(j).key # Item.key
  <2>1. ASSUME NEW j \in Int, j > Top.index, j < Top.count, At(j).key = Item.key
        PROVE  FALSE
    <3>1. /\ Top.index + 1 \in 1 .. mCount /\ j + 1 \in 1 .. mCount
          /\ Top.index + 1 # j + 1 /\ mCount \in Nat
      BY <1>1, <1>3, <2>1, Elements DEF Ahead, Inv
    <3>2. QED
      BY <2>1, <3>1 DEF Inv, ArrayInv, At, Item
  <2>2. QED
    BY <2>1
<1>9. Ahead(inst)
  BY <1>1, <1>3, <1>5, <1>6, <1>7, <1>8 DEF Ahead
<1>10. Found(inst)
  BY <1>1, <1>5, <1>6 DEF Found, Launch, Item
<1>11. NothingElse(inst)
  <2>1. ASSUME "last" \notin list.placements, NEW k \in inst.todo
        PROVE  \E j \in Int : j >= Coming(inst) /\ j < inst.count /\ At(j).key = k
    <3>1. PICK j \in Int : j >= Top.index /\ j < Top.count /\ At(j).key = k
      BY <1>1, <1>6, <2>1 DEF NothingElse
    <3>2. j # Top.index
      BY <1>6, <2>1, <3>1 DEF Item
    <3>3. QED
      BY <1>3, <1>5, <1>7, <3>1, <3>2
  <2>2. QED
    BY <1>1, <1>5, <2>1 DEF NothingElse
<1>12. SetTop(inst) /\ disposed' = disposed
  BY <1>2 DEF Launch
<1>13. /\ mMonitor' \in Seq(MsgMonitorStruct) /\ mCount' = mCount
       /\ \A a \in 1 .. mCount : mMonitor'[a].key = mMonitor[a].key
  <2>1. CASE mMonitor' = mMonitor
    BY <2>1 DEF Inv, ArrayInv, mCount
  <2>2. CASE mMonitor' # mMonitor
    <3>1. PICK a \in 1 .. mCount : a = Top.index + 1
      BY <1>1, Elements DEF Inv
    <3>2. PICK n \in Nat : n = mMonitor[a].instance_count + 1
      BY <3>1, Elements DEF Inv, MsgMonitorStruct
    <3>3. mMonitor' = WithCount(a, n)
      BY <2>2, <3>1, <3>2 DEF Launch, WithCount
    <3>4. QED
      <4>1. ArrayInv
        BY DEF Inv
      <4>2. Len(WithCount(a, n)) = mCount
        BY <4>1, CountSet, Zenon
      <4>3. \A b \in 1 .. mCount : WithCount(a, n)[b].key = mMonitor[b].key
        BY <4>1, CountSet, Zenon
      <4>4. WithCount(a, n) \in Seq(MsgMonitorStruct)
        BY <4>1, CountSet, Zenon
      <4>5. QED
        BY <3>3, <4>2, <4>3, <4>4, Zenon DEF mCount
  <2>3. QED
    BY <2>1, <2>2
<1>14. QED
  BY <1>1, <1>4, <1>9, <1>10, <1>11, <1>12, <1>13, TopReplaced

\* What a callback that returns does to the counts: if its monitor is counted and is
\* still there, it is counted down.
LEMMA AfterReturn ==
  ASSUME Inv, Depth > 0, Top.at = "run"
  PROVE  /\ MonitorsAfterReturn \in Seq(MsgMonitorStruct)
         /\ Len(MonitorsAfterReturn) = mCount
         /\ \A b \in 1 .. mCount :
              /\ MonitorsAfterReturn[b].key = mMonitor[b].key
              /\ \/ MonitorsAfterReturn[b].instance_count = mMonitor[b].instance_count
                 \/ /\ MonitorsAfterReturn[b].instance_count = mMonitor[b].instance_count - 1
                    /\ CountsInstances /\ ~Top.gone /\ Top.key = mMonitor[b].key
<1>1. Top \in MsgMonitorInstance /\ Found(Top) /\ Depth \in Nat /\ mCount \in Nat
  BY Elements DEF Inv, PositionsInv, Top
<1>2. CASE CountsInstances /\ ~Top.deleted /\ Item.instance_count > 0
  <2>1. ~Top.gone /\ Top.index \in 0 .. mCount - 1 /\ At(Top.index).key = Top.key
    BY <1>1, <1>2 DEF Found
  <2>2. PICK a \in 1 .. mCount : a = Top.index + 1
    BY <1>1, <2>1
  <2>3. mMonitor[a].key = Top.key /\ mMonitor[a].instance_count > 0
    BY <1>2, <2>1, <2>2 DEF Item, At
  <2>4. PICK n \in Nat : n = mMonitor[a].instance_count - 1
    BY <2>2, <2>3, Elements DEF Inv, MsgMonitorStruct
  <2>5. MonitorsAfterReturn = WithCount(a, n)
    BY <1>2, <2>2, <2>4 DEF MonitorsAfterReturn, WithCount
  <2>6. /\ MonitorsAfterReturn \in Seq(MsgMonitorStruct)
        /\ Len(MonitorsAfterReturn) = mCount
        /\ \A b \in 1 .. mCount :
              /\ MonitorsAfterReturn[b].key = mMonitor[b].key
              /\ MonitorsAfterReturn[b].instance_count =
                   IF b = a THEN n ELSE mMonitor[b].instance_count
    BY <2>5, CountSet DEF Inv
  <2>7. QED
    BY <1>2, <2>1, <2>3, <2>4, <2>6
<1>3. CASE ~(CountsInstances /\ ~Top.deleted /\ Item.instance_count > 0)
  BY <1>3 DEF MonitorsAfterReturn, Inv, ArrayInv, mCount
<1>4. QED
  BY <1>2, <1>3

\* A callback returns.
LEMMA ReturnInv ==
  ASSUME Inv, list' = list, NEW handled \in BOOLEAN, Return(handled)
  PROVE  Inv'
<1>1. /\ Depth > 0 /\ Top.at = "run" /\ disposed' = disposed
      /\ Depth \in Nat /\ Top \in MsgMonitorInstance /\ Ahead(Top) /\ NothingElse(Top)
  BY Elements DEF Return, Inv, PositionsInv, Top
<1>2. /\ mMonitor' \in Seq(MsgMonitorStruct) /\ mCount' = mCount
      /\ \A a \in 1 .. mCount : mMonitor'[a].key = mMonitor[a].key
  BY <1>1, AfterReturn DEF Return, mCount
<1>3. CASE handled
  BY <1>1, <1>2, <1>3, TopEnds DEF Return
<1>4. CASE ~handled
  <2>1. PICK inst : inst = [Top EXCEPT !.at = "scan", !.index = @ + 1, !.key = NoKey,
                              !.gone = FALSE, !.deleted = @ /\ ~CountsInstances]
    OBVIOUS
  <2>2. Top.index + 1 \in Int /\ (Top.deleted /\ ~CountsInstances) \in BOOLEAN
    BY <1>1, PassFields
  <2>3. inst \in MsgMonitorInstance
    <3>1. PICK e \in MsgMonitorInstance :
            e = [Top EXCEPT !.at = "scan", !.index = Top.index + 1, !.gone = FALSE]
      BY <1>1, <2>2 DEF MsgMonitorInstance
    <3>2. inst = [e EXCEPT !.key = NoKey, !.deleted = Top.deleted /\ ~CountsInstances]
      BY <1>1, <2>1, <3>1 DEF MsgMonitorInstance
    <3>3. QED
      BY <2>2, <3>1, <3>2 DEF MsgMonitorInstance
  <2>4. inst.index = Top.index + 1 /\ inst.count = Top.count /\ inst.at = "scan"
    BY <1>1, <2>1 DEF MsgMonitorInstance
  <2>5. inst.todo = Top.todo /\ inst.msg = Top.msg
    BY <1>1, <2>1 DEF MsgMonitorInstance
  <2>6. Coming(inst) = Coming(Top)
    BY <1>1, <2>4 DEF Coming
  <2>7. Ahead(inst) /\ Found(inst) /\ NothingElse(inst)
    BY <1>1, <2>4, <2>5, <2>6 DEF Ahead, Found, NothingElse
  <2>8. SetTop(inst)
    BY <1>4, <2>1 DEF Return
  <2>9. QED
    BY <1>1, <1>2, <2>3, <2>7, <2>8, TopReplaced
<1>5. QED
  BY <1>3, <1>4

\* The invariant is inductive.
LEMMA NextInv ==
  ASSUME Inv, [Next]_vars
  PROVE  Inv'
<1>1. CASE UNCHANGED vars
  BY <1>1, MonitorsKeptInv DEF vars, Inv, ArrayInv, mCount
<1>2. CASE Next
  <2>1. ASSUME NEW k \in Keys, NEW p \in list.placements, NEW m \in list.limits,
               Add(k, p, m)
        PROVE  Inv'
    <3>1. list' = list /\ disposed' = disposed /\ ~disposed /\ InScript /\ k \notin Registered
      BY <1>2, <2>1 DEF Next, Add
    <3>2. PICK new : new = [key |-> k, instance_count |-> 0, max_instances |-> m]
      OBVIOUS
    <3>3. new \in MsgMonitorStruct /\ new.key = k
      BY <2>1, <3>2 DEF MsgMonitorStruct
    <3>4. CASE p = "last"
      BY <2>1, <3>1, <3>2, <3>3, <3>4, AddLastInv DEF Add
    <3>5. CASE p # "last"
      BY <2>1, <3>1, <3>2, <3>3, <3>5, AddFirstInv DEF Add
    <3>6. QED
      BY <3>4, <3>5
  <2>2. ASSUME NEW k \in Keys, NEW m \in list.limits, Update(k, m)
        PROVE  Inv'
    BY <1>2, <2>2, UpdateInv DEF Next
  <2>3. ASSUME NEW k \in Keys, Delete(k)
        PROVE  Inv'
    BY <1>2, <2>3, DeleteInv DEF Next
  <2>4. CASE Dispose
    BY <1>2, <2>4, DisposeInv DEF Next
  <2>5. ASSUME NEW msg \in Msgs, Begin(msg)
        PROVE  Inv'
    BY <1>2, <2>5, BeginInv DEF Next
  <2>6. CASE Skip
    BY <1>2, <2>6, SkipInv DEF Next
  <2>7. CASE Launch
    BY <1>2, <2>7, LaunchInv DEF Next
  <2>8. CASE EndPass
    BY <1>2, <2>8, TopEnds DEF Next, EndPass, Scanning, Inv, ArrayInv, mCount
  <2>9. ASSUME NEW handled \in BOOLEAN, Return(handled)
        PROVE  Inv'
    BY <1>2, <2>9, ReturnInv DEF Next
  <2>10. QED
    BY <1>2, <2>1, <2>2, <2>3, <2>4, <2>5, <2>6, <2>7, <2>8, <2>9 DEF Next, Steps
<1>3. QED
  BY <1>1, <1>2

LEMMA Invariance == Spec => []Inv
<1>1. Init => Inv
  <2>1. SUFFICES ASSUME Init PROVE Inv
    OBVIOUS
  <2>2. mCount = 0 /\ Depth = 0
    BY <2>1 DEF Init, mCount, Depth
  <2>3. ArrayInv
    <3>1. <<>> \in Seq(MsgMonitorStruct)
      OBVIOUS
    <3>2. \A a, b \in 1 .. mCount : mMonitor[a].key = mMonitor[b].key => a = b
      BY <2>2
    <3>3. list \in Lists /\ mMonitor = <<>> /\ disposed = FALSE
      BY <2>1 DEF Init
    <3>4. mMonitor \in Seq(MsgMonitorStruct)
      BY <3>1, <3>3
    <3>5. QED
      BY <3>2, <3>3, <3>4 DEF ArrayInv
  <2>4. PassesInv
    BY <2>1, <2>2 DEF Init, PassesInv
  <2>5. QED
    BY <2>2, <2>3, <2>4 DEF Inv, PositionsInv
<1>2. Inv /\ [Next]_vars => Inv'
  BY NextInv
<1>3. QED
  BY <1>1, <1>2, PTL DEF Spec


----------------------------------------------------------------------------
(* The theorems about positions *)

\* After any mixture of additions, deletions and nested passes, the position of every
\* pass is that of the callback it calls, or within the array.
THEOREM PositionsKept == Spec => []PositionsCorrect
<1>1. ASSUME Inv PROVE PositionsCorrect
  <2>1. ASSUME NEW i \in 1 .. Depth
        PROVE  LET inst == mTop[i]
               IN  /\ inst.at = "scan" /\ inst.index < inst.count
                        => inst.index \in 0 .. mCount - 1
                   /\ inst.at = "run" /\ ~inst.gone
                        => /\ inst.index \in 0 .. mCount - 1
                           /\ At(inst.index).key = inst.key
                   /\ inst.at = "run" /\ inst.gone => inst.deleted
    <3>1. PICK x \in MsgMonitorInstance : x = mTop[i] /\ Ahead(x) /\ Found(x)
      BY <1>1, <2>1, Elements DEF Inv, PositionsInv
    <3>2. x.index \in Int /\ x.count \in Int /\ mCount \in Nat
      BY <1>1, PassFields, Elements DEF Inv
    <3>3. x.at = "scan" /\ x.index < x.count => x.index \in 0 .. mCount - 1
      BY <3>1, <3>2 DEF Ahead, Coming
    <3>4. QED
      BY <3>1, <3>3 DEF Found
  <2>2. QED
    BY <2>1 DEF PositionsCorrect
<1>2. QED
  BY <1>1, Invariance, PTL

\* IsRunning, which discards events of a control, never claims that a message is being
\* handled when no registered callback of it runs.
THEOREM RunningMeansRunning == Spec => []RunningIsTrue
<1>1. ASSUME Inv, InScript, NEW msg \in Msgs, IsRunning(msg)
      PROVE  ReallyRunning(msg)
  <2>1. PICK i \in 1 .. Depth : ~mTop[i].deleted /\ At(mTop[i].index).key.msg = msg
    BY <1>1 DEF IsRunning
  <2>2. mTop[i].at = "run" /\ Found(mTop[i])
    BY <1>1, PassesInScript
  <2>3. ~mTop[i].gone /\ mTop[i].msg = msg
    BY <2>1, <2>2 DEF Found
  <2>4. QED
    BY <2>2, <2>3 DEF ReallyRunning, RunningAt
<1>2. Inv => RunningIsTrue
  BY <1>1 DEF RunningIsTrue
<1>3. QED
  BY <1>2, Invariance, PTL

\* Unless callbacks are appended, a pass that comes to its end has looked at everything
\* that it had to look at.
THEOREM NothingMissed == Spec => []SameItemsVisited
<1>1. ASSUME Inv, "last" \notin list.placements, NEW i \in 1 .. Depth,
             mTop[i].at = "scan", mTop[i].index >= mTop[i].count
      PROVE  mTop[i].todo = {}
  <2>1. PICK x \in MsgMonitorInstance : x = mTop[i] /\ NothingElse(x)
    BY <1>1, Elements DEF Inv, PositionsInv
  <2>2. x.index \in Int /\ x.count \in Int /\ Coming(x) = x.index
    BY <1>1, <2>1, PassFields DEF Coming
  <2>3. \A k \in x.todo : FALSE
    BY <1>1, <2>1, <2>2 DEF NothingElse
  <2>4. QED
    BY <2>1, <2>3
<1>2. Inv => SameItemsVisited
  BY <1>1 DEF SameItemsVisited
<1>3. QED
  BY <1>2, Invariance, PTL

\* A pass calls only callbacks that were registered when it began, none of them twice,
\* and none at all once the list has been disposed of.
THEOREM NothingNewCalled == Spec => OnlyItemsFromTheStart
<1>1. ASSUME Inv, Launch PROVE Item.key \in Top.todo /\ ~disposed
  <2>1. /\ Top \in MsgMonitorInstance /\ Ahead(Top) /\ Coming(Top) = Top.index
        /\ Top.index \in 0 .. mCount - 1
    BY <1>1, ItemFacts DEF Launch
  <2>2. Item.key.msg = Top.msg /\ Top.index < Top.count
    BY <1>1 DEF Launch, AtItem
  <2>3. Item.key \in Top.todo
    BY <2>1, <2>2 DEF Ahead, Item
  <2>4. mCount # 0
    BY <1>1, <2>1, Elements DEF Inv
  <2>5. QED
    BY <1>1, <2>3, <2>4 DEF Inv, ArrayInv
<1>2. Inv /\ [Next]_vars => [Launch => Item.key \in Top.todo /\ ~disposed]_vars
  BY <1>1
<1>3. QED
  BY <1>2, Invariance, PTL DEF Spec, OnlyItemsFromTheStart

----------------------------------------------------------------------------
(* The counts of instances *)

\* The passes that are calling the callback, in threads of its own.
Runners(key) == {j \in 1 .. Depth : /\ mTop[j].at = "run" /\ ~mTop[j].gone
                                    /\ mTop[j].key = key /\ ~key.gui}

Counted == \A i \in 1 .. mCount :
             mMonitor[i].instance_count >= Cardinality(Runners(mMonitor[i].key))

LEMMA RunnersFinite ==
  ASSUME Inv, NEW key
  PROVE  IsFiniteSet(Runners(key)) /\ Cardinality(Runners(key)) \in Nat
<1>1. IsFiniteSet(1 .. Depth)
  BY Elements, FS_Interval DEF Inv
<1>2. Runners(key) \subseteq 1 .. Depth
  BY DEF Runners
<1>3. QED
  BY <1>1, <1>2, FS_Subset, FS_CardinalityType

LEMMA ElementsAfter ==
  ASSUME ArrayInv', PassesInv'
  PROVE  /\ mCount' \in Nat /\ Depth' \in Nat
         /\ \A a \in 1 .. mCount' : mMonitor'[a].instance_count \in Nat
<1>1. PICK S : S = MsgMonitorStruct'
  OBVIOUS
<1>2. mMonitor' \in Seq(S) /\ mCount' = Len(mMonitor')
  BY <1>1 DEF ArrayInv, mCount
<1>3. \A x \in S : x.instance_count \in Nat
  BY <1>1 DEF MsgMonitorStruct
<1>4. PICK T : mTop' \in Seq(T) /\ Depth' = Len(mTop')
  BY DEF PassesInv, Depth
<1>5. QED
  BY <1>2, <1>3, <1>4

\* What a step may do without breaking it: each callback had a count before, and has
\* lost no more of it than it has lost runners.
CountFollows(a, c) ==
  \E k \in Keys :
    /\ mMonitor[c].key = k /\ mMonitor'[a].key = k
    /\ \/ /\ mMonitor'[a].instance_count >= mMonitor[c].instance_count
          /\ Runners(k)' \subseteq Runners(k)
       \/ /\ mMonitor'[a].instance_count = mMonitor[c].instance_count - 1
          /\ \E j \in Runners(k) : Runners(k)' = Runners(k) \ {j}
       \/ /\ mMonitor'[a].instance_count = mMonitor[c].instance_count + 1
          /\ \E j \in 1 .. Depth : Runners(k)' = Runners(k) \cup {j}

LEMMA CountsFollow ==
  ASSUME Inv, Inv', Counted,
         \A a \in 1 .. mCount' :
           \/ \E k \in Keys : mMonitor'[a].key = k /\ Runners(k)' = {}
           \/ \E c \in 1 .. mCount : CountFollows(a, c)
  PROVE  Counted'
<1>1. ASSUME NEW a \in 1 .. mCount', NEW k, k = mMonitor'[a].key
      PROVE  mMonitor'[a].instance_count >= Cardinality(Runners(k)')
  <2>1. mMonitor'[a].instance_count \in Nat
    BY ElementsAfter DEF Inv
  <2>2. CASE Runners(k)' = {}
    BY <2>1, <2>2, FS_EmptySet
  <2>3. ASSUME NEW c \in 1 .. mCount, CountFollows(a, c)
        PROVE  mMonitor'[a].instance_count >= Cardinality(Runners(k)')
    <3>1. /\ IsFiniteSet(Runners(k)) /\ Cardinality(Runners(k)) \in Nat
          /\ Cardinality(Runners(k)') \in Nat
      <4>1. IsFiniteSet(Runners(k)) /\ Cardinality(Runners(k)) \in Nat
        BY RunnersFinite
      <4>2. IsFiniteSet(Runners(k)') /\ Cardinality(Runners(k)') \in Nat
        <5>1. IsFiniteSet(1 .. Depth')
          <6>1. PICK d \in Int : d = Depth'
            BY ElementsAfter DEF Inv
          <6>2. IsFiniteSet(1 .. d)
            BY FS_Interval
          <6>3. QED
            BY <6>1, <6>2
        <5>2. Runners(k)' \subseteq 1 .. Depth'
          BY DEF Runners
        <5>3. QED
          BY <5>1, <5>2, FS_Subset, FS_CardinalityType
      <4>3. QED
        BY <4>1, <4>2
    <3>2. mMonitor[c].key = k
      BY <1>1, <2>3 DEF CountFollows
    <3>3. mMonitor[c].instance_count >= Cardinality(Runners(k))
      BY <3>2 DEF Counted
    <3>4. mMonitor[c].instance_count \in Nat
      BY Elements DEF Inv, MsgMonitorStruct
    <3>5. CASE /\ mMonitor'[a].instance_count >= mMonitor[c].instance_count
               /\ Runners(k)' \subseteq Runners(k)
      <4>1. Cardinality(Runners(k)') <= Cardinality(Runners(k))
        BY <3>1, <3>5, FS_Subset
      <4>2. QED
        BY <2>1, <3>1, <3>3, <3>4, <3>5, <4>1
    <3>6. CASE /\ mMonitor'[a].instance_count = mMonitor[c].instance_count - 1
               /\ \E j \in Runners(k) : Runners(k)' = Runners(k) \ {j}
      <4>1. Cardinality(Runners(k)') = Cardinality(Runners(k)) - 1
        BY <3>1, <3>6, FS_RemoveElement
      <4>2. QED
        BY <2>1, <3>1, <3>3, <3>4, <3>6, <4>1
    <3>7. CASE /\ mMonitor'[a].instance_count = mMonitor[c].instance_count + 1
               /\ \E j \in 1 .. Depth : Runners(k)' = Runners(k) \cup {j}
      <4>1. Cardinality(Runners(k)') <= Cardinality(Runners(k)) + 1
        <5>1. PICK j : Runners(k)' = Runners(k) \cup {j}
          BY <3>7
        <5>2. Cardinality(Runners(k) \cup {j}) <= Cardinality(Runners(k)) + 1
          <6>1. Cardinality(Runners(k) \cup {j}) =
                  IF j \in Runners(k) THEN Cardinality(Runners(k))
                                       ELSE Cardinality(Runners(k)) + 1
            BY <3>1, FS_AddElement
          <6>2. QED
            BY <3>1, <6>1
        <5>3. QED
          BY <5>1, <5>2
      <4>2. QED
        BY <2>1, <3>1, <3>3, <3>4, <3>7, <4>1
    <3>8. QED
      BY <2>3, <3>2, <3>5, <3>6, <3>7 DEF CountFollows
  <2>4. QED
    BY <1>1, <2>2, <2>3
<1>2. ASSUME NEW a \in 1 .. mCount'
      PROVE  mMonitor'[a].instance_count >= Cardinality(Runners(mMonitor[a].key)')
  <2>1. PICK k : k = mMonitor'[a].key
    OBVIOUS
  <2>2. mMonitor'[a].instance_count >= Cardinality(Runners(k)')
    BY <1>1, <2>1
  <2>3. QED
    BY <2>1, <2>2 DEF Runners
<1>3. QED
  BY <1>2 DEF Counted


\* The callbacks that passes are calling are registered.
LEMMA RunnersRegistered ==
  ASSUME Inv, NEW k, Runners(k) # {}
  PROVE  k \in Registered
<1>1. PICK j \in 1 .. Depth : mTop[j].at = "run" /\ ~mTop[j].gone /\ mTop[j].key = k
  BY DEF Runners
<1>2. mTop[j].index \in 0 .. mCount - 1 /\ At(mTop[j].index).key = k
  BY <1>1 DEF Inv, PositionsInv, Found
<1>3. mTop[j].index + 1 \in 1 .. mCount
  BY <1>2, Elements DEF Inv
<1>4. QED
  BY <1>2, <1>3 DEF Registered, At

\* A registered callback's key, as a value.
LEMMA KeyOf ==
  ASSUME Inv, NEW c \in 1 .. mCount
  PROVE  /\ mMonitor[c].key \in Keys /\ mMonitor[c].key \in Registered
         /\ mMonitor[c].instance_count \in Nat
BY Elements DEF Inv, MsgMonitorStruct, Registered

LEMMA AddCounted ==
  ASSUME Inv, Inv', Counted, NEW k \in Keys, NEW p, NEW m, Add(k, p, m)
  PROVE  Counted'
<1>1. PICK new : new = [key |-> k, instance_count |-> 0, max_instances |-> m]
  OBVIOUS
<1>2. new.key = k /\ k \notin Registered /\ mCount \in Nat /\ Depth \in Nat
  BY <1>1, Elements DEF Add, Inv
<1>3. \A x : Runners(x)' = Runners(x)
  <2>1. CASE p = "last"
    BY <2>1 DEF Add, Runners, Depth
  <2>2. CASE p # "last"
    <3>1. mTop' = [i \in 1 .. Depth |-> Shifted(mTop[i])]
      BY <2>2 DEF Add
    <3>2. \A i \in 1 .. Depth : /\ mTop'[i] = Shifted(mTop[i])
                                /\ mTop[i] \in MsgMonitorInstance
      BY <3>1, Elements DEF Inv
    <3>3. \A i \in 1 .. Depth : /\ mTop'[i].at = mTop[i].at /\ mTop'[i].key = mTop[i].key
                                /\ mTop'[i].gone = mTop[i].gone
      BY <3>2, ShiftedFields
    <3>4. Depth' = Depth
      BY <1>2, <3>1 DEF Depth
    <3>5. QED
      BY <3>3, <3>4 DEF Runners
  <2>3. QED
    BY <2>1, <2>2
<1>4. Runners(k)' = {}
  BY <1>2, <1>3, RunnersRegistered
<1>5. ASSUME NEW a \in 1 .. mCount', NEW c \in 1 .. mCount, mMonitor'[a] = mMonitor[c]
      PROVE  CountFollows(a, c)
  BY <1>3, <1>5, KeyOf DEF CountFollows
<1>6. ASSUME NEW a \in 1 .. mCount', mMonitor'[a] # new
      PROVE  \E c \in 1 .. mCount : mMonitor'[a] = mMonitor[c]
  <2>1. CASE p = "last"
    <3>1. mMonitor' = Append(mMonitor, new)
      BY <1>1, <2>1 DEF Add
    <3>2. mCount' = mCount + 1 /\ mMonitor'[mCount + 1] = new
          /\ \A b \in 1 .. mCount : mMonitor'[b] = mMonitor[b]
      BY <3>1 DEF mCount, Inv, ArrayInv
    <3>3. QED
      BY <1>2, <1>6, <3>2
  <2>2. CASE p # "last"
    <3> DEFINE one == <<new>>
    <3>1. one \in Seq({new}) /\ Len(one) = 1 /\ one[1] = new
      OBVIOUS
    <3>2. mMonitor' = one \o mMonitor
      BY <1>1, <2>2 DEF Add
    <3> HIDE DEF one
    <3>3. /\ mCount' = 1 + mCount
          /\ \A b \in 1 .. 1 + mCount :
               mMonitor'[b] = IF b <= 1 THEN one[b] ELSE mMonitor[b - 1]
      <4>1. PICK S : S = MsgMonitorStruct \cup {new}
        OBVIOUS
      <4>2. mMonitor \in Seq(S) /\ one \in Seq(S)
        BY <3>1, <4>1 DEF Inv, ArrayInv
      <4>3. /\ Len(one \o mMonitor) = Len(one) + Len(mMonitor)
            /\ \A b \in 1 .. Len(one) + Len(mMonitor) : (one \o mMonitor)[b] =
                  IF b <= Len(one) THEN one[b] ELSE mMonitor[b - Len(one)]
        BY <4>2, ConcatProperties
      <4>4. QED
        BY <3>1, <3>2, <4>3 DEF mCount
    <3>4. a # 1
      BY <1>2, <1>6, <3>1, <3>3
    <3>5. a - 1 \in 1 .. mCount /\ mMonitor'[a] = mMonitor[a - 1]
      BY <1>2, <3>3, <3>4
    <3>6. QED
      BY <3>5
  <2>3. QED
    BY <2>1, <2>2
<1>7. \A a \in 1 .. mCount' :
        \/ \E x \in Keys : mMonitor'[a].key = x /\ Runners(x)' = {}
        \/ \E c \in 1 .. mCount : CountFollows(a, c)
  BY <1>2, <1>4, <1>5, <1>6
<1>8. QED
  BY <1>7, CountsFollow

LEMMA DeleteCounted ==
  ASSUME Inv, Inv', Counted, NEW key \in Keys, Delete(key)
  PROVE  Counted'
<1>1. mCount \in Nat /\ Depth \in Nat
  BY Elements DEF Inv
<1>2. PICK f \in 0 .. mCount - 1 : f = Find(key) /\ At(f).key = key
  BY FindFacts DEF Delete, Inv
<1>3. f + 1 \in 1 .. mCount /\ mMonitor[f + 1].key = key
  BY <1>1, <1>2 DEF At
<1>4. mTop' = [i \in 1 .. Depth |-> DeletedFrom(mTop[i], f, key)]
  BY <1>2 DEF Delete, DeletedFrom
<1>5. \A x : x # key => Runners(x)' = Runners(x)
  <2>1. Depth' = Depth
    BY <1>1, <1>4 DEF Depth
  <2>2. \A i \in 1 .. Depth : /\ mTop'[i] = DeletedFrom(mTop[i], f, key)
                              /\ mTop[i] \in MsgMonitorInstance
    BY <1>4, Elements DEF Inv
  <2>3. \A i \in 1 .. Depth : /\ mTop'[i].at = mTop[i].at /\ mTop'[i].key = mTop[i].key
                              /\ mTop'[i].gone <=> mTop[i].gone \/ mTop[i].key = key
    BY <1>2, <2>2, DeletedFields
  <2>4. QED
    BY <2>1, <2>3 DEF Runners
<1>6. /\ mCount' = mCount - 1
      /\ \A a \in 1 .. mCount - 1 :
           mMonitor'[a] = IF a < f + 1 THEN mMonitor[a] ELSE mMonitor[a + 1]
  <2>1. mMonitor' = RemoveAt(mMonitor, f + 1)
    BY <1>2 DEF Delete
  <2>2. QED
    BY <1>3, <2>1, RemoveAtFacts DEF mCount, Inv, ArrayInv
<1>7. ASSUME NEW a \in 1 .. mCount'
      PROVE  \E c \in 1 .. mCount : CountFollows(a, c)
  <2>1. PICK c \in 1 .. mCount : mMonitor'[a] = mMonitor[c] /\ c # f + 1
    <3>1. CASE a < f + 1
      BY <1>1, <1>6, <3>1
    <3>2. CASE ~(a < f + 1)
      <4>1. a + 1 \in 1 .. mCount /\ a + 1 # f + 1
        BY <1>1, <1>2, <1>6, <3>2
      <4>2. QED
        BY <1>6, <3>2, <4>1
    <3>3. QED
      BY <3>1, <3>2
  <2>2. mMonitor[c].key # key
    BY <1>3, <2>1 DEF Inv, ArrayInv
  <2>3. CountFollows(a, c)
    BY <1>5, <2>1, <2>2, KeyOf DEF CountFollows
  <2>4. QED
    BY <2>3
<1>8. QED
  BY <1>7, CountsFollow


\* The steps that do not lower a count and start no callback.
LEMMA NoNewRunners ==
  ASSUME Inv, Inv', Counted, mCount' = mCount,
         \A a \in 1 .. mCount : /\ mMonitor'[a].key = mMonitor[a].key
                                /\ mMonitor'[a].instance_count >= mMonitor[a].instance_count,
         \A x : Runners(x)' \subseteq Runners(x)
  PROVE  Counted'
<1>1. ASSUME NEW a \in 1 .. mCount PROVE CountFollows(a, a)
  BY <1>1, KeyOf DEF CountFollows
<1>2. QED
  BY <1>1, CountsFollow

LEMMA UpdateCounted ==
  ASSUME Inv, Inv', Counted, NEW key \in Keys, NEW limit \in list.limits, Update(key, limit)
  PROVE  Counted'
<1>1. PICK f \in 1 .. mCount : f = Find(key) + 1
  BY FindFacts, Elements DEF Update, Inv
<1>2. mMonitor' = [mMonitor EXCEPT ![f].max_instances = limit]
  BY <1>1 DEF Update
<1>3. PICK x : x = [mMonitor[f] EXCEPT !.max_instances = limit]
  OBVIOUS
<1>4. x.key = mMonitor[f].key /\ x.instance_count = mMonitor[f].instance_count
  BY <1>3, Elements DEF Inv, MsgMonitorStruct
<1>5. mMonitor' = [mMonitor EXCEPT ![f] = x]
  BY <1>2, <1>3
<1>6. /\ mCount' = mCount
      /\ \A a \in 1 .. mCount : /\ mMonitor'[a].key = mMonitor[a].key
                                /\ mMonitor'[a].instance_count = mMonitor[a].instance_count
  BY <1>4, <1>5 DEF mCount, Inv, ArrayInv
<1>7. \A a \in 1 .. mCount : mMonitor'[a].instance_count >= mMonitor[a].instance_count
  BY <1>6, KeyOf
<1>8. \A y : Runners(y)' \subseteq Runners(y)
  BY DEF Update, Runners, Depth
<1>9. QED
  BY <1>6, <1>7, <1>8, NoNewRunners

\* A pass that begins, goes on, or ends outside a callback.
LEMMA ScanCounted ==
  ASSUME Inv, Inv', Counted, (\E msg \in Msgs : Begin(msg)) \/ Skip \/ EndPass
  PROVE  Counted'
<1>1. mMonitor' = mMonitor /\ Depth \in Nat
  BY Elements DEF Begin, Skip, EndPass, Inv
<1>2. mCount' = mCount /\ \A a \in 1 .. mCount :
          /\ mMonitor'[a].key = mMonitor[a].key
          /\ mMonitor'[a].instance_count >= mMonitor[a].instance_count
  BY <1>1, KeyOf DEF mCount
<1>3. /\ \A i \in 1 .. Depth' : i \in 1 .. Depth - 1 \/ i = Depth \/ i > Depth
      /\ Depth' \in Nat
  BY <1>1, ElementsAfter DEF Inv
<1>4. ASSUME NEW i \in 1 .. Depth', mTop'[i].at = "run"
      PROVE  i \in 1 .. Depth /\ mTop'[i] = mTop[i]
  <2>1. ASSUME NEW msg \in Msgs, Begin(msg)
        PROVE  i \in 1 .. Depth /\ mTop'[i] = mTop[i]
    <3>1. PICK new : mTop' = Append(mTop, new) /\ new.at = "scan"
      BY <2>1 DEF Begin
    <3>2. /\ Depth' = Depth + 1 /\ mTop'[Depth + 1] = new
          /\ \A j \in 1 .. Depth : mTop'[j] = mTop[j]
      BY <3>1 DEF Depth, Inv, PassesInv
    <3>3. i \in 1 .. Depth \/ i = Depth + 1
      BY <1>1, <3>2
    <3>4. QED
      BY <1>4, <3>1, <3>2, <3>3
  <2>2. CASE Skip
    <3>1. Depth > 0 /\ Top \in MsgMonitorInstance /\ Top.at = "scan"
      BY <2>2, ItemFacts DEF Skip
    <3>2. PICK inst : SetTop(inst) /\ inst.at = "scan"
      <4>1. PICK inst : inst = [Top EXCEPT !.index = @ + 1, !.todo = @ \ {Item.key}]
        OBVIOUS
      <4>2. SetTop(inst)
        BY <2>2, <4>1 DEF Skip
      <4>3. inst.at = "scan"
        BY <3>1, <4>1 DEF MsgMonitorInstance
      <4>4. QED
        BY <4>2, <4>3
    <3>3. Depth' = Depth /\ mTop'[Depth] = inst
          /\ \A j \in 1 .. Depth - 1 : mTop'[j] = mTop[j]
      BY <1>1, <3>1, <3>2 DEF SetTop, Depth, Inv, PassesInv
    <3>4. QED
      BY <1>1, <1>4, <3>2, <3>3
  <2>3. CASE EndPass
    <3>1. mTop' = Front(mTop) /\ Depth > 0
      BY <2>3 DEF EndPass, Scanning
    <3>2. Depth' = Depth - 1 /\ \A j \in 1 .. Depth - 1 : mTop'[j] = mTop[j]
      BY <3>1, FrontFacts DEF Depth, Inv, PassesInv
    <3>3. QED
      BY <1>1, <3>2
  <2>4. QED
    BY <2>1, <2>2, <2>3
<1>5. \A x : Runners(x)' \subseteq Runners(x)
  BY <1>4 DEF Runners
<1>6. QED
  BY <1>2, <1>5, NoNewRunners

\* A callback that is called is counted, unless it stands for a Gui.
LEMMA LaunchCounted ==
  ASSUME Inv, Inv', Counted, Launch, Kind = "monitor"
  PROVE  Counted'
<1>1. /\ Depth > 0 /\ Depth \in Nat /\ Top \in MsgMonitorInstance /\ Top.at = "scan"
      /\ Top.index \in 0 .. mCount - 1 /\ Item \in MsgMonitorStruct /\ Item.key \in Keys
  BY ItemFacts DEF Launch
<1>2. PICK a \in 1 .. mCount : a = Top.index + 1 /\ mMonitor[a] = Item
  BY <1>1, Elements DEF Inv, Item, At
<1>3. PICK inst : SetTop(inst) /\ inst.at = "run" /\ inst.key = Item.key
  <2>1. PICK inst : inst = [Top EXCEPT !.at = "run", !.key = Item.key, !.gone = FALSE,
                                       !.todo = @ \ {Item.key}]
    OBVIOUS
  <2>2. SetTop(inst)
    BY <2>1 DEF Launch
  <2>3. inst.at = "run" /\ inst.key = Item.key
    BY <1>1, <2>1 DEF MsgMonitorInstance
  <2>4. QED
    BY <2>2, <2>3
<1>4. Depth' = Depth /\ mTop'[Depth] = inst
      /\ \A j \in 1 .. Depth - 1 : mTop'[j] = mTop[j]
  BY <1>1, <1>3 DEF SetTop, Depth, Inv, PassesInv
<1>5. mTop[Depth].at = "scan" /\ \A i \in 1 .. Depth : i = Depth \/ i \in 1 .. Depth - 1
  BY <1>1 DEF Top
<1>6. \A x : x # Item.key \/ x.gui => Runners(x)' = Runners(x)
  BY <1>3, <1>4, <1>5 DEF Runners
<1>7. Item.key.gui \in BOOLEAN
  BY <1>1, MonitorsAssumption DEF Inv, ArrayInv, Keys
<1>8. CASE Item.key.gui
  <2>1. mMonitor' = mMonitor
    BY <1>8 DEF Launch
  <2>2. \A x : Runners(x)' \subseteq Runners(x)
    BY <1>6, <1>8
  <2>3. QED
    BY <2>1, <2>2, KeyOf, NoNewRunners DEF mCount
<1>9. CASE ~Item.key.gui
  <2>1. PICK n \in Nat : n = mMonitor[a].instance_count + 1
    BY <1>2, KeyOf
  <2>2. mMonitor' = WithCount(a, n)
    BY <1>2, <1>9, <2>1 DEF Launch, WithCount
  <2>3. /\ mCount' = mCount
        /\ \A b \in 1 .. mCount :
             /\ mMonitor'[b].key = mMonitor[b].key
             /\ mMonitor'[b].instance_count = IF b = a THEN n ELSE mMonitor[b].instance_count
    <3>1. ArrayInv
      BY DEF Inv
    <3>2. /\ Len(WithCount(a, n)) = mCount
          /\ \A b \in 1 .. mCount :
               /\ WithCount(a, n)[b].key = mMonitor[b].key
               /\ WithCount(a, n)[b].instance_count
                    = IF b = a THEN n ELSE mMonitor[b].instance_count
      BY <3>1, CountSet, Zenon
    <3>3. QED
      BY <2>2, <3>2, Zenon DEF mCount
  <2>4. \A x : x = Item.key => Runners(x)' = Runners(x) \cup {Depth}
                               \/ Runners(x)' = Runners(x)
    BY <1>1, <1>3, <1>4, <1>5 DEF Runners
  <2>5. ASSUME NEW b \in 1 .. mCount PROVE CountFollows(b, b)
    <3>1. mMonitor[b].key \in Keys /\ mMonitor[b].instance_count \in Nat
      BY KeyOf
    <3>2. CASE b = a
      <4>1. PICK k \in Keys : k = Item.key
        BY <1>1
      <4>2. Runners(k)' = Runners(k) \cup {Depth} \/ Runners(k)' = Runners(k)
        BY <2>4, <4>1
      <4>3. /\ mMonitor[b].key = k /\ mMonitor'[b].key = k
            /\ mMonitor'[b].instance_count = mMonitor[b].instance_count + 1
        BY <1>2, <2>1, <2>3, <3>2, <4>1
      <4>4. Depth \in 1 .. Depth
        BY <1>1
      <4>5. CASE Runners(k)' = Runners(k) \cup {Depth}
        BY <4>3, <4>4, <4>5 DEF CountFollows
      <4>6. CASE Runners(k)' = Runners(k)
        BY <3>1, <4>3, <4>6 DEF CountFollows
      <4>7. QED
        BY <4>2, <4>5, <4>6
    <3>3. CASE b # a
      <4>1. PICK k \in Keys : k = mMonitor[b].key
        BY <3>1
      <4>2. k # Item.key
        BY <1>2, <3>3, <4>1 DEF Inv, ArrayInv
      <4>3. Runners(k)' = Runners(k)
        BY <1>6, <4>2
      <4>4. QED
        BY <2>3, <3>1, <3>3, <4>1, <4>3 DEF CountFollows
    <3>4. QED
      BY <3>2, <3>3
  <2>6. QED
    BY <2>3, <2>5, CountsFollow
<1>10. QED
  BY <1>7, <1>8, <1>9

\* A callback that returns is counted down at most once, if it has been counted.
LEMMA ReturnCounted ==
  ASSUME Inv, Inv', Counted, NEW handled \in BOOLEAN, Return(handled)
  PROVE  Counted'
<1>1. /\ Depth > 0 /\ Top.at = "run" /\ Depth \in Nat
      /\ Top \in MsgMonitorInstance /\ Found(Top) /\ mCount \in Nat
  BY Elements DEF Return, Inv, PositionsInv, Top
<1>2. /\ mCount' = mCount
      /\ \A b \in 1 .. mCount :
           /\ mMonitor'[b].key = mMonitor[b].key
           /\ \/ mMonitor'[b].instance_count = mMonitor[b].instance_count
              \/ /\ mMonitor'[b].instance_count = mMonitor[b].instance_count - 1
                 /\ CountsInstances /\ ~Top.gone /\ Top.key = mMonitor[b].key
  BY <1>1, AfterReturn DEF Return, mCount
<1>3. \A x : Runners(x)' = Runners(x) \ {Depth}
  <2>1. CASE handled
    <3>1. mTop' = Front(mTop)
      BY <2>1 DEF Return
    <3>2. Depth' = Depth - 1 /\ \A j \in 1 .. Depth - 1 : mTop'[j] = mTop[j]
      BY <1>1, <3>1, FrontFacts DEF Depth, Inv, PassesInv
    <3>3. 1 .. Depth - 1 = (1 .. Depth) \ {Depth}
      BY <1>1
    <3>4. QED
      BY <3>2, <3>3 DEF Runners
  <2>2. CASE ~handled
    <3>1. PICK inst : SetTop(inst) /\ inst.at = "scan"
      <4>1. PICK inst : inst = [Top EXCEPT !.at = "scan", !.index = @ + 1, !.key = NoKey,
                                  !.gone = FALSE, !.deleted = @ /\ ~CountsInstances]
        OBVIOUS
      <4>2. SetTop(inst)
        BY <2>2, <4>1 DEF Return
      <4>3. inst.at = "scan"
        BY <1>1, <4>1 DEF MsgMonitorInstance
      <4>4. QED
        BY <4>2, <4>3
    <3>2. Depth' = Depth /\ mTop'[Depth] = inst
          /\ \A j \in (1 .. Depth) \ {Depth} : mTop'[j] = mTop[j]
      BY <1>1, <3>1 DEF SetTop, Depth, Inv, PassesInv
    <3>3. QED
      BY <1>1, <3>1, <3>2 DEF Runners
  <2>3. QED
    BY <2>1, <2>2
<1>4. ASSUME NEW b \in 1 .. mCount PROVE CountFollows(b, b)
  <2>1. PICK k \in Keys : k = mMonitor[b].key
    BY KeyOf
  <2>2. mMonitor[b].instance_count \in Nat
    BY KeyOf
  <2>3. CASE mMonitor'[b].instance_count = mMonitor[b].instance_count
    BY <1>2, <1>3, <2>1, <2>2, <2>3 DEF CountFollows
  <2>4. CASE /\ mMonitor'[b].instance_count = mMonitor[b].instance_count - 1
             /\ CountsInstances /\ ~Top.gone /\ Top.key = k
    <3>1. Depth \in Runners(k)
      BY <1>1, <2>4 DEF Runners, Top, CountsInstances
    <3>2. QED
      BY <1>2, <1>3, <2>1, <2>4, <3>1 DEF CountFollows
  <2>5. QED
    BY <1>2, <2>1, <2>3, <2>4
<1>5. QED
  BY <1>2, <1>4, CountsFollow

\* The counts of the instances are never too low: max_instances limits the threads.
THEOREM LimitsHold == Spec => []InstancesCounted
<1> DEFINE I == Kind = "monitor" => Counted
<1>1. Init => I
  BY DEF Init, Counted, mCount
<1>2. ASSUME Inv, Inv', I, [Next]_vars PROVE I'
  <2>1. SUFFICES ASSUME Kind' = "monitor" PROVE Counted'
    OBVIOUS
  <2>2. Kind = "monitor" /\ Counted
    BY <1>2, <2>1 DEF Next, vars, Kind
  <2>3. CASE UNCHANGED vars
    BY <2>2, <2>3 DEF vars, Counted, Runners, mCount, Depth
  <2>4. ASSUME NEW k \in Keys, NEW p \in list.placements, NEW m \in list.limits,
               Add(k, p, m)
        PROVE  Counted'
    BY <1>2, <2>2, <2>4, AddCounted
  <2>5. ASSUME NEW k \in Keys, NEW m \in list.limits, Update(k, m)
        PROVE  Counted'
    BY <1>2, <2>2, <2>5, UpdateCounted
  <2>6. ASSUME NEW k \in Keys, Delete(k)
        PROVE  Counted'
    BY <1>2, <2>2, <2>6, DeleteCounted
  <2>7. ~Dispose
    BY <2>2 DEF Dispose
  <2>8. CASE (\E msg \in Msgs : Begin(msg)) \/ Skip \/ EndPass
    BY <1>2, <2>2, <2>8, ScanCounted
  <2>9. CASE Launch
    BY <1>2, <2>2, <2>9, LaunchCounted
  <2>10. ASSUME NEW handled \in BOOLEAN, Return(handled)
         PROVE  Counted'
    BY <1>2, <2>2, <2>10, ReturnCounted
  <2>11. QED
    BY <1>2, <2>3, <2>4, <2>5, <2>6, <2>7, <2>8, <2>9, <2>10 DEF Next, Steps
<1>3. ASSUME I, Inv PROVE InstancesCounted
  <2>1. ASSUME Kind = "monitor", NEW i \in 1 .. mCount
        PROVE  mMonitor[i].instance_count >=
                 Cardinality({j \in RunningAt : /\ ~mTop[j].key.gui /\ ~mTop[j].gone
                                                /\ mTop[j].key = mMonitor[i].key})
    <3>1. {j \in RunningAt : /\ ~mTop[j].key.gui /\ ~mTop[j].gone
                             /\ mTop[j].key = mMonitor[i].key} = Runners(mMonitor[i].key)
      BY DEF RunningAt, Runners
    <3>2. QED
      BY <1>3, <2>1, <3>1 DEF Counted
  <2>2. QED
    BY <2>1 DEF InstancesCounted
<1> HIDE DEF I
<1>4. QED
  BY <1>1, <1>2, <1>3, Invariance, PTL DEF Spec

============================================================================
