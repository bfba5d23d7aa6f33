------------------------ MODULE ScriptTimers_proofs ------------------------
(***************************************************************************)
(* The list of timers stays well formed, its counts exact, and no pass     *)
(* dangles, however passes nest and whatever callbacks do to the list that *)
(* suspended passes walk: proofs for any number of timers, callbacks and   *)
(* layers.                                                                 *)
(***************************************************************************)
EXTENDS ScriptTimers, FiniteSetTheorems, WellFoundedInduction, TLAPS

----------------------------------------------------------------------------
(* The recursive definition of Nth *)

\* Every set of natural numbers has a least element.
LEMMA LeastNat ==
  ASSUME NEW T \in SUBSET Nat, T # {}
  PROVE  \E x \in T : \A y \in T : x <= y
<1>1. PICK x \in T : \A y \in T : ~(<<y, x>> \in OpToRel(<, Nat))
  BY NatLessThanWellFounded, WFMin
<1>2. \A y \in T : ~(y < x)
  BY <1>1 DEF OpToRel
<1>3. QED
  BY <1>2

\* One step along the list.
Follow(q) == IF q = Null THEN Null ELSE timers[q].next

LEMMA WalkExists ==
  ASSUME NEW p, NEW n \in Nat
  PROVE  \E f : f = [k \in 0 .. n |-> IF k = 0 THEN p ELSE Follow(f[k - 1])]
<1> DEFINE Walk(f, m) ==
      f = [k \in 0 .. m |-> IF k = 0 THEN p ELSE Follow(f[k - 1])]
<1> DEFINE T == {m \in Nat : ~ \E f : Walk(f, m)}
<1>1. CASE T = {}
  <2>1. n \notin T
    BY <1>1
  <2>2. QED
    BY <2>1
<1>2. CASE T # {}
  <2>1. PICK m \in T : \A y \in T : m <= y
    <3>1. T \in SUBSET Nat
      OBVIOUS
    <3> HIDE DEF T
    <3>2. QED
      BY <1>2, <3>1, LeastNat
  <2>2. CASE m = 0
    <3>1. Walk([k \in 0 .. 0 |-> p], 0)
      BY SMT
    <3>2. QED
      BY <2>1, <2>2, <3>1
  <2>3. CASE m # 0
    <3>1. m - 1 \in Nat /\ m - 1 \notin T
      BY <2>1, <2>3
    <3>2. PICK f : Walk(f, m - 1)
      BY <3>1
    <3> DEFINE g == [k \in 0 .. m |-> IF k <= m - 1 THEN f[k] ELSE Follow(f[m - 1])]
    <3>3. \A k \in 0 .. m : g[k] = IF k = 0 THEN p ELSE Follow(g[k - 1])
      BY <2>1, <2>3, <3>1, <3>2
    <3>4. Walk(g, m)
      BY <3>3
    <3>5. QED
      BY <2>1, <3>4
  <2>4. QED
    BY <2>2, <2>3
<1>3. QED
  BY <1>1, <1>2

\* What the recursive definition of Nth gives.
LEMMA NthSteps ==
  ASSUME NEW p
  PROVE  /\ Cardinality(Timers) \in Nat
         /\ Nth(p)[0] = p
         /\ \A k \in 1 .. Cardinality(Timers) : Nth(p)[k] = Follow(Nth(p)[k - 1])
<1> DEFINE N == Cardinality(Timers)
<1>1. N \in Nat
  BY FS_CardinalityType, TimersAssumption
<1>2. PICK f : f = [k \in 0 .. N |-> IF k = 0 THEN p ELSE Follow(f[k - 1])]
  BY <1>1, WalkExists
<1>3. Nth(p) = CHOOSE h : h = [k \in 0 .. N |-> IF k = 0 THEN p ELSE Follow(h[k - 1])]
  BY DEF Nth, Follow
<1>4. Nth(p) = [k \in 0 .. N |-> IF k = 0 THEN p ELSE Follow(Nth(p)[k - 1])]
  BY <1>2, <1>3
<1>5. QED
  BY <1>1, <1>4

----------------------------------------------------------------------------
(* The inductive invariant *)

\* s enumerates the list, which has n timers.
IsList(s, n) ==
  /\ \A i, j \in 1 .. n : s[i] = s[j] => i = j
  /\ alloc = {s[i] : i \in 1 .. n}
  /\ mFirstTimer = IF n = 0 THEN Null ELSE s[1]
  /\ mLastTimer = IF n = 0 THEN Null ELSE s[n]
  /\ \A i \in 1 .. n : timers[s[i]].next = IF i = n THEN Null ELSE s[i + 1]
  /\ mTimerCount = n

Listed == \E n \in Nat : \E s \in [1 .. n -> Timers] : IsList(s, n)

OneTimerEach == \A t, u \in alloc : timers[t].cb = timers[u].cb => t = u

Enabled == {t \in alloc : timers[t].enabled}
EnabledCounted == mTimerEnabledCount = Cardinality(Enabled)

\* Where the frames that belong to A stand in fs.
Places(fs, A) == {i \in 1 .. Len(fs) : fs[i] \in A}
Count(fs, A) == Cardinality(Places(fs, A))

Sleeps == {f \in Frame : f.at = "sleep"}
RunsOf(t) == {f \in Frame : f.at = "run" /\ f.cur = t}
LocksOf(t) == {f \in Frame : f.at = "deleting" /\ f.nxt = t}

LayersCounted == g_nLayersNeedingTimer = Count(frames, Sleeps)

HeldExactly ==
  \A t \in alloc :
    /\ timers[t].running <= 1
    /\ timers[t].running = Count(frames, RunsOf(t))
    /\ timers[t].locked = Count(frames, LocksOf(t))

\* The script is at the bottom, and only the pass on top looks for a timer.
Stacked ==
  /\ frames[1].at = "script"
  /\ \A i \in 1 .. Depth : frames[i].at \in {"reap", "scan"} => i = Depth

\* What a suspended pass goes on with exists.
SoundFrame(f) ==
  /\ f.at = "run" => f.cur \in alloc
  /\ f.at \in {"reap", "scan"} => f.this \in alloc \cup {Null}
  /\ f.at = "deleting" => f.nxt \in alloc \cup {Null}

FramesSound == \A i \in 1 .. Depth : SoundFrame(frames[i])

\* A disabled timer is held, or the pass on top looks at it.
NoneForgotten ==
  \A t \in alloc :
    \/ timers[t].enabled \/ timers[t].running > 0 \/ timers[t].locked > 0
    \/ At({"reap"}) /\ Top.this = t

Inv ==
  /\ TypeOK /\ Listed /\ OneTimerEach /\ EnabledCounted /\ LayersCounted
  /\ HeldExactly /\ MainTimerWhenNeeded /\ Stacked /\ FramesSound /\ NoneForgotten

----------------------------------------------------------------------------
(* Walking the list *)

\* From the i-th timer of the list on come the (i+1)-th, the (i+2)-th and so on.
LEMMA WalkFrom ==
  ASSUME TypeOK, NEW n \in Nat, NEW s \in [1 .. n -> Timers], IsList(s, n),
         NEW i \in 1 .. n
  PROVE  \A k \in 0 .. Cardinality(Timers) :
           Nth(s[i])[k] = IF i + k <= n THEN s[i + k] ELSE Null
<1> DEFINE N == Cardinality(Timers)
<1> DEFINE Right(k) == Nth(s[i])[k] = IF i + k <= n THEN s[i + k] ELSE Null
<1> DEFINE W == {k \in 0 .. N : ~ Right(k)}
<1>1. /\ N \in Nat /\ Nth(s[i])[0] = s[i]
      /\ \A k \in 1 .. N : Nth(s[i])[k] = Follow(Nth(s[i])[k - 1])
  BY NthSteps
<1>2. \A j \in 1 .. n : Follow(s[j]) = IF j = n THEN Null ELSE s[j + 1]
  BY TimersAssumption DEF IsList, Follow
<1>3. Follow(Null) = Null
  BY DEF Follow
<1>4. CASE W = {}
  <2>1. \A k \in 0 .. N : Right(k)
    BY <1>4
  <2>2. QED
    BY <2>1
<1>5. CASE W # {}
  <2>1. PICK m \in W : \A y \in W : m <= y
    <3>1. W \in SUBSET Nat
      BY <1>1
    <3> HIDE DEF W
    <3>2. QED
      BY <1>5, <3>1, LeastNat
  <2>2. CASE m = 0
    BY <1>1, <2>1, <2>2
  <2>3. CASE m # 0
    <3>1. m - 1 \in 0 .. N /\ m - 1 \notin W /\ m \in 1 .. N
      BY <1>1, <2>1, <2>3
    <3>2. Right(m - 1)
      BY <3>1
    <3>3. Nth(s[i])[m] = Follow(Nth(s[i])[m - 1])
      BY <1>1, <3>1
    <3>4. CASE i + (m - 1) <= n
      <4>1. Nth(s[i])[m] = IF i + (m - 1) = n THEN Null ELSE s[(i + (m - 1)) + 1]
        BY <1>2, <3>1, <3>2, <3>3, <3>4
      <4>2. (i + (m - 1)) + 1 = i + m
        BY <3>1
      <4>3. Right(m)
        BY <3>1, <3>4, <4>1, <4>2
      <4>4. QED
        BY <2>1, <4>3
    <3>5. CASE ~(i + (m - 1) <= n)
      <4>1. Right(m)
        BY <1>3, <3>1, <3>2, <3>3, <3>5
      <4>2. QED
        BY <2>1, <4>1
    <3>6. QED
      BY <3>4, <3>5
  <2>4. QED
    BY <2>2, <2>3
<1>6. QED
  BY <1>4, <1>5

\* Nothing comes after the end.
LEMMA WalkNull == From(Null) = {}
<1> DEFINE N == Cardinality(Timers)
<1> DEFINE W == {k \in 0 .. N : Nth(Null)[k] # Null}
<1>1. /\ N \in Nat /\ Nth(Null)[0] = Null
      /\ \A k \in 1 .. N : Nth(Null)[k] = Follow(Nth(Null)[k - 1])
  BY NthSteps
<1>2. CASE W = {}
  BY <1>2 DEF From
<1>3. CASE W # {}
  <2>1. PICK m \in W : \A y \in W : m <= y
    <3>1. W \in SUBSET Nat
      BY <1>1
    <3> HIDE DEF W
    <3>2. QED
      BY <1>3, <3>1, LeastNat
  <2>2. m # 0
    BY <1>1, <2>1
  <2>3. m \in 1 .. N /\ m - 1 \in 0 .. N /\ m - 1 \notin W
    BY <1>1, <2>1, <2>2
  <2>4. Nth(Null)[m] = Null
    BY <1>1, <2>3 DEF Follow
  <2>5. QED
    BY <2>1, <2>4
<1>4. QED
  BY <1>2, <1>3

\* What the model reads off the list: its timers, those from one of them on,
\* how many there are, and which comes before which.
LEMMA ListRead ==
  ASSUME TypeOK, NEW n \in Nat, NEW s \in [1 .. n -> Timers], IsList(s, n)
  PROVE  /\ From(mFirstTimer) = alloc
         /\ \A t \in alloc : From(t) \subseteq alloc
         /\ IsFiniteSet(alloc) /\ Cardinality(alloc) = n
         /\ \A i \in 1 .. n : Previous(s[i]) = IF i = 1 THEN {} ELSE {s[i - 1]}
<1> DEFINE N == Cardinality(Timers)
<1>1. N \in Nat
  BY NthSteps
<1>2. alloc = {s[i] : i \in 1 .. n} /\ alloc \subseteq Timers
  BY DEF IsList
<1>3. IsFiniteSet(1 .. n) /\ Cardinality(1 .. n) = n
  BY FS_Interval
<1>4. s \in Injection(1 .. n, Timers) /\ s \in Bijection(1 .. n, alloc)
  <2>1. \A i, j \in 1 .. n : s[i] = s[j] => i = j
    BY DEF IsList
  <2>2. s \in [1 .. n -> alloc]
    BY <1>2
  <2>3. s \in Injection(1 .. n, Timers)
    BY <2>1 DEF Injection, IsInjective
  <2>4. s \in Injection(1 .. n, alloc)
    BY <2>1, <2>2 DEF Injection, IsInjective
  <2>5. s \in Surjection(1 .. n, alloc)
    BY <1>2, <2>2 DEF Surjection
  <2>6. QED
    BY <2>3, <2>4, <2>5 DEF Bijection
<1>5. n <= N
  BY <1>3, <1>4, FS_Injection, TimersAssumption
<1>6. IsFiniteSet(alloc) /\ Cardinality(alloc) = n
  <2>1. ExistsBijection(1 .. n, alloc)
    BY <1>4 DEF ExistsBijection
  <2>2. QED
    BY <1>3, <2>1, FS_Bijection
<1>7. \A i \in 1 .. n : From(s[i]) \subseteq alloc
  <2>1. SUFFICES ASSUME NEW i \in 1 .. n, NEW k \in 0 .. N, Nth(s[i])[k] # Null
                 PROVE  Nth(s[i])[k] \in alloc
    BY DEF From
  <2>2. Nth(s[i])[k] = IF i + k <= n THEN s[i + k] ELSE Null
    BY WalkFrom
  <2>3. QED
    BY <1>1, <1>2, <2>1, <2>2
<1>8. From(mFirstTimer) = alloc
  <2>1. CASE n = 0
    BY <1>2, <2>1, WalkNull DEF IsList
  <2>2. CASE n # 0
    <3>1. mFirstTimer = s[1] /\ 1 \in 1 .. n
      BY <2>2 DEF IsList
    <3>2. \A j \in 1 .. n : s[j] \in From(s[1])
      <4>1. SUFFICES ASSUME NEW j \in 1 .. n
                     PROVE  s[j] \in From(s[1])
        OBVIOUS
      <4>2. j - 1 \in 0 .. N /\ 1 + (j - 1) <= n /\ 1 + (j - 1) = j
        BY <1>1, <1>5
      <4>3. Nth(s[1])[j - 1] = s[j]
        BY <3>1, <4>2, WalkFrom
      <4>4. s[j] # Null
        BY TimersAssumption
      <4>5. QED
        BY <4>2, <4>3, <4>4 DEF From
    <3>3. QED
      BY <1>2, <1>7, <3>1, <3>2
  <2>3. QED
    BY <2>1, <2>2
<1>9. \A i \in 1 .. n : Previous(s[i]) = IF i = 1 THEN {} ELSE {s[i - 1]}
  <2>1. SUFFICES ASSUME NEW i \in 1 .. n
                 PROVE  Previous(s[i]) = IF i = 1 THEN {} ELSE {s[i - 1]}
    OBVIOUS
  <2>2. Previous(s[i]) = {p \in alloc : timers[p].next = s[i]}
    BY <1>8 DEF Previous
  <2>3. \A j \in 1 .. n : timers[s[j]].next = s[i] <=> j = i - 1
    <3>1. SUFFICES ASSUME NEW j \in 1 .. n
                   PROVE  timers[s[j]].next = s[i] <=> j = i - 1
      OBVIOUS
    <3>2. timers[s[j]].next = IF j = n THEN Null ELSE s[j + 1]
      BY DEF IsList
    <3>3. s[i] # Null
      BY TimersAssumption
    <3>4. j # n => (s[j + 1] = s[i] <=> j + 1 = i)
      BY DEF IsList
    <3>5. QED
      BY <3>2, <3>3, <3>4
  <2>4. QED
    BY <1>2, <2>2, <2>3
<1>10. QED
  BY <1>2, <1>6, <1>7, <1>8, <1>9


----------------------------------------------------------------------------
(* Changing the list *)

\* A step that touches no pointer keeps the list.
LEMMA SameListed ==
  ASSUME TypeOK, Listed, UNCHANGED list,
         \A u \in Timers : timers'[u].next = timers[u].next
  PROVE  Listed'
<1>1. PICK n \in Nat : \E s \in [1 .. n -> Timers] : IsList(s, n)
  BY DEF Listed
<1>2. PICK s \in [1 .. n -> Timers] : IsList(s, n)
  BY <1>1
<1>3. \A i \in 1 .. n : timers'[s[i]].next = IF i = n THEN Null ELSE s[i + 1]
  BY <1>2 DEF IsList
<1>4. IsList(s, n)'
  BY <1>2, <1>3 DEF IsList, list
<1>5. QED
  BY <1>4 DEF Listed

\* A new timer goes to the end.
LEMMA AppendListed ==
  ASSUME TypeOK, Listed, NEW t \in Timers \ alloc,
         alloc' = alloc \cup {t}, mLastTimer' = t,
         mFirstTimer' = IF mFirstTimer = Null THEN t ELSE mFirstTimer,
         mTimerCount' = mTimerCount + 1,
         timers'[t].next = Null,
         \A u \in alloc : timers'[u].next = IF u = mLastTimer THEN t ELSE timers[u].next
  PROVE  Listed'
<1>1. PICK n \in Nat : \E s \in [1 .. n -> Timers] : IsList(s, n)
  BY DEF Listed
<1>2. PICK s \in [1 .. n -> Timers] : IsList(s, n)
  BY <1>1
<1> DEFINE r == [j \in 1 .. n + 1 |-> IF j <= n THEN s[j] ELSE t]
<1>3. r \in [1 .. n + 1 -> Timers]
  OBVIOUS
<1>4. alloc = {s[i] : i \in 1 .. n}
  BY <1>2 DEF IsList
<1>5. \A i, j \in 1 .. n + 1 : r[i] = r[j] => i = j
  <2>1. \A i, j \in 1 .. n : s[i] = s[j] => i = j
    BY <1>2 DEF IsList
  <2>2. \A i \in 1 .. n : s[i] # t
    BY <1>4
  <2>3. QED
    BY <2>1, <2>2
<1>6. alloc' = {r[i] : i \in 1 .. n + 1}
  <2>1. \A i \in 1 .. n : r[i] = s[i] /\ i \in 1 .. n + 1
    OBVIOUS
  <2>2. r[n + 1] = t /\ n + 1 \in 1 .. n + 1
    OBVIOUS
  <2>3. \A i \in 1 .. n + 1 : i \in 1 .. n \/ i = n + 1
    OBVIOUS
  <2> HIDE DEF r
  <2>4. QED
    BY <1>4, <2>1, <2>2, <2>3
<1>7. mFirstTimer' = r[1] /\ mLastTimer' = r[n + 1]
  <2>1. CASE n = 0
    BY <1>2, <2>1 DEF IsList
  <2>2. CASE n # 0
    <3>1. mFirstTimer = s[1] /\ s[1] \in Timers
      BY <1>2, <2>2 DEF IsList
    <3>2. mFirstTimer # Null
      BY <3>1, TimersAssumption
    <3>3. QED
      BY <2>2, <3>1, <3>2
  <2>3. QED
    BY <2>1, <2>2
<1>8. \A i \in 1 .. n + 1 :
        timers'[r[i]].next = IF i = n + 1 THEN Null ELSE r[i + 1]
  <2>1. SUFFICES ASSUME NEW i \in 1 .. n + 1
                 PROVE  timers'[r[i]].next = IF i = n + 1 THEN Null ELSE r[i + 1]
    OBVIOUS
  <2>2. CASE i = n + 1
    BY <2>2
  <2>3. CASE i \in 1 .. n
    <3>1. r[i] = s[i] /\ s[i] \in alloc
      BY <1>4, <2>3
    <3>2. timers'[s[i]].next = IF s[i] = mLastTimer THEN t ELSE timers[s[i]].next
      BY <3>1
    <3>3. mLastTimer = s[n]
      BY <1>2, <2>3 DEF IsList
    <3>4. s[i] = s[n] <=> i = n
      BY <1>2, <2>3 DEF IsList
    <3>5. timers[s[i]].next = IF i = n THEN Null ELSE s[i + 1]
      BY <1>2, <2>3 DEF IsList
    <3>6. r[i + 1] = IF i = n THEN t ELSE s[i + 1]
      BY <2>3
    <3>7. i # n + 1
      BY <2>3
    <3> HIDE DEF r
    <3>8. QED
      BY <3>1, <3>2, <3>3, <3>4, <3>5, <3>6, <3>7
  <2>4. QED
    BY <2>2, <2>3
<1>9. mTimerCount' = n + 1
  BY <1>2 DEF IsList
<1>10. IsList(r, n + 1)'
  <2> HIDE DEF r
  <2>1. QED
    BY <1>5, <1>6, <1>7, <1>8, <1>9 DEF IsList
<1>11. n + 1 \in Nat
  OBVIOUS
<1> HIDE DEF r
<1>12. QED
  BY <1>3, <1>10, <1>11 DEF Listed

\* Unlinking takes one timer out.
LEMMA UnlinkListed ==
  ASSUME TypeOK, Listed, NEW t \in alloc, Unlink(t),
         \A u \in Timers : timers'[u].next = Unlinked(t)[u].next
  PROVE  Listed'
<1>1. PICK n \in Nat : \E s \in [1 .. n -> Timers] : IsList(s, n)
  BY DEF Listed
<1>2. PICK s \in [1 .. n -> Timers] : IsList(s, n)
  BY <1>1
<1>3. /\ alloc = {s[j] : j \in 1 .. n}
      /\ \A i, j \in 1 .. n : s[i] = s[j] => i = j
      /\ \A j \in 1 .. n : timers[s[j]].next = IF j = n THEN Null ELSE s[j + 1]
  BY <1>2 DEF IsList
<1>4. PICK i \in 1 .. n : t = s[i]
  BY <1>3
<1>5. Previous(t) = IF i = 1 THEN {} ELSE {s[i - 1]}
  BY <1>2, <1>4, ListRead
<1> DEFINE r == [j \in 1 .. n - 1 |-> IF j < i THEN s[j] ELSE s[j + 1]]
<1>6. n - 1 \in Nat /\ r \in [1 .. n - 1 -> Timers]
  OBVIOUS
<1>7. \A j \in 1 .. n - 1 : r[j] = s[IF j < i THEN j ELSE j + 1]
                            /\ (IF j < i THEN j ELSE j + 1) \in (1 .. n) \ {i}
  OBVIOUS
<1>8. \A j \in (1 .. n) \ {i} :
        LET k == IF j < i THEN j ELSE j - 1
        IN  k \in 1 .. n - 1 /\ r[k] = s[j]
  OBVIOUS
<1>9. \A j, k \in 1 .. n - 1 : r[j] = r[k] => j = k
  <2> HIDE DEF r
  <2>1. QED
    BY <1>3, <1>7
<1>10. alloc' = {r[j] : j \in 1 .. n - 1}
  <2>1. alloc' = {s[j] : j \in (1 .. n) \ {i}}
    BY <1>3, <1>4 DEF Unlink
  <2> HIDE DEF r
  <2>2. \A x \in alloc' : \E j \in 1 .. n - 1 : x = r[j]
    BY <1>8, <2>1
  <2>3. \A j \in 1 .. n - 1 : r[j] \in alloc'
    BY <1>7, <2>1
  <2>4. QED
    BY <2>2, <2>3
<1>11. mFirstTimer' = IF n - 1 = 0 THEN Null ELSE r[1]
  <2>1. mFirstTimer = s[1] /\ 1 \in 1 .. n
    BY <1>2 DEF IsList
  <2>2. mFirstTimer' = IF s[1] = s[i] THEN timers[s[i]].next ELSE s[1]
    BY <1>4, <2>1 DEF Unlink
  <2>3. s[1] = s[i] <=> i = 1
    BY <1>3, <2>1
  <2>4. mFirstTimer' = IF i = 1 THEN (IF i = n THEN Null ELSE s[i + 1]) ELSE s[1]
    BY <1>3, <2>2, <2>3
  <2>5. QED
    BY <2>4
<1>12. mLastTimer' = IF n - 1 = 0 THEN Null ELSE r[n - 1]
  <2>1. mLastTimer = s[n] /\ n \in 1 .. n
    BY <1>2 DEF IsList
  <2>2. s[n] = s[i] <=> i = n
    BY <1>3, <2>1
  <2>3. mLastTimer' = IF i # n THEN s[n] ELSE IF i = 1 THEN Null ELSE s[i - 1]
    <3>1. CASE i # n
      BY <1>4, <2>1, <2>2, <3>1 DEF Unlink
    <3>2. CASE i = n /\ i = 1
      BY <1>4, <1>5, <2>1, <2>2, <3>2 DEF Unlink
    <3>3. CASE i = n /\ i # 1
      <4>1. Previous(t) = {s[i - 1]}
        BY <1>5, <3>3
      <4>2. (CHOOSE p \in Previous(t) : TRUE) = s[i - 1]
        BY <4>1
      <4>3. mLastTimer' = CHOOSE p \in Previous(t) : TRUE
        BY <1>4, <2>1, <2>2, <3>3, <4>1 DEF Unlink
      <4>4. QED
        BY <3>3, <4>2, <4>3
    <3>4. QED
      BY <3>1, <3>2, <3>3
  <2>4. QED
    BY <2>3
<1>13. \A j \in 1 .. n - 1 :
         timers'[r[j]].next = IF j = n - 1 THEN Null ELSE r[j + 1]
  <2>1. SUFFICES ASSUME NEW j \in 1 .. n - 1
                 PROVE  timers'[r[j]].next = IF j = n - 1 THEN Null ELSE r[j + 1]
    OBVIOUS
  <2>2. \A k \in (1 .. n) \ {i} :
          timers'[s[k]].next = IF k = i - 1 THEN timers[s[i]].next ELSE timers[s[k]].next
    <3>1. SUFFICES ASSUME NEW k \in (1 .. n) \ {i}
                   PROVE  timers'[s[k]].next =
                            IF k = i - 1 THEN timers[s[i]].next ELSE timers[s[k]].next
      OBVIOUS
    <3>2. s[k] \in Timers /\ s[k] # t
      BY <1>3, <1>4
    <3>3. s[k] \in Previous(t) <=> k = i - 1
      BY <1>3, <1>5
    <3>4. timers \in [Timers -> Timer]
      BY DEF TypeOK
    <3>5. [timers[s[k]] EXCEPT !.next = timers[t].next].next = timers[t].next
      BY <3>2, <3>4 DEF Timer
    <3>6. Unlinked(t)[s[k]] =
            IF s[k] \in Previous(t) THEN [timers[s[k]] EXCEPT !.next = timers[t].next]
            ELSE timers[s[k]]
      BY <3>2 DEF Unlinked
    <3>7. QED
      BY <1>4, <3>2, <3>3, <3>5, <3>6
  <2>3. CASE j < i - 1
    <3>1. r[j] = s[j] /\ r[j + 1] = s[j + 1] /\ j \in (1 .. n) \ {i} /\ j # i - 1
          /\ j # n - 1 /\ j # n
      BY <2>3
    <3> HIDE DEF r
    <3>2. QED
      BY <1>3, <2>2, <3>1
  <2>4. CASE j = i - 1
    <3>1. r[j] = s[j] /\ j \in (1 .. n) \ {i} /\ (j # n - 1 => r[j + 1] = s[i + 1])
          /\ (j = n - 1 <=> i = n)
      BY <2>4
    <3>2. timers[s[i]].next = IF i = n THEN Null ELSE s[i + 1]
      BY <1>3
    <3> HIDE DEF r
    <3>3. QED
      BY <2>2, <2>4, <3>1, <3>2
  <2>5. CASE j > i - 1
    <3>1. /\ r[j] = s[j + 1] /\ j + 1 \in (1 .. n) \ {i} /\ j + 1 # i - 1
          /\ j # n - 1 => r[j + 1] = s[(j + 1) + 1]
          /\ j = n - 1 <=> j + 1 = n
      BY <2>5
    <3>2. timers[s[j + 1]].next = IF j + 1 = n THEN Null ELSE s[(j + 1) + 1]
      BY <1>3, <3>1
    <3> HIDE DEF r
    <3>3. QED
      BY <2>2, <3>1, <3>2
  <2>6. QED
    BY <2>3, <2>4, <2>5
<1>14. mTimerCount' = n - 1
  BY <1>2 DEF IsList, Unlink
<1>15. IsList(r, n - 1)'
  <2> HIDE DEF r
  <2>1. QED
    BY <1>9, <1>10, <1>11, <1>12, <1>13, <1>14 DEF IsList
<1> HIDE DEF r
<1>16. QED
  BY <1>6, <1>15 DEF Listed


\* The ends of the list, and the types of what describes it.
LEMMA ListEnds ==
  ASSUME Listed
  PROVE  /\ mFirstTimer = Null => alloc = {} /\ mLastTimer = Null
         /\ mFirstTimer # Null => mLastTimer \in alloc /\ timers[mLastTimer].next = Null
<1>1. PICK n \in Nat : \E s \in [1 .. n -> Timers] : IsList(s, n)
  BY DEF Listed
<1>2. PICK s \in [1 .. n -> Timers] : IsList(s, n)
  BY <1>1
<1>3. CASE n = 0
  BY <1>2, <1>3 DEF IsList
<1>4. CASE n # 0
  <2>1. 1 \in 1 .. n /\ n \in 1 .. n /\ s[1] # Null
    BY <1>4, TimersAssumption
  <2>2. QED
    BY <1>2, <1>4, <2>1 DEF IsList
<1>5. QED
  BY <1>3, <1>4

LEMMA ListedTypes ==
  ASSUME Listed'
  PROVE  /\ alloc' \subseteq Timers /\ mTimerCount' \in Nat
         /\ mFirstTimer' \in Pointer /\ mLastTimer' \in Pointer
<1>1. PICK n \in Nat : \E s \in [1 .. n -> Timers] : IsList(s, n)'
  BY DEF Listed
<1>2. PICK s \in [1 .. n -> Timers] : IsList(s, n)'
  BY <1>1
<1>3. alloc' \subseteq Timers /\ mTimerCount' \in Nat
  BY <1>2 DEF IsList
<1>4. n # 0 => s[1] \in Timers /\ s[n] \in Timers
  OBVIOUS
<1>5. QED
  BY <1>2, <1>3, <1>4 DEF IsList, Pointer

----------------------------------------------------------------------------
(* Counting frames *)

LEMMA CountType ==
  ASSUME NEW fs \in Seq(Frame), NEW A
  PROVE  IsFiniteSet(Places(fs, A)) /\ Count(fs, A) \in Nat
<1>1. Len(fs) \in Nat /\ Places(fs, A) \subseteq 1 .. Len(fs)
  BY DEF Places
<1>2. IsFiniteSet(1 .. Len(fs))
  BY <1>1, FS_Interval
<1>3. IsFiniteSet(Places(fs, A))
  <2> HIDE DEF Places
  <2>1. Places(fs, A) \in SUBSET (1 .. Len(fs))
    BY <1>1
  <2>2. QED
    BY <1>2, <2>1, FS_Subset
<1>4. QED
  BY <1>3, FS_CardinalityType DEF Count

LEMMA CountAppend ==
  ASSUME NEW fs \in Seq(Frame), NEW f \in Frame, NEW A
  PROVE  Count(Append(fs, f), A) = Count(fs, A) + (IF f \in A THEN 1 ELSE 0)
<1> DEFINE gs == Append(fs, f)
<1>1. /\ Len(fs) \in Nat /\ Len(gs) = Len(fs) + 1 /\ gs[Len(fs) + 1] = f
      /\ \A i \in 1 .. Len(fs) : gs[i] = fs[i]
  OBVIOUS
<1>2. IsFiniteSet(Places(fs, A)) /\ Len(fs) + 1 \notin Places(fs, A)
  <2>1. Len(fs) + 1 \notin Places(fs, A)
    BY <1>1 DEF Places
  <2>2. QED
    BY <2>1, CountType
<1> HIDE DEF gs
<1>3. CASE f \in A
  <2>1. Places(gs, A) = Places(fs, A) \cup {Len(fs) + 1}
    <3>1. \A i \in 1 .. Len(gs) : i \in 1 .. Len(fs) \/ i = Len(fs) + 1
      BY <1>1
    <3>2. \A i \in 1 .. Len(fs) : i \in 1 .. Len(gs)
      BY <1>1
    <3>3. Len(fs) + 1 \in 1 .. Len(gs)
      BY <1>1
    <3>4. QED
      BY <1>1, <1>3, <3>1, <3>2, <3>3 DEF Places
  <2>2. Cardinality(Places(fs, A) \cup {Len(fs) + 1}) = Cardinality(Places(fs, A)) + 1
    BY <1>2, FS_AddElement
  <2>3. QED
    BY <1>3, <2>1, <2>2 DEF Count, gs
<1>4. CASE f \notin A
  <2>1. Places(gs, A) = Places(fs, A)
    <3>1. \A i \in 1 .. Len(gs) : i \in 1 .. Len(fs) \/ i = Len(fs) + 1
      BY <1>1
    <3>2. \A i \in 1 .. Len(fs) : i \in 1 .. Len(gs)
      BY <1>1
    <3>3. QED
      BY <1>1, <1>4, <3>1, <3>2 DEF Places
  <2>2. Count(fs, A) \in Nat
    BY CountType
  <2>3. QED
    BY <1>4, <2>1, <2>2 DEF Count, gs
<1>5. QED
  BY <1>3, <1>4

LEMMA SplitLast ==
  ASSUME NEW fs \in Seq(Frame), fs # <<>>
  PROVE  /\ Len(fs) \in Nat \ {0} /\ fs[Len(fs)] \in Frame
         /\ SubSeq(fs, 1, Len(fs) - 1) \in Seq(Frame)
         /\ Len(SubSeq(fs, 1, Len(fs) - 1)) = Len(fs) - 1
         /\ \A i \in 1 .. Len(fs) - 1 : SubSeq(fs, 1, Len(fs) - 1)[i] = fs[i]
         /\ fs = Append(SubSeq(fs, 1, Len(fs) - 1), fs[Len(fs)])
         /\ \A f \in Frame : [fs EXCEPT ![Len(fs)] = f]
                               = Append(SubSeq(fs, 1, Len(fs) - 1), f)
<1> DEFINE r == SubSeq(fs, 1, Len(fs) - 1)
<1>1. Len(fs) \in Nat \ {0} /\ fs[Len(fs)] \in Frame
  OBVIOUS
<1>2. r \in Seq(Frame) /\ Len(r) = Len(fs) - 1 /\ \A i \in 1 .. Len(fs) - 1 : r[i] = fs[i]
  BY <1>1
<1> HIDE DEF r
<1>3. ASSUME NEW gs \in Seq(Frame), Len(gs) = Len(fs),
             \A i \in 1 .. Len(fs) - 1 : gs[i] = fs[i]
      PROVE  gs = Append(r, gs[Len(fs)])
  <2>1. gs[Len(fs)] \in Frame
    BY <1>1, <1>3
  <2>2. Append(r, gs[Len(fs)]) \in Seq(Frame) /\ Len(Append(r, gs[Len(fs)])) = Len(gs)
    BY <1>1, <1>2, <1>3, <2>1
  <2>3. \A i \in 1 .. Len(gs) : Append(r, gs[Len(fs)])[i] = gs[i]
    BY <1>1, <1>2, <1>3, <2>1
  <2>4. QED
    BY <2>2, <2>3, <1>3
<1>4. fs = Append(r, fs[Len(fs)])
  BY <1>3
<1>5. \A f \in Frame : [fs EXCEPT ![Len(fs)] = f] = Append(r, f)
  <2>1. SUFFICES ASSUME NEW f \in Frame
                 PROVE  [fs EXCEPT ![Len(fs)] = f] = Append(r, f)
    OBVIOUS
  <2> DEFINE gs == [fs EXCEPT ![Len(fs)] = f]
  <2>2. gs \in Seq(Frame) /\ Len(gs) = Len(fs) /\ gs[Len(fs)] = f
        /\ \A i \in 1 .. Len(fs) - 1 : gs[i] = fs[i]
    BY <1>1
  <2> HIDE DEF gs
  <2>3. gs = Append(r, gs[Len(fs)])
    BY <1>3, <2>2
  <2>4. QED
    BY <2>2, <2>3 DEF gs
<1>6. QED
  BY <1>1, <1>2, <1>4, <1>5 DEF r


----------------------------------------------------------------------------
(* Changing the stack *)

One(f, A) == IF f \in A THEN 1 ELSE 0

LEMMA Pushed ==
  ASSUME TypeOK, Stacked, ~At({"reap", "scan"}),
         NEW f \in Frame, f.at \notin {"reap", "scan"}, frames' = Append(frames, f)
  PROVE  /\ frames' \in Seq(Frame) /\ frames' # <<>> /\ Stacked'
         /\ Depth' = Depth + 1 /\ frames'[Depth + 1] = f
         /\ \A i \in 1 .. Depth : frames'[i] = frames[i]
         /\ \A A : Count(frames', A) = Count(frames, A) + One(f, A)
<1>1. frames \in Seq(Frame) /\ frames # <<>> /\ Depth \in Nat \ {0}
  BY DEF TypeOK, Depth
<1>2. /\ frames' \in Seq(Frame) /\ frames' # <<>>
      /\ Depth' = Depth + 1 /\ frames'[Depth + 1] = f
      /\ \A i \in 1 .. Depth : frames'[i] = frames[i]
  BY <1>1 DEF Depth
<1>3. \A A : Count(frames', A) = Count(frames, A) + One(f, A)
  BY <1>1, CountAppend DEF One
<1>4. frames'[1].at = "script"
  BY <1>1, <1>2 DEF Stacked
<1>5. ASSUME NEW i \in 1 .. Depth', frames'[i].at \in {"reap", "scan"}
      PROVE  i = Depth'
  <2>1. CASE i \in 1 .. Depth - 1
    <3>1. i \in 1 .. Depth /\ i # Depth
      BY <1>1, <2>1
    <3> frames'[i] = frames[i]
      BY <1>2, <3>1, Zenon
    <3>2. frames[i].at \notin {"reap", "scan"}
      BY <3>1 DEF Stacked
    <3>3. QED
      BY <1>5, <3>1, <3>2
  <2>2. CASE i = Depth
    <3> Depth \in 1 .. Depth
      BY <1>1
    <3>1. frames'[i] = Top
      BY <1>2, <2>2, Zenon DEF Top
    <3>2. QED
      BY <1>5, <3>1 DEF At
  <2>3. CASE i = Depth + 1
    BY <1>2, <2>3
  <2>4. QED
    BY <1>1, <1>2, <2>1, <2>2, <2>3
<1>6. QED
  BY <1>2, <1>3, <1>4, <1>5 DEF Stacked

\* A frame other than the script's is not the only one.
LEMMA NotAlone ==
  ASSUME TypeOK, Stacked, ~At({"script"})
  PROVE  /\ Depth \in Nat /\ Depth > 1 /\ Top \in Frame
         /\ frames \in Seq(Frame) /\ frames # <<>>
<1>1. frames \in Seq(Frame) /\ frames # <<>> /\ Depth \in Nat \ {0}
  BY DEF TypeOK, Depth
<1>2. Depth # 1
  BY DEF Stacked, At, Top
<1>3. Top \in Frame
  BY <1>1 DEF Top, Depth
<1>4. QED
  BY <1>1, <1>2, <1>3

LEMMA Replaced ==
  ASSUME TypeOK, Stacked, ~At({"script"}), NEW f \in Frame, Replace(f)
  PROVE  /\ frames' \in Seq(Frame) /\ frames' # <<>> /\ Stacked'
         /\ Depth' = Depth /\ frames'[Depth] = f
         /\ \A i \in 1 .. Depth - 1 : frames'[i] = frames[i]
         /\ \A A : Count(frames, A) \in Nat /\ Count(frames, A) >= One(Top, A)
         /\ \A A : Count(frames', A) = Count(frames, A) - One(Top, A) + One(f, A)
<1>1. /\ Depth \in Nat /\ Depth > 1 /\ Top \in Frame
      /\ frames \in Seq(Frame) /\ frames # <<>>
  BY NotAlone
<1>2. /\ frames' \in Seq(Frame) /\ frames' # <<>>
      /\ Depth' = Depth /\ frames'[Depth] = f
      /\ \A i \in 1 .. Depth - 1 : frames'[i] = frames[i]
  BY <1>1 DEF Depth, Replace
<1> DEFINE r == SubSeq(frames, 1, Depth - 1)
<1>3. r \in Seq(Frame) /\ frames = Append(r, Top) /\ frames' = Append(r, f)
  BY <1>1, SplitLast DEF Depth, Top, Replace
<1> HIDE DEF r
<1>4. \A A : /\ Count(r, A) \in Nat /\ Count(frames, A) = Count(r, A) + One(Top, A)
             /\ Count(frames', A) = Count(r, A) + One(f, A)
  BY <1>1, <1>3, CountAppend, CountType DEF One
<1>5. \A A : One(Top, A) \in {0, 1} /\ One(f, A) \in {0, 1}
  BY DEF One
<1>6. frames'[1].at = "script"
  BY <1>1, <1>2 DEF Stacked
<1>7. \A i \in 1 .. Depth' : frames'[i].at \in {"reap", "scan"} => i = Depth'
  BY <1>1, <1>2 DEF Stacked
<1>8. Stacked'
  BY <1>6, <1>7 DEF Stacked
<1>9. QED
  BY <1>2, <1>4, <1>5, <1>8

LEMMA Popped ==
  ASSUME TypeOK, Stacked, ~At({"script"}), Pop
  PROVE  /\ frames' \in Seq(Frame) /\ frames' # <<>> /\ Stacked'
         /\ Depth' = Depth - 1
         /\ \A i \in 1 .. Depth - 1 : frames'[i] = frames[i]
         /\ \A i \in 1 .. Depth - 1 : frames[i].at \notin {"reap", "scan"}
         /\ \A A : Count(frames, A) \in Nat /\ Count(frames, A) >= One(Top, A)
         /\ \A A : Count(frames', A) = Count(frames, A) - One(Top, A)
<1>1. /\ Depth \in Nat /\ Depth > 1 /\ Top \in Frame
      /\ frames \in Seq(Frame) /\ frames # <<>>
  BY NotAlone
<1>2. /\ frames' \in Seq(Frame) /\ Depth' = Depth - 1
      /\ \A i \in 1 .. Depth - 1 : frames'[i] = frames[i]
      /\ frames = Append(frames', Top)
  BY <1>1, SplitLast DEF Depth, Pop, Top
<1>3. frames' # <<>>
  BY <1>1, <1>2 DEF Depth
<1>4. \A A : Count(frames', A) \in Nat /\ Count(frames, A) = Count(frames', A) + One(Top, A)
  BY <1>1, <1>2, CountAppend, CountType DEF One
<1>5. \A A : One(Top, A) \in {0, 1}
  BY DEF One
<1>6. \A i \in 1 .. Depth - 1 : frames[i].at \notin {"reap", "scan"}
  BY <1>1 DEF Stacked
<1>7. frames'[1].at = "script"
  BY <1>1, <1>2 DEF Stacked
<1>8. Stacked'
  BY <1>1, <1>2, <1>6, <1>7 DEF Stacked
<1>9. \A A : /\ Count(frames, A) \in Nat /\ Count(frames, A) >= One(Top, A)
             /\ Count(frames', A) = Count(frames, A) - One(Top, A)
  BY <1>4, <1>5
<1>10. QED
  BY <1>2, <1>3, <1>6, <1>8, <1>9

\* The frames that are made, and what is counted of them.
LEMMA FrameKinds ==
  ASSUME NEW t \in Timers
  PROVE  /\ NewFrame("sleep") \in Frame /\ NewFrame("sleep").at = "sleep"
         /\ [NewFrame("run") EXCEPT !.cur = t] \in Frame
         /\ [NewFrame("run") EXCEPT !.cur = t].at = "run"
         /\ [NewFrame("run") EXCEPT !.cur = t].cur = t
  BY DEF NewFrame, Frame, Pointer

\* What a frame counts for.
LEMMA Counted ==
  ASSUME NEW f \in Frame, NEW t
  PROVE  /\ One(f, Sleeps) = IF f.at = "sleep" THEN 1 ELSE 0
         /\ One(f, RunsOf(t)) = IF f.at = "run" /\ f.cur = t THEN 1 ELSE 0
         /\ One(f, LocksOf(t)) = IF f.at = "deleting" /\ f.nxt = t THEN 1 ELSE 0
  BY DEF One, Sleeps, RunsOf, LocksOf


----------------------------------------------------------------------------
(* Timers *)

\* No frame of A is on the stack when none is counted.
LEMMA CountZero ==
  ASSUME NEW fs \in Seq(Frame), NEW A, Count(fs, A) = 0
  PROVE  \A i \in 1 .. Len(fs) : fs[i] \notin A
<1>1. Places(fs, A) = {}
  BY CountType, FS_EmptySet DEF Count
<1>2. QED
  BY <1>1 DEF Places

LEMMA NoneCounted ==
  ASSUME NEW fs \in Seq(Frame), NEW A, \A i \in 1 .. Len(fs) : fs[i] \notin A
  PROVE  Count(fs, A) = 0
<1>1. Places(fs, A) = {}
  BY DEF Places
<1>2. QED
  BY <1>1, FS_EmptySet DEF Count

LEMMA AllocFinite ==
  ASSUME TypeOK
  PROVE  IsFiniteSet(alloc) /\ IsFiniteSet(Enabled) /\ Cardinality(Enabled) \in Nat
<1>1. IsFiniteSet(alloc)
  BY TimersAssumption, FS_Subset DEF TypeOK
<1>2. Enabled \in SUBSET alloc
  BY DEF Enabled
<1>3. IsFiniteSet(Enabled)
  BY <1>1, <1>2, FS_Subset
<1>4. QED
  BY <1>1, <1>3, FS_CardinalityType

\* Every way in which the enabled timers change: the count and the Windows timer
\* follow.
LEMMA EnabledStep ==
  ASSUME TypeOK, EnabledCounted, MainTimerWhenNeeded, UNCHANGED g_nLayersNeedingTimer,
         \/ Enabled' = Enabled /\ CountUnchanged
         \/ \E t : t \notin Enabled /\ Enabled' = Enabled \cup {t} /\ CountEnabled
         \/ \E t \in Enabled : Enabled' = Enabled \ {t} /\ CountDisabled
  PROVE  /\ EnabledCounted' /\ MainTimerWhenNeeded'
         /\ mTimerEnabledCount' \in Nat /\ g_MainTimerExists' \in BOOLEAN
<1>1. IsFiniteSet(Enabled) /\ Cardinality(Enabled) = mTimerEnabledCount
      /\ mTimerEnabledCount \in Nat /\ g_MainTimerExists \in BOOLEAN
      /\ g_nLayersNeedingTimer \in Nat
  BY AllocFinite DEF EnabledCounted, TypeOK
<1>2. CASE Enabled' = Enabled /\ CountUnchanged
  BY <1>1, <1>2 DEF CountUnchanged, EnabledCounted, MainTimerWhenNeeded
<1>3. ASSUME NEW t, t \notin Enabled, Enabled' = Enabled \cup {t}, CountEnabled
      PROVE  /\ EnabledCounted' /\ MainTimerWhenNeeded'
             /\ mTimerEnabledCount' \in Nat /\ g_MainTimerExists' \in BOOLEAN
  <2>1. Cardinality(Enabled \cup {t}) = Cardinality(Enabled) + 1
    BY <1>1, <1>3, FS_AddElement
  <2>2. Cardinality(Enabled') = mTimerEnabledCount'
    BY <1>1, <1>3, <2>1 DEF CountEnabled
  <2>3. EnabledCounted'
    BY <2>2 DEF EnabledCounted
  <2>4. QED
    BY <1>1, <1>3, <2>3 DEF CountEnabled, MainTimerWhenNeeded
<1>4. ASSUME NEW t \in Enabled, Enabled' = Enabled \ {t}, CountDisabled
      PROVE  /\ EnabledCounted' /\ MainTimerWhenNeeded'
             /\ mTimerEnabledCount' \in Nat /\ g_MainTimerExists' \in BOOLEAN
  <2>1. Cardinality(Enabled \ {t}) = Cardinality(Enabled) - 1
    BY <1>1, <1>4, FS_RemoveElement
  <2>2. Cardinality(Enabled) # 0
    BY <1>1, <1>4, FS_EmptySet
  <2>3. mTimerEnabledCount - 1 \in Nat /\ mTimerEnabledCount > 0
    BY <1>1, <2>2
  <2>4. Cardinality(Enabled') = mTimerEnabledCount'
    BY <1>1, <1>4, <2>1 DEF CountDisabled
  <2>5. EnabledCounted'
    BY <2>4 DEF EnabledCounted
  <2>6. g_MainTimerExists
    BY <2>3 DEF MainTimerWhenNeeded
  <2>7. MainTimerWhenNeeded'
    BY <1>1, <1>4, <2>3, <2>6 DEF CountDisabled, MainTimerAfter, MainTimerWhenNeeded
  <2>8. g_MainTimerExists' \in BOOLEAN
    BY <1>4 DEF CountDisabled, MainTimerAfter
  <2>9. QED
    BY <1>4, <2>3, <2>5, <2>7, <2>8 DEF CountDisabled
<1>5. QED
  BY <1>2, <1>3, <1>4

\* The objects besides t after t is unlinked.
LEMMA UnlinkedObjects ==
  ASSUME TypeOK, NEW t \in Timers
  PROVE  /\ Unlinked(t) \in [Timers -> Timer]
         /\ \A u \in Timers \ {t} :
              /\ Unlinked(t)[u].cb = timers[u].cb
              /\ Unlinked(t)[u].enabled = timers[u].enabled
              /\ Unlinked(t)[u].running = timers[u].running
              /\ Unlinked(t)[u].locked = timers[u].locked
<1>1. Free \in Timer
  BY DEF Free, Timer, NoCallback, Pointer
<1>2. timers \in [Timers -> Timer] /\ timers[t].next \in Pointer
  BY DEF TypeOK, Timer
<1>3. \A r \in Timer, q \in Pointer :
        LET n == [r EXCEPT !.next = q]
        IN  /\ n \in Timer /\ n.cb = r.cb /\ n.enabled = r.enabled
            /\ n.running = r.running /\ n.locked = r.locked
  BY DEF Timer
<1>4. \A u \in Timers :
        Unlinked(t)[u] = IF u = t THEN Free
                         ELSE IF u \in Previous(t)
                              THEN [timers[u] EXCEPT !.next = timers[t].next]
                              ELSE timers[u]
  BY DEF Unlinked
<1>5. \A u \in Timers : Unlinked(t)[u] \in Timer
  <2>1. SUFFICES ASSUME NEW u \in Timers PROVE Unlinked(t)[u] \in Timer
    OBVIOUS
  <2>2. timers[u] \in Timer
    BY <1>2
  <2>3. QED
    BY <1>1, <1>2, <1>3, <1>4, <2>2
<1>6. \A u \in Timers \ {t} :
        /\ Unlinked(t)[u].cb = timers[u].cb
        /\ Unlinked(t)[u].enabled = timers[u].enabled
        /\ Unlinked(t)[u].running = timers[u].running
        /\ Unlinked(t)[u].locked = timers[u].locked
  <2>1. SUFFICES ASSUME NEW u \in Timers \ {t}
                 PROVE  /\ Unlinked(t)[u].cb = timers[u].cb
                        /\ Unlinked(t)[u].enabled = timers[u].enabled
                        /\ Unlinked(t)[u].running = timers[u].running
                        /\ Unlinked(t)[u].locked = timers[u].locked
    OBVIOUS
  <2> DEFINE n == [timers[u] EXCEPT !.next = timers[t].next]
  <2>2. /\ n.cb = timers[u].cb /\ n.enabled = timers[u].enabled
        /\ n.running = timers[u].running /\ n.locked = timers[u].locked
    BY <1>2, <1>3
  <2>3. Unlinked(t)[u] = n \/ Unlinked(t)[u] = timers[u]
    BY <1>4, <2>1
  <2> HIDE DEF n
  <2>4. CASE Unlinked(t)[u] = n
    BY <2>2, <2>4
  <2>5. CASE Unlinked(t)[u] = timers[u]
    BY <2>5
  <2>6. QED
    BY <2>3, <2>4, <2>5
<1>7. Unlinked(t) \in [Timers -> Timer]
  <2>1. Unlinked(t) = [u \in Timers |-> Unlinked(t)[u]]
    BY DEF Unlinked
  <2>2. QED
    BY <1>5, <2>1
<1>8. QED
  BY <1>6, <1>7

\* A frame that does not look for a timer does not go on with one nobody holds.
LEMMA UnlinkSound ==
  ASSUME TypeOK, HeldExactly, FramesSound, NEW t \in alloc, ~Held(t),
         NEW i \in 1 .. Depth, frames[i].at \notin {"reap", "scan"},
         NEW f, f = frames[i], alloc' = alloc \ {t}
  PROVE  SoundFrame(f)'
<1>1. frames \in Seq(Frame) /\ f \in Frame /\ Depth = Len(frames)
  BY DEF TypeOK, Depth
<1>2. timers[t].running = 0 /\ timers[t].locked = 0
  <2>1. timers[t].running \in Nat /\ timers[t].locked \in Nat
    BY DEF TypeOK, Timer
  <2>2. QED
    BY <2>1 DEF Held
<1>3. Count(frames, RunsOf(t)) = 0 /\ Count(frames, LocksOf(t)) = 0
  BY <1>2 DEF HeldExactly
<1>4. f \notin RunsOf(t) /\ f \notin LocksOf(t)
  BY <1>1, <1>3, CountZero
<1>5. SoundFrame(f)
  BY DEF FramesSound
<1>6. (f.at = "run" => f.cur # t) /\ (f.at = "deleting" => f.nxt # t)
  BY <1>1, <1>4 DEF RunsOf, LocksOf
<1>7. QED
  BY <1>5, <1>6 DEF SoundFrame


----------------------------------------------------------------------------
(* The steps of the script *)

\* A step that leaves the stack alone and changes of the objects on the list only
\* what is not counted by frames keeps what is said of frames.
LEMMA FramesKept ==
  ASSUME Inv, UNCHANGED <<frames, g_nLayersNeedingTimer>>, NEW T \in SUBSET alloc,
         alloc' \cap alloc = T,
         \A t \in alloc' \ alloc : /\ t \in Timers
                                   /\ timers'[t].running = 0 /\ timers'[t].locked = 0,
         \A t \in T : /\ timers'[t].running = timers[t].running
                      /\ timers'[t].locked = timers[t].locked
  PROVE  HeldExactly' /\ LayersCounted' /\ Stacked'
<1>1. LayersCounted' /\ Stacked'
  BY DEF Inv, LayersCounted, Stacked, Depth
<1>2. \A A : Count(frames', A) = Count(frames, A)
  OBVIOUS
<1>3. ASSUME NEW t \in T
      PROVE  /\ timers'[t].running <= 1
             /\ timers'[t].running = Count(frames, RunsOf(t))
             /\ timers'[t].locked = Count(frames, LocksOf(t))
  BY <1>3 DEF Inv, HeldExactly
<1>4. ASSUME NEW t \in alloc' \ alloc
      PROVE  /\ timers'[t].running <= 1
             /\ timers'[t].running = Count(frames, RunsOf(t))
             /\ timers'[t].locked = Count(frames, LocksOf(t))
  <2>1. frames \in Seq(Frame) /\ Depth = Len(frames) /\ t # Null /\ t \notin alloc
    BY TimersAssumption DEF Inv, TypeOK, Depth
  <2>2. \A i \in 1 .. Len(frames) : frames[i] \notin RunsOf(t) /\ frames[i] \notin LocksOf(t)
    BY <2>1 DEF Inv, FramesSound, SoundFrame, RunsOf, LocksOf
  <2>3. Count(frames, RunsOf(t)) = 0 /\ Count(frames, LocksOf(t)) = 0
    BY <2>1, <2>2, NoneCounted
  <2>4. QED
    BY <2>3
<1>5. \A t \in alloc' : t \in T \/ t \in alloc' \ alloc
  OBVIOUS
<1>6. HeldExactly'
  BY <1>3, <1>4, <1>5 DEF HeldExactly
<1>7. QED
  BY <1>1, <1>6

LEMMA CreateKeeps ==
  ASSUME Inv, NEW cb \in Callbacks, NEW once \in BOOLEAN, CreateTimer(cb, once)
  PROVE  Inv'
<1> DEFINE new == [Free EXCEPT !.cb = cb, !.enabled = TRUE, !.once = once]
<1>1. PICK t \in Timers \ alloc :
        /\ alloc' = alloc \cup {t}
        /\ mLastTimer' = t
        /\ IF mFirstTimer = Null
           THEN /\ mFirstTimer' = t
                /\ timers' = [timers EXCEPT ![t] = new]
           ELSE /\ UNCHANGED mFirstTimer
                /\ timers' = [timers EXCEPT ![t] = new, ![mLastTimer].next = t]
  BY DEF CreateTimer
<1>2. /\ TypeOK /\ Listed /\ InScript /\ TimerOf(cb) = {}
      /\ mTimerCount' = mTimerCount + 1 /\ CountEnabled
      /\ UNCHANGED <<g_nLayersNeedingTimer, frames>>
      /\ timers \in [Timers -> Timer]
  BY DEF Inv, CreateTimer, TypeOK
<1>3. /\ new \in Timer /\ new.cb = cb /\ new.enabled /\ new.running = 0 /\ new.locked = 0
      /\ new.next = Null
  BY DEF Free, Timer, Pointer, NoCallback
<1>4. /\ mFirstTimer = Null => alloc = {}
      /\ mFirstTimer # Null => mLastTimer \in alloc /\ timers[mLastTimer].next = Null
  BY <1>2, ListEnds
<1>5. \A r \in Timer, q \in Pointer :
        LET n == [r EXCEPT !.next = q]
        IN  /\ n \in Timer /\ n.cb = r.cb /\ n.enabled = r.enabled
            /\ n.running = r.running /\ n.locked = r.locked /\ n.next = q
  BY DEF Timer
<1> HIDE DEF new
<1>6. timers'[t] = new /\ timers' \in [Timers -> Timer]
  <2>1. CASE mFirstTimer = Null
    BY <1>1, <1>2, <1>3, <2>1
  <2>2. CASE mFirstTimer # Null
    <3>1. mLastTimer \in Timers \ {t} /\ t \in Pointer
      BY <1>2, <1>4, <2>2 DEF TypeOK, Pointer
    <3> DEFINE l == [timers[mLastTimer] EXCEPT !.next = t]
    <3>2. l \in Timer
      BY <1>2, <1>5, <3>1
    <3>3. timers' = [[timers EXCEPT ![t] = new] EXCEPT ![mLastTimer] = l]
      BY <1>1, <1>2, <2>2, <3>1
    <3> HIDE DEF l
    <3>4. QED
      BY <1>2, <1>3, <3>1, <3>2, <3>3
  <2>3. QED
    BY <2>1, <2>2
<1>7. ASSUME NEW u \in alloc
      PROVE  /\ timers'[u].cb = timers[u].cb /\ timers'[u].enabled = timers[u].enabled
             /\ timers'[u].running = timers[u].running
             /\ timers'[u].locked = timers[u].locked
             /\ timers'[u].next = IF u = mLastTimer THEN t ELSE timers[u].next
  <2>1. u \in Timers \ {t} /\ timers[u] \in Timer /\ mFirstTimer # Null
        /\ mLastTimer \in Timers /\ t \in Pointer
    BY <1>2, <1>4 DEF TypeOK, Pointer
  <2>2. CASE u = mLastTimer
    <3> DEFINE l == [timers[u] EXCEPT !.next = t]
    <3>1. timers'[u] = l
      BY <1>1, <1>2, <2>1, <2>2
    <3>2. /\ l.cb = timers[u].cb /\ l.enabled = timers[u].enabled
          /\ l.running = timers[u].running /\ l.locked = timers[u].locked /\ l.next = t
      BY <1>5, <2>1
    <3> HIDE DEF l
    <3>3. QED
      BY <2>2, <3>1, <3>2
  <2>3. CASE u # mLastTimer
    <3>1. timers'[u] = timers[u]
      BY <1>1, <1>2, <2>1, <2>3
    <3>2. QED
      BY <2>3, <3>1
  <2>4. QED
    BY <2>2, <2>3
<1>8. Listed'
  <2>1. mFirstTimer' = IF mFirstTimer = Null THEN t ELSE mFirstTimer
    BY <1>1
  <2>2. timers'[t].next = Null
    BY <1>3, <1>6
  <2>3. QED
    BY <1>1, <1>2, <1>7, <2>1, <2>2, AppendListed
<1>9. OneTimerEach'
  <2>1. \A u \in alloc : timers[u].cb # cb
    <3>1. From(mFirstTimer) = alloc
      BY <1>2, ListRead DEF Listed
    <3>2. QED
      BY <1>2, <3>1 DEF TimerOf
  <2>2. timers'[t].cb = cb
    BY <1>3, <1>6
  <2>3. \A u, v \in alloc : timers'[u].cb = timers'[v].cb => u = v
    BY <1>7 DEF Inv, OneTimerEach
  <2>4. \A u \in alloc : timers'[u].cb # cb
    BY <1>7, <2>1
  <2>5. QED
    BY <1>1, <2>2, <2>3, <2>4 DEF OneTimerEach
<1>10. /\ EnabledCounted' /\ MainTimerWhenNeeded'
       /\ mTimerEnabledCount' \in Nat /\ g_MainTimerExists' \in BOOLEAN
  <2>1. t \notin Enabled /\ Enabled' = Enabled \cup {t}
    <3>1. timers'[t].enabled
      BY <1>3, <1>6
    <3>2. \A u \in alloc : timers'[u].enabled <=> timers[u].enabled
      BY <1>7
    <3>3. QED
      BY <1>1, <3>1, <3>2 DEF Enabled
  <2>2. UNCHANGED g_nLayersNeedingTimer
    BY <1>2
  <2>3. QED
    BY <1>2, <2>1, <2>2, EnabledStep DEF Inv
<1>11. HeldExactly' /\ LayersCounted' /\ Stacked'
  <2>1. alloc' \cap alloc = alloc /\ alloc \in SUBSET alloc /\ alloc' \ alloc = {t}
    BY <1>1
  <2>2. timers'[t].running = 0 /\ timers'[t].locked = 0
    BY <1>3, <1>6
  <2>3. QED
    BY <1>2, <1>7, <2>1, <2>2, FramesKept
<1>12. FramesSound'
  BY <1>1, <1>2 DEF Inv, FramesSound, SoundFrame, Depth
<1>13. NoneForgotten'
  <2>1. ~At({"reap"})
    BY <1>2 DEF InScript, At
  <2>2. timers'[t].enabled
    BY <1>3, <1>6
  <2>3. \A u \in alloc : timers'[u].enabled \/ timers'[u].running > 0 \/ timers'[u].locked > 0
    BY <1>7, <2>1 DEF Inv, NoneForgotten
  <2>4. QED
    BY <1>1, <2>2, <2>3 DEF NoneForgotten
<1>14. TypeOK'
  BY <1>2, <1>6, <1>8, <1>10, ListedTypes DEF TypeOK
<1>15. QED
  BY <1>8, <1>9, <1>10, <1>11, <1>12, <1>13, <1>14 DEF Inv


LEMMA UpdateKeeps ==
  ASSUME Inv, NEW cb \in Callbacks, NEW once \in BOOLEAN, UpdateTimer(cb, once)
  PROVE  Inv'
<1>1. /\ TypeOK /\ Listed /\ InScript
      /\ UNCHANGED <<list, g_nLayersNeedingTimer, frames>>
      /\ timers \in [Timers -> Timer]
  BY DEF Inv, UpdateTimer, TypeOK
<1>2. From(mFirstTimer) = alloc /\ alloc' = alloc /\ alloc \subseteq Timers
  <2>1. From(mFirstTimer) = alloc
    BY <1>1, ListRead DEF Listed
  <2>2. QED
    BY <1>1, <2>1 DEF list, TypeOK
<1>3. PICK t \in alloc :
        /\ timers' = [timers EXCEPT ![t].enabled = TRUE, ![t].once = once]
        /\ CountUpdated(t)
  BY <1>2 DEF UpdateTimer, TimerOf
<1> DEFINE r == [timers[t] EXCEPT !.enabled = TRUE, !.once = once]
<1>4. timers' = [timers EXCEPT ![t] = r]
  BY <1>1, <1>2, <1>3
<1>5. \A o \in Timer :
        LET n == [o EXCEPT !.enabled = TRUE, !.once = once]
        IN  /\ n \in Timer /\ n.cb = o.cb /\ n.enabled
            /\ n.running = o.running /\ n.locked = o.locked /\ n.next = o.next
  BY DEF Timer
<1>6. /\ r \in Timer /\ r.cb = timers[t].cb /\ r.enabled
      /\ r.running = timers[t].running /\ r.locked = timers[t].locked
      /\ r.next = timers[t].next
  BY <1>1, <1>2, <1>5
<1> HIDE DEF r
<1>7. /\ timers' \in [Timers -> Timer] /\ timers'[t] = r
      /\ \A u \in Timers : u # t => timers'[u] = timers[u]
  BY <1>1, <1>2, <1>4, <1>6
<1>8. \A u \in Timers : /\ timers'[u].cb = timers[u].cb
                        /\ timers'[u].running = timers[u].running
                        /\ timers'[u].locked = timers[u].locked
                        /\ timers'[u].next = timers[u].next
  BY <1>6, <1>7
<1>9. Listed'
  BY <1>1, <1>8, SameListed
<1>10. OneTimerEach'
  BY <1>2, <1>8 DEF Inv, OneTimerEach
<1>11. /\ EnabledCounted' /\ MainTimerWhenNeeded'
       /\ mTimerEnabledCount' \in Nat /\ g_MainTimerExists' \in BOOLEAN
  <2>1. timers'[t].enabled /\ \A u \in Timers : u # t => timers'[u] = timers[u]
    BY <1>6, <1>7
  <2>2. UNCHANGED g_nLayersNeedingTimer /\ TypeOK /\ EnabledCounted /\ MainTimerWhenNeeded
    BY <1>1 DEF Inv
  <2>3. CASE timers[t].enabled
    <3>1. Enabled' = Enabled
      BY <1>2, <2>1, <2>3 DEF Enabled
    <3>2. QED
      BY <1>3, <2>2, <2>3, <3>1, EnabledStep DEF CountUpdated
  <2>4. CASE ~timers[t].enabled
    <3>1. t \notin Enabled /\ Enabled' = Enabled \cup {t}
      BY <1>2, <2>1, <2>4 DEF Enabled
    <3>2. QED
      BY <1>3, <2>2, <2>4, <3>1, EnabledStep DEF CountUpdated
  <2>5. QED
    BY <2>3, <2>4
<1>12. HeldExactly' /\ LayersCounted' /\ Stacked'
  <2>1. alloc' \cap alloc = alloc /\ alloc \in SUBSET alloc /\ alloc' \ alloc = {}
    BY <1>2
  <2>2. QED
    BY <1>1, <1>2, <1>8, <2>1, FramesKept
<1>13. FramesSound'
  BY <1>1, <1>2 DEF Inv, FramesSound, SoundFrame, Depth
<1>14. NoneForgotten'
  <2>1. ~At({"reap"})
    BY <1>1 DEF InScript, At
  <2>2. timers'[t].enabled
    BY <1>6, <1>7
  <2>3. \A u \in alloc : u # t =>
          timers'[u].enabled \/ timers'[u].running > 0 \/ timers'[u].locked > 0
    BY <1>2, <1>7, <2>1 DEF Inv, NoneForgotten
  <2>4. QED
    BY <1>2, <2>2, <2>3 DEF NoneForgotten
<1>15. TypeOK'
  BY <1>1, <1>7, <1>9, <1>11, ListedTypes DEF TypeOK
<1>16. QED
  BY <1>9, <1>10, <1>11, <1>12, <1>13, <1>14, <1>15 DEF Inv

\* What becomes of the enabled timers when t is disabled or deleted.
LEMMA DisabledStep ==
  ASSUME Inv, UNCHANGED g_nLayersNeedingTimer, NEW t \in alloc, CountDeleted(t),
         Enabled' = Enabled \ {t}
  PROVE  /\ EnabledCounted' /\ MainTimerWhenNeeded'
         /\ mTimerEnabledCount' \in Nat /\ g_MainTimerExists' \in BOOLEAN
<1>1. TypeOK /\ EnabledCounted /\ MainTimerWhenNeeded
  BY DEF Inv
<1>2. CASE timers[t].enabled
  <2>1. t \in Enabled
    BY <1>2 DEF Enabled
  <2>2. CountDisabled
    BY <1>2 DEF CountDeleted
  <2>3. QED
    BY <1>1, <2>1, <2>2, EnabledStep
<1>3. CASE ~timers[t].enabled
  <2>1. Enabled' = Enabled
    BY <1>3 DEF Enabled
  <2>2. CountUnchanged
    BY <1>3 DEF CountDeleted
  <2>3. QED
    BY <1>1, <2>1, <2>2, EnabledStep
<1>4. QED
  BY <1>2, <1>3

LEMMA DeleteKeeps ==
  ASSUME Inv, NEW cb \in Callbacks, DeleteTimer(cb)
  PROVE  Inv'
<1>1. /\ TypeOK /\ Listed /\ InScript /\ HeldExactly /\ FramesSound
      /\ UNCHANGED <<g_nLayersNeedingTimer, frames>>
      /\ timers \in [Timers -> Timer]
      /\ frames \in Seq(Frame) /\ frames # <<>>
  BY DEF Inv, DeleteTimer, TypeOK
<1>2. From(mFirstTimer) = alloc /\ alloc \subseteq Timers
  <2>1. From(mFirstTimer) = alloc
    BY <1>1, ListRead DEF Listed
  <2>2. QED
    BY <1>1, <2>1 DEF list, TypeOK
<1>3. PICK t \in alloc :
        /\ CountDeleted(t)
        /\ IF Held(t)
           THEN /\ timers' = [timers EXCEPT ![t].enabled = FALSE]
                /\ UNCHANGED list
           ELSE /\ timers' = Unlinked(t)
                /\ Unlink(t)
  BY <1>2 DEF DeleteTimer, TimerOf
<1>4. CASE Held(t)
  <2>1. timers' = [timers EXCEPT ![t].enabled = FALSE] /\ UNCHANGED list /\ alloc' = alloc
    BY <1>3, <1>4 DEF list
  <2> DEFINE r == [timers[t] EXCEPT !.enabled = FALSE]
  <2>2. /\ r \in Timer /\ r.cb = timers[t].cb /\ r.enabled = FALSE
        /\ r.running = timers[t].running /\ r.locked = timers[t].locked
        /\ r.next = timers[t].next
    BY <1>1, <1>2 DEF Timer
  <2>3. timers' = [timers EXCEPT ![t] = r]
    BY <1>1, <1>2, <2>1
  <2> HIDE DEF r
  <2>4. /\ timers' \in [Timers -> Timer] /\ timers'[t] = r
        /\ \A u \in Timers : u # t => timers'[u] = timers[u]
    BY <1>1, <1>2, <2>2, <2>3
  <2>5. \A u \in Timers : /\ timers'[u].cb = timers[u].cb
                          /\ timers'[u].running = timers[u].running
                          /\ timers'[u].locked = timers[u].locked
                          /\ timers'[u].next = timers[u].next
    BY <2>2, <2>4
  <2>6. Listed'
    BY <1>1, <2>1, <2>5, SameListed
  <2>7. OneTimerEach'
    BY <1>2, <2>1, <2>5 DEF Inv, OneTimerEach
  <2>8. /\ EnabledCounted' /\ MainTimerWhenNeeded'
        /\ mTimerEnabledCount' \in Nat /\ g_MainTimerExists' \in BOOLEAN
    <3>1. ~timers'[t].enabled /\ \A u \in Timers : u # t => timers'[u] = timers[u]
      BY <2>2, <2>4
    <3>2. Enabled' = Enabled \ {t}
      BY <1>2, <2>1, <3>1 DEF Enabled
    <3>3. QED
      BY <1>1, <1>3, <3>2, DisabledStep
  <2>9. HeldExactly' /\ LayersCounted' /\ Stacked'
    <3>1. alloc' \cap alloc = alloc /\ alloc \in SUBSET alloc /\ alloc' \ alloc = {}
      BY <2>1
    <3>2. QED
      BY <1>1, <1>2, <2>5, <3>1, FramesKept
  <2>10. FramesSound'
    BY <1>1, <2>1 DEF FramesSound, SoundFrame, Depth
  <2>11. NoneForgotten'
    <3>1. ~At({"reap"})
      BY <1>1 DEF InScript, At
    <3>2. timers[t].running \in Nat /\ timers[t].locked \in Nat
      BY <1>1, <1>2 DEF Timer
    <3>3. timers'[t].running > 0 \/ timers'[t].locked > 0
      BY <1>2, <1>4, <2>5, <3>2 DEF Held
    <3>4. \A u \in alloc : u # t =>
            timers'[u].enabled \/ timers'[u].running > 0 \/ timers'[u].locked > 0
      BY <1>2, <2>4, <3>1 DEF Inv, NoneForgotten
    <3>5. QED
      BY <2>1, <3>3, <3>4 DEF NoneForgotten
  <2>12. TypeOK'
    BY <1>1, <2>4, <2>6, <2>8, ListedTypes DEF TypeOK
  <2>13. QED
    BY <2>6, <2>7, <2>8, <2>9, <2>10, <2>11, <2>12 DEF Inv
<1>5. CASE ~Held(t)
  <2>1. timers' = Unlinked(t) /\ Unlink(t) /\ alloc' = alloc \ {t}
    BY <1>3, <1>5 DEF Unlink
  <2>2. /\ timers' \in [Timers -> Timer]
        /\ \A u \in Timers \ {t} : /\ timers'[u].cb = timers[u].cb
                                   /\ timers'[u].enabled = timers[u].enabled
                                   /\ timers'[u].running = timers[u].running
                                   /\ timers'[u].locked = timers[u].locked
    BY <1>1, <1>2, <2>1, UnlinkedObjects
  <2>3. Listed'
    BY <1>1, <2>1, UnlinkListed
  <2>4. OneTimerEach'
    BY <1>2, <2>1, <2>2 DEF Inv, OneTimerEach
  <2>5. /\ EnabledCounted' /\ MainTimerWhenNeeded'
        /\ mTimerEnabledCount' \in Nat /\ g_MainTimerExists' \in BOOLEAN
    <3>1. Enabled' = Enabled \ {t}
      BY <1>2, <2>1, <2>2 DEF Enabled
    <3>2. QED
      BY <1>1, <1>3, <3>1, DisabledStep
  <2>6. HeldExactly' /\ LayersCounted' /\ Stacked'
    <3>1. alloc' \cap alloc = alloc \ {t} /\ alloc \ {t} \in SUBSET alloc
          /\ alloc' \ alloc = {}
      BY <2>1
    <3>2. QED
      BY <1>1, <1>2, <2>2, <3>1, FramesKept
  <2>7. ~At({"reap", "scan"})
    BY <1>1 DEF InScript, At
  <2>8. FramesSound'
    <3>1. SUFFICES ASSUME NEW i \in 1 .. Depth
                   PROVE  SoundFrame(frames[i])'
      BY <1>1 DEF FramesSound, Depth
    <3>2. frames[i].at \notin {"reap", "scan"}
      BY <2>7, <3>1 DEF Inv, Stacked, At, Top
    <3>3. PICK f : f = frames[i]
      OBVIOUS
    <3>4. SoundFrame(f)'
      BY <1>1, <1>5, <2>1, <3>2, <3>3, UnlinkSound
    <3>5. f = frames'[i]
      BY <1>1, <3>3
    <3>6. QED
      BY <3>4, <3>5 DEF SoundFrame
  <2>9. NoneForgotten'
    <3>1. \A u \in alloc : timers[u].enabled \/ timers[u].running > 0 \/ timers[u].locked > 0
      BY <2>7 DEF Inv, NoneForgotten, At
    <3>2. QED
      BY <1>2, <2>1, <2>2, <3>1 DEF NoneForgotten
  <2>10. TypeOK'
    BY <1>1, <2>2, <2>3, <2>5, ListedTypes DEF TypeOK
  <2>11. QED
    BY <2>3, <2>4, <2>5, <2>6, <2>8, <2>9, <2>10 DEF Inv
<1>6. QED
  BY <1>4, <1>5


----------------------------------------------------------------------------
(* Layers and passes *)

\* Frames under the top one stay sound while no object goes away.
LEMMA LaunchStep ==
  ASSUME Inv, NEW t \in alloc, timers[t].enabled, timers[t].running = 0, Launch(t),
         UNCHANGED <<list, g_nLayersNeedingTimer>>
  PROVE  /\ timers' \in [Timers -> Timer] /\ alloc' = alloc
         /\ timers'[t].running = 1 /\ timers'[t].locked = timers[t].locked
         /\ \A u \in Timers : u # t => timers'[u] = timers[u]
         /\ Listed' /\ OneTimerEach' /\ EnabledCounted' /\ MainTimerWhenNeeded'
         /\ mTimerEnabledCount' \in Nat /\ g_MainTimerExists' \in BOOLEAN
<1>1. TypeOK /\ Listed /\ timers \in [Timers -> Timer] /\ t \in Timers /\ alloc \subseteq Timers
  BY DEF Inv, TypeOK
<1> DEFINE r == [timers[t] EXCEPT !.running = @ + 1, !.enabled = ~timers[t].once]
<1>2. timers' = [timers EXCEPT ![t] = r]
  BY <1>1 DEF Launch
<1>3. \A o \in Timer, b \in BOOLEAN :
        LET n == [o EXCEPT !.running = @ + 1, !.enabled = b]
        IN  /\ n \in Timer /\ n.cb = o.cb /\ n.enabled = b
            /\ n.running = o.running + 1 /\ n.locked = o.locked /\ n.next = o.next
  <2>1. SUFFICES ASSUME NEW o \in Timer, NEW b \in BOOLEAN
                 PROVE  LET n == [o EXCEPT !.running = @ + 1, !.enabled = b]
                        IN  /\ n \in Timer /\ n.cb = o.cb /\ n.enabled = b
                            /\ n.running = o.running + 1 /\ n.locked = o.locked
                            /\ n.next = o.next
    OBVIOUS
  <2> DEFINE k == [o EXCEPT !.running = o.running + 1]
  <2>2. /\ k \in Timer /\ k.cb = o.cb /\ k.running = o.running + 1
        /\ k.locked = o.locked /\ k.next = o.next
    BY DEF Timer
  <2>3. [o EXCEPT !.running = @ + 1, !.enabled = b] = [k EXCEPT !.enabled = b]
    OBVIOUS
  <2> HIDE DEF k
  <2>4. LET n == [k EXCEPT !.enabled = b]
        IN  /\ n \in Timer /\ n.cb = k.cb /\ n.enabled = b
            /\ n.running = k.running /\ n.locked = k.locked /\ n.next = k.next
    BY <2>2 DEF Timer
  <2>5. QED
    BY <2>2, <2>3, <2>4
<1>4. timers[t].once \in BOOLEAN
  BY <1>1 DEF Timer
<1>5. /\ r \in Timer /\ r.cb = timers[t].cb /\ r.enabled = ~timers[t].once
      /\ r.running = timers[t].running + 1 /\ r.locked = timers[t].locked
      /\ r.next = timers[t].next
  <2>1. PICK b \in BOOLEAN : b = ~timers[t].once
    BY <1>4
  <2>2. timers[t] \in Timer /\ r = [timers[t] EXCEPT !.running = @ + 1, !.enabled = b]
    BY <1>1, <2>1
  <2> HIDE DEF r
  <2>3. /\ r \in Timer /\ r.cb = timers[t].cb /\ r.enabled = b
        /\ r.running = timers[t].running + 1 /\ r.locked = timers[t].locked
        /\ r.next = timers[t].next
    BY <1>3, <2>2
  <2>4. QED
    BY <2>1, <2>3
<1> HIDE DEF r
<1>6. /\ timers' \in [Timers -> Timer] /\ timers'[t] = r
      /\ \A u \in Timers : u # t => timers'[u] = timers[u]
  BY <1>1, <1>2, <1>5
<1>7. alloc' = alloc
  BY DEF list
<1>8. \A u \in Timers : timers'[u].cb = timers[u].cb /\ timers'[u].next = timers[u].next
  BY <1>5, <1>6
<1>9. Listed'
  BY <1>1, <1>8, SameListed
<1>10. OneTimerEach'
  BY <1>1, <1>7, <1>8 DEF Inv, OneTimerEach
<1>11. timers'[t].running = 1 /\ timers'[t].locked = timers[t].locked
  BY <1>5, <1>6
<1>12. /\ EnabledCounted' /\ MainTimerWhenNeeded'
       /\ mTimerEnabledCount' \in Nat /\ g_MainTimerExists' \in BOOLEAN
  <2>1. TypeOK /\ EnabledCounted /\ MainTimerWhenNeeded /\ UNCHANGED g_nLayersNeedingTimer
    BY DEF Inv
  <2>2. CASE timers[t].once
    <3>1. ~timers'[t].enabled
      BY <1>5, <1>6, <2>2
    <3>2. t \in Enabled /\ Enabled' = Enabled \ {t}
      BY <1>1, <1>6, <1>7, <3>1 DEF Enabled
    <3>3. CountDisabled
      BY <2>2 DEF Launch
    <3>4. QED
      BY <2>1, <3>2, <3>3, EnabledStep
  <2>3. CASE ~timers[t].once
    <3>1. timers'[t].enabled
      BY <1>5, <1>6, <2>3
    <3>2. Enabled' = Enabled
      BY <1>1, <1>6, <1>7, <3>1 DEF Enabled
    <3>3. CountUnchanged
      BY <2>3 DEF Launch
    <3>4. QED
      BY <2>1, <3>2, <3>3, EnabledStep
  <2>4. QED
    BY <2>2, <2>3
<1>13. QED
  BY <1>6, <1>7, <1>9, <1>10, <1>11, <1>12

LEMMA StartKeeps ==
  ASSUME Inv, NEW t \in Timers, StartPass(t)
  PROVE  Inv'
<1> DEFINE f == [NewFrame("run") EXCEPT !.cur = t]
<1>1. /\ TypeOK /\ Listed /\ HeldExactly /\ LayersCounted /\ FramesSound /\ Stacked
      /\ UNCHANGED <<list, g_nLayersNeedingTimer>> /\ Launch(t)
      /\ timers \in [Timers -> Timer] /\ alloc \subseteq Timers
      /\ frames \in Seq(Frame) /\ frames' = Append(frames, f)
      /\ ~At({"reap", "scan"})
  BY DEF Inv, StartPass, TypeOK, At
<1>2. t \in alloc /\ timers[t].enabled /\ timers[t].running = 0
  <2>1. From(mFirstTimer) = alloc
    BY <1>1, ListRead DEF Listed
  <2>2. QED
    BY <2>1 DEF StartPass, Runnable
<1>3. f \in Frame /\ f.at = "run" /\ f.cur = t
  BY FrameKinds
<1> HIDE DEF f
<1>4. /\ timers' \in [Timers -> Timer] /\ alloc' = alloc
      /\ timers'[t].running = 1 /\ timers'[t].locked = timers[t].locked
      /\ \A u \in Timers : u # t => timers'[u] = timers[u]
      /\ Listed' /\ OneTimerEach' /\ EnabledCounted' /\ MainTimerWhenNeeded'
      /\ mTimerEnabledCount' \in Nat /\ g_MainTimerExists' \in BOOLEAN
  BY <1>1, <1>2, LaunchStep
<1>5. /\ frames' \in Seq(Frame) /\ frames' # <<>> /\ Stacked'
      /\ Depth' = Depth + 1 /\ frames'[Depth + 1] = f
      /\ \A i \in 1 .. Depth : frames'[i] = frames[i]
      /\ \A A : Count(frames', A) = Count(frames, A) + One(f, A)
  BY <1>1, <1>3, Pushed
<1>6. /\ One(f, Sleeps) = 0 /\ One(f, RunsOf(t)) = 1
      /\ \A u : u # t => One(f, RunsOf(u)) = 0
      /\ \A u : One(f, LocksOf(u)) = 0
  BY <1>3, Counted
<1>7. HeldExactly'
  <2>1. Count(frames, RunsOf(t)) = 0
    BY <1>1, <1>2 DEF HeldExactly
  <2>2. \A A : Count(frames, A) \in Nat
    BY <1>1, CountType
  <2>3. \A u : /\ Count(frames', LocksOf(u)) = Count(frames, LocksOf(u))
               /\ u # t => Count(frames', RunsOf(u)) = Count(frames, RunsOf(u))
    BY <1>5, <1>6, <2>2
  <2>4. Count(frames', RunsOf(t)) = 1
    BY <1>5, <1>6, <2>1
  <2>5. QED
    BY <1>1, <1>2, <1>4, <2>3, <2>4 DEF HeldExactly
<1>8. LayersCounted'
  <2>1. Count(frames, Sleeps) \in Nat
    BY <1>1, CountType
  <2>2. QED
    BY <1>1, <1>5, <1>6, <2>1 DEF LayersCounted
<1>9. FramesSound'
  <2>1. \A i \in 1 .. Depth : SoundFrame(frames[i])'
    BY <1>1, <1>4, <1>5 DEF FramesSound, SoundFrame
  <2>2. \A i \in {Depth + 1} : SoundFrame(frames[i])'
    <3>1. SUFFICES ASSUME NEW i \in {Depth + 1} PROVE SoundFrame(frames[i])'
      OBVIOUS
    <3>2. frames'[i] = f
      BY <1>5
    <3>3. QED
      BY <1>2, <1>3, <1>4, <3>2 DEF SoundFrame
  <2>3. \A i \in 1 .. Depth' : i \in 1 .. Depth \/ i \in {Depth + 1}
    BY <1>1, <1>5 DEF Depth
  <2>4. QED
    BY <2>1, <2>2, <2>3 DEF FramesSound
<1>10. NoneForgotten'
  <2>1. \A u \in alloc : timers[u].enabled \/ timers[u].running > 0 \/ timers[u].locked > 0
    BY <1>1 DEF Inv, NoneForgotten, At
  <2>2. timers'[t].running > 0
    BY <1>4
  <2>3. QED
    BY <1>1, <1>4, <2>1, <2>2 DEF NoneForgotten
<1>11. TypeOK'
  BY <1>1, <1>4, <1>5, ListedTypes DEF TypeOK
<1>12. QED
  BY <1>4, <1>5, <1>7, <1>8, <1>9, <1>10, <1>11 DEF Inv


\* The frames under the top one stay sound as long as no object goes away.
LEMMA ReplacedSound ==
  ASSUME TypeOK, Stacked, FramesSound, UNCHANGED alloc, ~At({"script"}),
         NEW f \in Frame, Replace(f), SoundFrame(f)
  PROVE  FramesSound'
<1>1. /\ Depth \in Nat /\ Depth' = Depth /\ frames'[Depth] = f
      /\ \A i \in 1 .. Depth - 1 : frames'[i] = frames[i]
  BY Replaced, NotAlone
<1>2. \A i \in 1 .. Depth - 1 : i \in 1 .. Depth
  BY <1>1
<1>3. \A i \in 1 .. Depth - 1 : SoundFrame(frames[i])'
  BY <1>1, <1>2 DEF FramesSound, SoundFrame
<1>4. \A i \in {Depth} : SoundFrame(frames[i])'
  <2>1. SUFFICES ASSUME NEW i \in {Depth} PROVE SoundFrame(frames[i])'
    OBVIOUS
  <2>2. frames'[i] = f
    BY <1>1
  <2>3. QED
    BY <2>2 DEF SoundFrame
<1>5. \A i \in 1 .. Depth' : i \in 1 .. Depth - 1 \/ i \in {Depth}
  BY <1>1
<1>6. QED
  BY <1>3, <1>4, <1>5 DEF FramesSound

LEMMA PoppedSound ==
  ASSUME TypeOK, Stacked, FramesSound, UNCHANGED alloc, ~At({"script"}), Pop
  PROVE  FramesSound'
<1>1. /\ Depth \in Nat /\ Depth' = Depth - 1
      /\ \A i \in 1 .. Depth - 1 : frames'[i] = frames[i]
  BY Popped, NotAlone
<1>2. \A i \in 1 .. Depth - 1 : i \in 1 .. Depth
  BY <1>1
<1>3. \A i \in 1 .. Depth - 1 : SoundFrame(frames[i])'
  BY <1>1, <1>2 DEF FramesSound, SoundFrame
<1>4. \A i \in 1 .. Depth' : i \in 1 .. Depth - 1
  BY <1>1
<1>5. QED
  BY <1>3, <1>4 DEF FramesSound

LEMMA TopSound ==
  ASSUME TypeOK, FramesSound
  PROVE  SoundFrame(Top) /\ Top \in Frame
<1>1. Depth \in 1 .. Depth /\ frames[Depth] \in Frame
  BY DEF TypeOK, Depth
<1>2. QED
  BY <1>1 DEF FramesSound, Top

\* A timer of the list points at another one, or at nothing.
LEMMA NextListed ==
  ASSUME Listed, NEW t \in alloc
  PROVE  timers[t].next \in (alloc \ {t}) \cup {Null}
<1>1. PICK n \in Nat : \E s \in [1 .. n -> Timers] : IsList(s, n)
  BY DEF Listed
<1>2. PICK s \in [1 .. n -> Timers] : IsList(s, n)
  BY <1>1
<1>3. PICK i \in 1 .. n : t = s[i]
  BY <1>2 DEF IsList
<1>4. i # n => i + 1 \in 1 .. n /\ i + 1 # i
  OBVIOUS
<1>5. QED
  BY <1>2, <1>3, <1>4 DEF IsList

LEMMA NextKeeps ==
  ASSUME Inv, NEW t \in Timers, LaunchNext(t)
  PROVE  Inv'
<1> DEFINE f == [NewFrame("run") EXCEPT !.cur = t]
<1>1. /\ TypeOK /\ Listed /\ HeldExactly /\ LayersCounted /\ FramesSound /\ Stacked
      /\ UNCHANGED <<list, g_nLayersNeedingTimer>> /\ Launch(t)
      /\ timers \in [Timers -> Timer] /\ alloc \subseteq Timers
      /\ frames \in Seq(Frame) /\ Replace(f) /\ Top.at = "scan"
  BY DEF Inv, LaunchNext, TypeOK, At
<1>2. t \in alloc /\ timers[t].enabled /\ timers[t].running = 0
  <2>1. Top.this \in alloc \cup {Null}
    BY <1>1, TopSound DEF SoundFrame
  <2>2. From(Top.this) \subseteq alloc
    BY <1>1, <2>1, ListRead, WalkNull DEF Listed
  <2>3. QED
    BY <2>2 DEF LaunchNext, Runnable
<1>3. f \in Frame /\ f.at = "run" /\ f.cur = t /\ ~At({"script"}) /\ Top \in Frame
  BY <1>1, FrameKinds, TopSound DEF At
<1> HIDE DEF f
<1>4. /\ timers' \in [Timers -> Timer] /\ alloc' = alloc
      /\ timers'[t].running = 1 /\ timers'[t].locked = timers[t].locked
      /\ \A u \in Timers : u # t => timers'[u] = timers[u]
      /\ Listed' /\ OneTimerEach' /\ EnabledCounted' /\ MainTimerWhenNeeded'
      /\ mTimerEnabledCount' \in Nat /\ g_MainTimerExists' \in BOOLEAN
  BY <1>1, <1>2, LaunchStep
<1>5. /\ frames' \in Seq(Frame) /\ frames' # <<>> /\ Stacked'
      /\ \A A : Count(frames', A) = Count(frames, A) - One(Top, A) + One(f, A)
      /\ \A A : Count(frames, A) \in Nat
  BY <1>1, <1>3, Replaced
<1>6. /\ One(f, Sleeps) = 0 /\ One(f, RunsOf(t)) = 1
      /\ \A u : u # t => One(f, RunsOf(u)) = 0
      /\ \A u : One(f, LocksOf(u)) = 0
  BY <1>3, Counted
<1>7. /\ One(Top, Sleeps) = 0
      /\ \A u : One(Top, RunsOf(u)) = 0 /\ One(Top, LocksOf(u)) = 0
  BY <1>1, <1>3, Counted
<1>8. HeldExactly'
  <2>1. Count(frames, RunsOf(t)) = 0
    BY <1>1, <1>2 DEF HeldExactly
  <2>2. \A u : /\ Count(frames', LocksOf(u)) = Count(frames, LocksOf(u))
               /\ u # t => Count(frames', RunsOf(u)) = Count(frames, RunsOf(u))
    BY <1>5, <1>6, <1>7
  <2>3. Count(frames', RunsOf(t)) = 1
    BY <1>5, <1>6, <1>7, <2>1
  <2>4. QED
    BY <1>1, <1>2, <1>4, <2>2, <2>3 DEF HeldExactly
<1>9. LayersCounted'
  BY <1>1, <1>5, <1>6, <1>7 DEF LayersCounted
<1>10. FramesSound'
  <2>1. SoundFrame(f)
    BY <1>2, <1>3 DEF SoundFrame
  <2>2. QED
    BY <1>1, <1>3, <1>4, <2>1, ReplacedSound
<1>11. NoneForgotten'
  <2>1. \A u \in alloc : timers[u].enabled \/ timers[u].running > 0 \/ timers[u].locked > 0
    BY <1>1 DEF Inv, NoneForgotten, At
  <2>2. timers'[t].running > 0
    BY <1>4
  <2>3. QED
    BY <1>1, <1>4, <2>1, <2>2 DEF NoneForgotten
<1>12. TypeOK'
  BY <1>1, <1>4, <1>5, ListedTypes DEF TypeOK
<1>13. QED
  BY <1>4, <1>5, <1>8, <1>9, <1>10, <1>11, <1>12 DEF Inv

\* The list and its counts do not change.
LEMMA ListAlone ==
  ASSUME Inv, UNCHANGED <<timers, list>>
  PROVE  /\ Listed' /\ OneTimerEach' /\ alloc' = alloc /\ timers' \in [Timers -> Timer]
         /\ Enabled' = Enabled
<1>1. TypeOK /\ Listed /\ timers' = timers /\ alloc' = alloc /\ timers \in [Timers -> Timer]
  BY DEF Inv, list, TypeOK
<1>2. Listed'
  BY <1>1, SameListed
<1>3. QED
  BY <1>1, <1>2 DEF Inv, OneTimerEach, Enabled

LEMMA SleepKeeps ==
  ASSUME Inv, Sleep
  PROVE  Inv'
<1> DEFINE f == NewFrame("sleep")
<1>1. /\ TypeOK /\ HeldExactly /\ LayersCounted /\ FramesSound /\ Stacked /\ EnabledCounted
      /\ UNCHANGED <<timers, list, mTimerEnabledCount>>
      /\ g_nLayersNeedingTimer' = g_nLayersNeedingTimer + 1 /\ g_MainTimerExists' = TRUE
      /\ g_nLayersNeedingTimer \in Nat /\ mTimerEnabledCount \in Nat
      /\ frames \in Seq(Frame) /\ frames' = Append(frames, f)
      /\ ~At({"reap", "scan"})
  BY DEF Inv, Sleep, TypeOK, At, InScript
<1>2. /\ Listed' /\ OneTimerEach' /\ alloc' = alloc /\ timers' \in [Timers -> Timer]
      /\ Enabled' = Enabled
  BY <1>1, ListAlone
<1>3. f \in Frame /\ f.at = "sleep"
  BY DEF NewFrame, Frame, Pointer
<1> HIDE DEF f
<1>4. /\ frames' \in Seq(Frame) /\ frames' # <<>> /\ Stacked'
      /\ Depth' = Depth + 1 /\ frames'[Depth + 1] = f
      /\ \A i \in 1 .. Depth : frames'[i] = frames[i]
      /\ \A A : Count(frames', A) = Count(frames, A) + One(f, A)
  BY <1>1, <1>3, Pushed
<1>5. One(f, Sleeps) = 1 /\ \A u : One(f, RunsOf(u)) = 0 /\ One(f, LocksOf(u)) = 0
  BY <1>3, Counted
<1>6. \A A : Count(frames, A) \in Nat
  BY <1>1, CountType
<1>7. HeldExactly'
  <2>1. \A u : /\ Count(frames', LocksOf(u)) = Count(frames, LocksOf(u))
               /\ Count(frames', RunsOf(u)) = Count(frames, RunsOf(u))
    BY <1>4, <1>5, <1>6
  <2>2. QED
    BY <1>1, <1>2, <2>1 DEF HeldExactly
<1>8. LayersCounted'
  BY <1>1, <1>4, <1>5, <1>6 DEF LayersCounted
<1>9. FramesSound'
  <2>1. \A i \in 1 .. Depth : SoundFrame(frames[i])'
    BY <1>1, <1>2, <1>4 DEF FramesSound, SoundFrame
  <2>2. \A i \in {Depth + 1} : SoundFrame(frames[i])'
    <3>1. SUFFICES ASSUME NEW i \in {Depth + 1} PROVE SoundFrame(frames[i])'
      OBVIOUS
    <3>2. frames'[i] = f
      BY <1>4
    <3>3. QED
      BY <1>3, <3>2 DEF SoundFrame
  <2>3. \A i \in 1 .. Depth' : i \in 1 .. Depth \/ i \in {Depth + 1}
    BY <1>1, <1>4 DEF Depth
  <2>4. QED
    BY <2>1, <2>2, <2>3 DEF FramesSound
<1>10. NoneForgotten'
  <2>1. \A u \in alloc : timers[u].enabled \/ timers[u].running > 0 \/ timers[u].locked > 0
    BY <1>1 DEF Inv, NoneForgotten, At
  <2>2. QED
    BY <1>1, <1>2, <2>1 DEF NoneForgotten
<1>11. EnabledCounted' /\ MainTimerWhenNeeded' /\ TypeOK'
  BY <1>1, <1>2, <1>4, ListedTypes DEF EnabledCounted, MainTimerWhenNeeded, TypeOK
<1>12. QED
  BY <1>2, <1>4, <1>7, <1>8, <1>9, <1>10, <1>11 DEF Inv


LEMMA WakeKeeps ==
  ASSUME Inv, SleepReturns
  PROVE  Inv'
<1>1. /\ TypeOK /\ HeldExactly /\ LayersCounted /\ FramesSound /\ Stacked /\ EnabledCounted
      /\ MainTimerWhenNeeded
      /\ UNCHANGED <<timers, list, mTimerEnabledCount>>
      /\ g_nLayersNeedingTimer' = g_nLayersNeedingTimer - 1
      /\ g_MainTimerExists' =
           MainTimerAfter(mTimerEnabledCount, g_nLayersNeedingTimer - 1)
      /\ g_nLayersNeedingTimer \in Nat /\ mTimerEnabledCount \in Nat
      /\ g_MainTimerExists \in BOOLEAN
      /\ Pop /\ Top.at = "sleep"
  BY DEF Inv, SleepReturns, TypeOK, At
<1>2. /\ Listed' /\ OneTimerEach' /\ alloc' = alloc /\ timers' \in [Timers -> Timer]
      /\ Enabled' = Enabled
  BY <1>1, ListAlone
<1>3. ~At({"script"}) /\ Top \in Frame
  BY <1>1, TopSound DEF At
<1>4. /\ frames' \in Seq(Frame) /\ frames' # <<>> /\ Stacked'
      /\ \A A : Count(frames, A) \in Nat /\ Count(frames, A) >= One(Top, A)
      /\ \A A : Count(frames', A) = Count(frames, A) - One(Top, A)
  BY <1>1, <1>3, Popped
<1>5. One(Top, Sleeps) = 1 /\ \A u : One(Top, RunsOf(u)) = 0 /\ One(Top, LocksOf(u)) = 0
  BY <1>1, <1>3, Counted
<1>6. HeldExactly'
  <2>1. \A u : /\ Count(frames', LocksOf(u)) = Count(frames, LocksOf(u))
               /\ Count(frames', RunsOf(u)) = Count(frames, RunsOf(u))
    BY <1>4, <1>5
  <2>2. QED
    BY <1>1, <1>2, <2>1 DEF HeldExactly
<1>7. LayersCounted' /\ g_nLayersNeedingTimer > 0 /\ g_nLayersNeedingTimer' \in Nat
  <2>1. Count(frames, Sleeps) \in Nat /\ Count(frames, Sleeps) >= 1
    BY <1>4, <1>5
  <2>2. Count(frames', Sleeps) = Count(frames, Sleeps) - 1
    BY <1>4, <1>5
  <2>3. QED
    BY <1>1, <2>1, <2>2 DEF LayersCounted
<1>8. FramesSound'
  BY <1>1, <1>2, <1>3, PoppedSound
<1>9. NoneForgotten'
  <2>1. \A u \in alloc : timers[u].enabled \/ timers[u].running > 0 \/ timers[u].locked > 0
    BY <1>1 DEF Inv, NoneForgotten, At
  <2>2. QED
    BY <1>1, <1>2, <2>1 DEF NoneForgotten
<1>10. g_MainTimerExists
  BY <1>1, <1>7 DEF MainTimerWhenNeeded
<1>11. MainTimerWhenNeeded' /\ g_MainTimerExists' \in BOOLEAN
  BY <1>1, <1>7, <1>10 DEF MainTimerWhenNeeded, MainTimerAfter
<1>12. EnabledCounted' /\ TypeOK'
  BY <1>1, <1>2, <1>4, <1>7, <1>11, ListedTypes DEF EnabledCounted, TypeOK
<1>13. QED
  BY <1>2, <1>4, <1>6, <1>7, <1>8, <1>9, <1>11, <1>12 DEF Inv

LEMMA EndKeeps ==
  ASSUME Inv, EndPass
  PROVE  Inv'
<1>1. /\ TypeOK /\ HeldExactly /\ LayersCounted /\ FramesSound /\ Stacked /\ EnabledCounted
      /\ MainTimerWhenNeeded
      /\ UNCHANGED <<timers, list, mTimerEnabledCount, g_MainTimerExists,
                     g_nLayersNeedingTimer>>
      /\ Pop
      /\ Top.at = "scan" \/ (Top.at = "reap" /\ Top.this = Null)
  BY DEF Inv, EndPass, TypeOK, At, CountUnchanged
<1>2. /\ Listed' /\ OneTimerEach' /\ alloc' = alloc /\ timers' \in [Timers -> Timer]
      /\ Enabled' = Enabled
  BY <1>1, ListAlone
<1>3. ~At({"script"}) /\ Top \in Frame
  BY <1>1, TopSound DEF At
<1>4. /\ frames' \in Seq(Frame) /\ frames' # <<>> /\ Stacked'
      /\ \A A : Count(frames, A) \in Nat /\ Count(frames, A) >= One(Top, A)
      /\ \A A : Count(frames', A) = Count(frames, A) - One(Top, A)
  BY <1>1, <1>3, Popped
<1>5. One(Top, Sleeps) = 0 /\ \A u : One(Top, RunsOf(u)) = 0 /\ One(Top, LocksOf(u)) = 0
  BY <1>1, <1>3, Counted
<1>6. HeldExactly'
  <2>1. \A u : /\ Count(frames', LocksOf(u)) = Count(frames, LocksOf(u))
               /\ Count(frames', RunsOf(u)) = Count(frames, RunsOf(u))
    BY <1>4, <1>5
  <2>2. QED
    BY <1>1, <1>2, <2>1 DEF HeldExactly
<1>7. LayersCounted'
  BY <1>1, <1>4, <1>5 DEF LayersCounted
<1>8. FramesSound'
  BY <1>1, <1>2, <1>3, PoppedSound
<1>9. NoneForgotten'
  <2>1. \A u \in alloc : timers[u].enabled \/ timers[u].running > 0 \/ timers[u].locked > 0
    <3>1. \A u \in alloc : u # Null
      BY <1>1, TimersAssumption DEF TypeOK
    <3>2. QED
      BY <1>1, <3>1 DEF Inv, NoneForgotten, At
  <2>2. QED
    BY <1>1, <1>2, <2>1 DEF NoneForgotten
<1>10. EnabledCounted' /\ MainTimerWhenNeeded' /\ TypeOK'
  BY <1>1, <1>2, <1>4, ListedTypes DEF EnabledCounted, MainTimerWhenNeeded, TypeOK
<1>11. QED
  BY <1>2, <1>4, <1>6, <1>7, <1>8, <1>9, <1>10 DEF Inv

\* Objects whose marks of passes alone change.
LEMMA MarksStep ==
  ASSUME Inv, NEW t \in Timers, NEW r \in Timer, UNCHANGED list,
         timers' = [timers EXCEPT ![t] = r],
         r.cb = timers[t].cb, r.next = timers[t].next, r.enabled = timers[t].enabled
  PROVE  /\ Listed' /\ OneTimerEach' /\ alloc' = alloc /\ timers' \in [Timers -> Timer]
         /\ Enabled' = Enabled /\ timers'[t] = r
         /\ \A u \in Timers : u # t => timers'[u] = timers[u]
<1>1. TypeOK /\ Listed /\ timers \in [Timers -> Timer] /\ alloc' = alloc
      /\ alloc \subseteq Timers
  BY DEF Inv, TypeOK, list
<1>2. /\ timers' \in [Timers -> Timer] /\ timers'[t] = r
      /\ \A u \in Timers : u # t => timers'[u] = timers[u]
  BY <1>1
<1>3. \A u \in Timers : timers'[u].cb = timers[u].cb /\ timers'[u].next = timers[u].next
                        /\ timers'[u].enabled = timers[u].enabled
  BY <1>2
<1>4. Listed'
  BY <1>1, <1>3, SameListed
<1>5. OneTimerEach'
  BY <1>1, <1>3 DEF Inv, OneTimerEach
<1>6. Enabled' = Enabled
  BY <1>1, <1>3 DEF Enabled
<1>7. QED
  BY <1>1, <1>2, <1>4, <1>5, <1>6

LEMMA ReturnKeeps ==
  ASSUME Inv, CallbackReturns
  PROVE  Inv'
<1> DEFINE c == Top.cur
<1> DEFINE f == [Top EXCEPT !.at = "reap", !.this = Top.cur]
<1>1. /\ TypeOK /\ HeldExactly /\ LayersCounted /\ FramesSound /\ Stacked /\ EnabledCounted
      /\ MainTimerWhenNeeded
      /\ UNCHANGED <<list, mTimerEnabledCount, g_MainTimerExists, g_nLayersNeedingTimer>>
      /\ Replace(f) /\ Top.at = "run" /\ timers \in [Timers -> Timer] /\ alloc \subseteq Timers
      /\ timers' = [timers EXCEPT ![c].running = timers[c].running - 1]
  BY DEF Inv, CallbackReturns, TypeOK, At, CountUnchanged
<1>2. ~At({"script"}) /\ Top \in Frame /\ c \in alloc /\ c \in Timers /\ c \in Pointer
  BY <1>1, TopSound DEF At, SoundFrame, Pointer
<1>3. f \in Frame /\ f.at = "reap" /\ f.this = c
  <2>1. PICK r \in Frame : r = Top
    BY <1>2
  <2>2. PICK q \in Pointer : q = c
    BY <1>2
  <2>3. f = [r EXCEPT !.at = "reap", !.this = q]
    BY <2>1, <2>2
  <2> HIDE DEF f, c
  <2>4. f \in Frame /\ f.at = "reap" /\ f.this = q
    BY <2>3 DEF Frame
  <2>5. QED
    BY <2>2, <2>4
<1>4. /\ One(Top, Sleeps) = 0 /\ One(Top, RunsOf(c)) = 1
      /\ \A u : u # c => One(Top, RunsOf(u)) = 0
      /\ \A u : One(Top, LocksOf(u)) = 0
  BY <1>1, <1>2, Counted
<1>5. One(f, Sleeps) = 0 /\ \A u : One(f, RunsOf(u)) = 0 /\ One(f, LocksOf(u)) = 0
  BY <1>3, Counted
<1> HIDE DEF f, c
<1>6. /\ frames' \in Seq(Frame) /\ frames' # <<>> /\ Stacked' /\ Depth' = Depth
      /\ frames'[Depth] = f
      /\ \A A : Count(frames, A) \in Nat /\ Count(frames, A) >= One(Top, A)
      /\ \A A : Count(frames', A) = Count(frames, A) - One(Top, A) + One(f, A)
  BY <1>1, <1>2, <1>3, Replaced
<1>7. Top' = f
  BY <1>6 DEF Top
<1>8. timers[c].running \in Nat /\ timers[c].running >= 1 /\ timers[c].running - 1 \in Nat
  <2>1. timers[c].running = Count(frames, RunsOf(c))
    BY <1>1, <1>2 DEF HeldExactly
  <2>2. Count(frames, RunsOf(c)) \in Nat /\ Count(frames, RunsOf(c)) >= 1
    BY <1>4, <1>6
  <2>3. QED
    BY <2>1, <2>2
<1> DEFINE r == [timers[c] EXCEPT !.running = timers[c].running - 1]
<1>9. /\ r \in Timer /\ r.cb = timers[c].cb /\ r.enabled = timers[c].enabled
      /\ r.running = timers[c].running - 1 /\ r.locked = timers[c].locked
      /\ r.next = timers[c].next
  <2>1. timers[c] \in Timer
    BY <1>1, <1>2
  <2>2. QED
    BY <1>8, <2>1 DEF Timer
<1>10. timers' = [timers EXCEPT ![c] = r]
  BY <1>1, <1>2
<1> HIDE DEF r
<1>11. /\ Listed' /\ OneTimerEach' /\ alloc' = alloc /\ timers' \in [Timers -> Timer]
       /\ Enabled' = Enabled /\ timers'[c] = r
       /\ \A u \in Timers : u # c => timers'[u] = timers[u]
  BY <1>1, <1>2, <1>9, <1>10, MarksStep
<1>12. HeldExactly'
  <2>1. \A u : /\ Count(frames', LocksOf(u)) = Count(frames, LocksOf(u))
               /\ u # c => Count(frames', RunsOf(u)) = Count(frames, RunsOf(u))
    BY <1>4, <1>5, <1>6
  <2>2. Count(frames', RunsOf(c)) = Count(frames, RunsOf(c)) - 1
    BY <1>4, <1>5, <1>6
  <2>3. /\ timers'[c].running = timers[c].running - 1
        /\ timers'[c].locked = timers[c].locked
    BY <1>9, <1>11
  <2>4. /\ timers[c].running <= 1 /\ timers[c].running = Count(frames, RunsOf(c))
        /\ timers[c].locked = Count(frames, LocksOf(c))
    BY <1>1, <1>2 DEF HeldExactly
  <2>5. /\ timers'[c].running <= 1 /\ timers'[c].running = Count(frames', RunsOf(c))
        /\ timers'[c].locked = Count(frames', LocksOf(c))
    BY <1>8, <2>1, <2>2, <2>3, <2>4
  <2>6. QED
    BY <1>1, <1>11, <2>1, <2>5 DEF HeldExactly
<1>13. LayersCounted'
  BY <1>1, <1>4, <1>5, <1>6 DEF LayersCounted
<1>14. FramesSound'
  <2>1. SoundFrame(f)
    BY <1>2, <1>3 DEF SoundFrame, c
  <2>2. QED
    BY <1>1, <1>2, <1>3, <1>11, <2>1, ReplacedSound
<1>15. NoneForgotten'
  <2>1. \A u \in alloc : timers[u].enabled \/ timers[u].running > 0 \/ timers[u].locked > 0
    BY <1>1 DEF Inv, NoneForgotten, At
  <2>2. Top'.at = "reap" /\ Top'.this = c
    BY <1>3, <1>7
  <2>3. QED
    BY <1>1, <1>11, <2>1, <2>2 DEF NoneForgotten, At
<1>16. EnabledCounted' /\ MainTimerWhenNeeded' /\ TypeOK'
  BY <1>1, <1>6, <1>11, ListedTypes DEF EnabledCounted, MainTimerWhenNeeded, TypeOK
<1>17. QED
  BY <1>6, <1>11, <1>12, <1>13, <1>14, <1>15, <1>16 DEF Inv

LEMMA KeepKeeps ==
  ASSUME Inv, Keep
  PROVE  Inv'
<1> DEFINE p == IF Top.this = Top.cur THEN timers[Top.this].next ELSE Top.this
<1> DEFINE f == [Top EXCEPT !.at = "scan", !.this = p]
<1>1. /\ TypeOK /\ Listed /\ HeldExactly /\ LayersCounted /\ FramesSound /\ Stacked
      /\ EnabledCounted /\ MainTimerWhenNeeded
      /\ UNCHANGED <<timers, list, mTimerEnabledCount, g_MainTimerExists,
                     g_nLayersNeedingTimer>>
      /\ Replace(f) /\ Top.at = "reap" /\ Top.this # Null
      /\ timers[Top.this].enabled \/ Held(Top.this)
      /\ timers \in [Timers -> Timer] /\ alloc \subseteq Timers
  BY DEF Inv, Keep, TypeOK, At, CountUnchanged
<1>2. /\ Listed' /\ OneTimerEach' /\ alloc' = alloc /\ timers' \in [Timers -> Timer]
      /\ Enabled' = Enabled
  BY <1>1, ListAlone
<1>3. ~At({"script"}) /\ Top \in Frame /\ Top.this \in alloc
  BY <1>1, TopSound DEF At, SoundFrame
<1>4. p \in alloc \cup {Null} /\ p \in Pointer
  BY <1>1, <1>3, NextListed DEF Pointer
<1> HIDE DEF p
<1>5. f \in Frame /\ f.at = "scan" /\ f.this = p
  <2>1. PICK r \in Frame : r = Top
    BY <1>3, <1>4
  <2>2. PICK q \in Pointer : q = p
    BY <1>3, <1>4
  <2>3. f = [r EXCEPT !.at = "scan", !.this = q]
    BY <2>1, <2>2
  <2> HIDE DEF f
  <2>4. f \in Frame /\ f.at = "scan" /\ f.this = q
    BY <2>3 DEF Frame
  <2>5. QED
    BY <2>2, <2>4
<1>6. One(Top, Sleeps) = 0 /\ \A u : One(Top, RunsOf(u)) = 0 /\ One(Top, LocksOf(u)) = 0
  BY <1>1, <1>3, Counted
<1>7. One(f, Sleeps) = 0 /\ \A u : One(f, RunsOf(u)) = 0 /\ One(f, LocksOf(u)) = 0
  BY <1>5, Counted
<1> HIDE DEF f
<1>8. /\ frames' \in Seq(Frame) /\ frames' # <<>> /\ Stacked'
      /\ \A A : Count(frames, A) \in Nat
      /\ \A A : Count(frames', A) = Count(frames, A) - One(Top, A) + One(f, A)
  BY <1>1, <1>3, <1>5, Replaced
<1>9. HeldExactly'
  <2>1. \A u : /\ Count(frames', LocksOf(u)) = Count(frames, LocksOf(u))
               /\ Count(frames', RunsOf(u)) = Count(frames, RunsOf(u))
    BY <1>6, <1>7, <1>8
  <2>2. QED
    BY <1>1, <1>2, <2>1 DEF HeldExactly
<1>10. LayersCounted'
  BY <1>1, <1>6, <1>7, <1>8 DEF LayersCounted
<1>11. FramesSound'
  <2>1. SoundFrame(f)
    BY <1>4, <1>5 DEF SoundFrame
  <2>2. QED
    BY <1>1, <1>2, <1>3, <1>5, <2>1, ReplacedSound
<1>12. NoneForgotten'
  <2>1. \A u \in alloc : timers[u].enabled \/ timers[u].running > 0 \/ timers[u].locked > 0
    <3>1. \A u \in alloc : u # Top.this =>
            timers[u].enabled \/ timers[u].running > 0 \/ timers[u].locked > 0
      BY DEF Inv, NoneForgotten
    <3>2. QED
      BY <1>1, <3>1 DEF Held
  <2>2. QED
    BY <1>1, <1>2, <2>1 DEF NoneForgotten
<1>13. EnabledCounted' /\ MainTimerWhenNeeded' /\ TypeOK'
  BY <1>1, <1>2, <1>8, ListedTypes DEF EnabledCounted, MainTimerWhenNeeded, TypeOK
<1>14. QED
  BY <1>2, <1>8, <1>9, <1>10, <1>11, <1>12, <1>13 DEF Inv


LEMMA ReapedKeeps ==
  ASSUME Inv, Reaped
  PROVE  Inv'
<1> DEFINE n == Top.nxt
<1> DEFINE f == [Top EXCEPT !.at = "reap", !.this = Top.nxt, !.nxt = Null]
<1>1. /\ TypeOK /\ HeldExactly /\ LayersCounted /\ FramesSound /\ Stacked /\ EnabledCounted
      /\ MainTimerWhenNeeded
      /\ UNCHANGED <<list, mTimerEnabledCount, g_MainTimerExists, g_nLayersNeedingTimer>>
      /\ Replace(f) /\ Top.at = "deleting"
      /\ timers \in [Timers -> Timer] /\ alloc \subseteq Timers
      /\ timers' = IF n = Null THEN timers
                   ELSE [timers EXCEPT ![n].locked = timers[n].locked - 1]
  BY DEF Inv, Reaped, Unlocked, LooksAtNext, TypeOK, At, CountUnchanged
<1>2. ~At({"script"}) /\ Top \in Frame /\ n \in alloc \cup {Null} /\ n \in Pointer
  BY <1>1, TopSound DEF At, SoundFrame, Pointer
<1>3. f \in Frame /\ f.at = "reap" /\ f.this = n
  <2>1. PICK r \in Frame : r = Top
    BY <1>2
  <2>2. PICK q \in Pointer : q = n
    BY <1>2
  <2>3. f = [r EXCEPT !.at = "reap", !.this = q, !.nxt = Null]
    BY <2>1, <2>2
  <2> HIDE DEF f, n
  <2>4. f \in Frame /\ f.at = "reap" /\ f.this = q
    BY <2>3 DEF Frame, Pointer
  <2>5. QED
    BY <2>2, <2>4
<1>4. /\ One(Top, Sleeps) = 0 /\ One(Top, LocksOf(n)) = 1
      /\ \A u : u # n => One(Top, LocksOf(u)) = 0
      /\ \A u : One(Top, RunsOf(u)) = 0
  BY <1>1, <1>2, Counted
<1>5. One(f, Sleeps) = 0 /\ \A u : One(f, RunsOf(u)) = 0 /\ One(f, LocksOf(u)) = 0
  BY <1>3, Counted
<1> HIDE DEF f, n
<1>6. /\ frames' \in Seq(Frame) /\ frames' # <<>> /\ Stacked' /\ Depth' = Depth
      /\ frames'[Depth] = f
      /\ \A A : Count(frames, A) \in Nat /\ Count(frames, A) >= One(Top, A)
      /\ \A A : Count(frames', A) = Count(frames, A) - One(Top, A) + One(f, A)
  BY <1>1, <1>2, <1>3, Replaced
<1>7. Top' = f
  BY <1>6 DEF Top
<1>8. \A u : /\ Count(frames', RunsOf(u)) = Count(frames, RunsOf(u))
             /\ u # n => Count(frames', LocksOf(u)) = Count(frames, LocksOf(u))
  BY <1>4, <1>5, <1>6
<1>9. LayersCounted'
  BY <1>1, <1>4, <1>5, <1>6 DEF LayersCounted
<1>10. \A u \in alloc : timers[u].enabled \/ timers[u].running > 0 \/ timers[u].locked > 0
  BY <1>1 DEF Inv, NoneForgotten, At
<1>11. /\ Listed' /\ OneTimerEach' /\ alloc' = alloc /\ timers' \in [Timers -> Timer]
       /\ Enabled' = Enabled /\ HeldExactly' /\ NoneForgotten'
  <2>1. CASE n = Null
    <3>1. timers' = timers
      BY <1>1, <2>1
    <3>2. /\ Listed' /\ OneTimerEach' /\ alloc' = alloc /\ timers' \in [Timers -> Timer]
          /\ Enabled' = Enabled
      BY <1>1, <3>1, ListAlone
    <3>3. \A u \in alloc : u # n
      BY <1>1, <2>1, TimersAssumption
    <3>4. HeldExactly'
      BY <1>1, <1>8, <3>1, <3>2, <3>3 DEF HeldExactly
    <3>5. NoneForgotten'
      BY <1>10, <3>1, <3>2 DEF NoneForgotten
    <3>6. QED
      BY <3>2, <3>4, <3>5
  <2>2. CASE n # Null
    <3>1. n \in alloc /\ n \in Timers /\ timers[n] \in Timer
          /\ timers' = [timers EXCEPT ![n].locked = timers[n].locked - 1]
      BY <1>1, <1>2, <2>2
    <3>2. /\ timers[n].locked = Count(frames, LocksOf(n)) /\ timers[n].running <= 1
          /\ timers[n].running = Count(frames, RunsOf(n))
      BY <1>1, <3>1 DEF HeldExactly
    <3>3. Count(frames, LocksOf(n)) \in Nat /\ Count(frames, LocksOf(n)) >= 1
      BY <1>4, <1>6
    <3>4. timers[n].locked - 1 \in Nat
      BY <3>2, <3>3
    <3> DEFINE r == [timers[n] EXCEPT !.locked = timers[n].locked - 1]
    <3>5. /\ r \in Timer /\ r.cb = timers[n].cb /\ r.enabled = timers[n].enabled
          /\ r.running = timers[n].running /\ r.locked = timers[n].locked - 1
          /\ r.next = timers[n].next
      BY <3>1, <3>4 DEF Timer
    <3>6. timers' = [timers EXCEPT ![n] = r]
      BY <1>1, <3>1
    <3> HIDE DEF r
    <3>7. /\ Listed' /\ OneTimerEach' /\ alloc' = alloc /\ timers' \in [Timers -> Timer]
          /\ Enabled' = Enabled /\ timers'[n] = r
          /\ \A u \in Timers : u # n => timers'[u] = timers[u]
      BY <1>1, <3>1, <3>5, <3>6, MarksStep
    <3>8. Count(frames', LocksOf(n)) = Count(frames, LocksOf(n)) - 1
      BY <1>4, <1>5, <1>6
    <3>9. /\ timers'[n].running <= 1 /\ timers'[n].running = Count(frames', RunsOf(n))
          /\ timers'[n].locked = Count(frames', LocksOf(n))
      BY <1>8, <3>2, <3>5, <3>7, <3>8
    <3>10. HeldExactly'
      BY <1>1, <1>8, <3>7, <3>9 DEF HeldExactly
    <3>11. NoneForgotten'
      <4>1. Top'.at = "reap" /\ Top'.this = n
        BY <1>3, <1>7
      <4>2. QED
        BY <1>1, <1>10, <3>7, <4>1 DEF NoneForgotten, At
    <3>12. QED
      BY <3>7, <3>10, <3>11
  <2>3. QED
    BY <2>1, <2>2
<1>12. FramesSound'
  <2>1. SoundFrame(f)
    BY <1>2, <1>3 DEF SoundFrame
  <2>2. QED
    BY <1>1, <1>2, <1>3, <1>11, <2>1, ReplacedSound
<1>13. EnabledCounted' /\ MainTimerWhenNeeded' /\ TypeOK'
  BY <1>1, <1>6, <1>11, ListedTypes DEF EnabledCounted, MainTimerWhenNeeded, TypeOK
<1>14. QED
  BY <1>6, <1>9, <1>11, <1>12, <1>13 DEF Inv

LEMMA ReapKeeps ==
  ASSUME Inv, Reap
  PROVE  Inv'
<1> DEFINE t == Top.this
<1> DEFINE n == timers[t].next
<1> DEFINE f == [Top EXCEPT !.at = "deleting", !.nxt = timers[Top.this].next]
<1>1. /\ TypeOK /\ Listed /\ HeldExactly /\ LayersCounted /\ FramesSound /\ Stacked
      /\ EnabledCounted /\ MainTimerWhenNeeded
      /\ UNCHANGED <<mTimerEnabledCount, g_MainTimerExists, g_nLayersNeedingTimer>>
      /\ Replace(f) /\ Top.at = "reap" /\ t # Null
      /\ timers \in [Timers -> Timer] /\ alloc \subseteq Timers
      /\ ~timers[t].enabled /\ ~Held(t) /\ Unlink(t)
      /\ timers' = IF n = Null THEN Unlinked(t)
                   ELSE [Unlinked(t) EXCEPT ![n].locked = Unlinked(t)[n].locked + 1]
  BY DEF Inv, Reap, TypeOK, At, CountUnchanged
<1>2. ~At({"script"}) /\ Top \in Frame /\ t \in alloc /\ t \in Timers
  BY <1>1, TopSound DEF At, SoundFrame
<1>3. n \in (alloc \ {t}) \cup {Null} /\ n \in Pointer
  BY <1>1, <1>2, NextListed DEF Pointer
<1>4. f \in Frame /\ f.at = "deleting" /\ f.nxt = n
  <2>1. PICK r \in Frame : r = Top
    BY <1>2
  <2>2. PICK q \in Pointer : q = n
    BY <1>3
  <2>3. f = [r EXCEPT !.at = "deleting", !.nxt = q]
    BY <2>1, <2>2
  <2> HIDE DEF f, n, t
  <2>4. f \in Frame /\ f.at = "deleting" /\ f.nxt = q
    BY <2>3 DEF Frame, Pointer
  <2>5. QED
    BY <2>2, <2>4
<1> HIDE DEF f, n, t
<1>5. One(Top, Sleeps) = 0 /\ \A u : One(Top, RunsOf(u)) = 0 /\ One(Top, LocksOf(u)) = 0
  BY <1>1, <1>2, Counted
<1>6. /\ One(f, Sleeps) = 0 /\ One(f, LocksOf(n)) = 1
      /\ \A u : u # n => One(f, LocksOf(u)) = 0
      /\ \A u : One(f, RunsOf(u)) = 0
  BY <1>4, Counted
<1>7. /\ frames' \in Seq(Frame) /\ frames' # <<>> /\ Stacked' /\ Depth' = Depth
      /\ frames'[Depth] = f
      /\ \A i \in 1 .. Depth - 1 : frames'[i] = frames[i]
      /\ \A A : Count(frames, A) \in Nat
      /\ \A A : Count(frames', A) = Count(frames, A) - One(Top, A) + One(f, A)
  BY <1>1, <1>2, <1>4, Replaced
<1>8. alloc' = alloc \ {t}
  BY <1>1 DEF Unlink
<1> DEFINE U == Unlinked(t)
<1>9. /\ U \in [Timers -> Timer]
      /\ \A u \in Timers \ {t} : /\ U[u].cb = timers[u].cb
                                 /\ U[u].enabled = timers[u].enabled
                                 /\ U[u].running = timers[u].running
                                 /\ U[u].locked = timers[u].locked
  BY <1>1, <1>2, UnlinkedObjects
<1>10. timers' = IF n = Null THEN U ELSE [U EXCEPT ![n].locked = U[n].locked + 1]
  BY <1>1
<1> HIDE DEF U
<1>11. /\ timers' \in [Timers -> Timer]
       /\ \A u \in Timers : /\ timers'[u].cb = U[u].cb
                            /\ timers'[u].enabled = U[u].enabled
                            /\ timers'[u].running = U[u].running
                            /\ timers'[u].next = U[u].next
                            /\ timers'[u].locked = U[u].locked + (IF u = n THEN 1 ELSE 0)
  <2>1. CASE n = Null
    <3>1. timers' = U /\ \A u \in Timers : u # n /\ U[u].locked \in Nat
      BY <1>9, <1>10, <2>1, TimersAssumption DEF Timer
    <3>2. QED
      BY <1>9, <3>1
  <2>2. CASE n # Null
    <3>1. n \in Timers /\ timers' = [U EXCEPT ![n].locked = U[n].locked + 1]
      BY <1>1, <1>3, <1>10, <2>2
    <3> DEFINE r == [U[n] EXCEPT !.locked = U[n].locked + 1]
    <3>2. U[n] \in Timer /\ \A u \in Timers : U[u].locked \in Nat
      BY <1>9, <3>1 DEF Timer
    <3>3. /\ r \in Timer /\ r.cb = U[n].cb /\ r.enabled = U[n].enabled
          /\ r.running = U[n].running /\ r.next = U[n].next
          /\ r.locked = U[n].locked + 1
      BY <3>2 DEF Timer
    <3>4. timers' = [U EXCEPT ![n] = r]
      BY <1>9, <3>1
    <3> HIDE DEF r
    <3>5. /\ timers' \in [Timers -> Timer] /\ timers'[n] = r
          /\ \A u \in Timers : u # n => timers'[u] = U[u]
      BY <1>9, <3>1, <3>3, <3>4
    <3>6. QED
      BY <3>2, <3>3, <3>5
  <2>3. QED
    BY <2>1, <2>2
<1>12. \A u \in alloc' : /\ timers'[u].cb = timers[u].cb
                         /\ timers'[u].enabled = timers[u].enabled
                         /\ timers'[u].running = timers[u].running
                         /\ timers'[u].locked = timers[u].locked + (IF u = n THEN 1 ELSE 0)
  BY <1>1, <1>8, <1>9, <1>11
<1>13. Listed'
  BY <1>1, <1>2, <1>11, UnlinkListed DEF U
<1>14. OneTimerEach'
  BY <1>8, <1>12 DEF Inv, OneTimerEach
<1>15. Enabled' = Enabled
  BY <1>1, <1>8, <1>12 DEF Enabled
<1>16. HeldExactly'
  <2>1. \A u : /\ Count(frames', RunsOf(u)) = Count(frames, RunsOf(u))
               /\ Count(frames', LocksOf(u)) = Count(frames, LocksOf(u))
                                               + (IF u = n THEN 1 ELSE 0)
    BY <1>5, <1>6, <1>7
  <2>2. QED
    BY <1>1, <1>8, <1>12, <2>1 DEF HeldExactly
<1>17. LayersCounted'
  BY <1>1, <1>5, <1>6, <1>7 DEF LayersCounted
<1>18. FramesSound'
  <2>1. ASSUME NEW i \in 1 .. Depth - 1
        PROVE  SoundFrame(frames[i])'
    <3>1. Depth \in Nat /\ i \in 1 .. Depth /\ i # Depth
      BY <1>1, <1>2, NotAlone
    <3>2. frames[i].at \notin {"reap", "scan"}
      BY <1>1, <3>1 DEF Stacked
    <3>3. PICK g : g = frames[i]
      OBVIOUS
    <3>4. SoundFrame(g)'
      BY <1>1, <1>2, <1>8, <3>1, <3>2, <3>3, UnlinkSound
    <3>5. g = frames'[i]
      BY <1>7, <3>3
    <3>6. QED
      BY <3>4, <3>5 DEF SoundFrame
  <2>2. \A i \in {Depth} : SoundFrame(frames[i])'
    <3>1. SUFFICES ASSUME NEW i \in {Depth} PROVE SoundFrame(frames[i])'
      OBVIOUS
    <3>2. frames'[i] = f
      BY <1>7
    <3>3. QED
      BY <1>3, <1>4, <1>8, <3>2 DEF SoundFrame
  <2>3. \A i \in 1 .. Depth' : i \in 1 .. Depth - 1 \/ i \in {Depth}
    <3>1. Depth \in Nat
      BY <1>1, <1>2, NotAlone
    <3>2. QED
      BY <1>7, <3>1
  <2>4. QED
    BY <2>1, <2>2, <2>3 DEF FramesSound
<1>19. NoneForgotten'
  <2>1. ASSUME NEW u \in alloc', ~timers'[u].enabled
        PROVE  timers'[u].running > 0 \/ timers'[u].locked > 0
    <3>1. u \in alloc /\ u # t /\ timers[u].locked \in Nat
      BY <1>1, <1>8 DEF Timer
    <3>2. ~timers[u].enabled
      BY <1>12, <2>1
    <3>3. timers[u].running > 0 \/ timers[u].locked > 0
      BY <3>1, <3>2 DEF Inv, NoneForgotten, t
    <3>4. QED
      BY <1>12, <3>1, <3>3
  <2>2. QED
    BY <2>1 DEF NoneForgotten
<1>20. EnabledCounted' /\ MainTimerWhenNeeded' /\ TypeOK'
  BY <1>1, <1>7, <1>11, <1>13, <1>15, ListedTypes
  DEF EnabledCounted, MainTimerWhenNeeded, TypeOK
<1>21. QED
  BY <1>7, <1>13, <1>14, <1>16, <1>17, <1>18, <1>19, <1>20 DEF Inv


----------------------------------------------------------------------------
(* The theorems *)

LEMMA StutterKeeps ==
  ASSUME Inv, UNCHANGED vars
  PROVE  Inv'
<1>1. /\ timers' = timers /\ alloc' = alloc /\ mFirstTimer' = mFirstTimer
      /\ mLastTimer' = mLastTimer /\ mTimerCount' = mTimerCount
      /\ mTimerEnabledCount' = mTimerEnabledCount
      /\ g_nLayersNeedingTimer' = g_nLayersNeedingTimer
      /\ g_MainTimerExists' = g_MainTimerExists /\ frames' = frames
  BY DEF vars, list
<1>2. Listed' /\ OneTimerEach' /\ Enabled' = Enabled
  BY <1>1, ListAlone DEF list
<1>3. TypeOK' /\ EnabledCounted' /\ LayersCounted' /\ MainTimerWhenNeeded'
  BY <1>1, <1>2 DEF Inv, TypeOK, EnabledCounted, LayersCounted, MainTimerWhenNeeded
<1>4. HeldExactly' /\ Stacked'
  BY <1>1 DEF Inv, HeldExactly, Stacked, Depth
<1>5. FramesSound' /\ NoneForgotten'
  BY <1>1 DEF Inv, FramesSound, SoundFrame, NoneForgotten, At, Top, Depth
<1>6. QED
  BY <1>2, <1>3, <1>4, <1>5 DEF Inv

LEMMA InitInv == Init => Inv
<1> SUFFICES ASSUME Init
             PROVE  Inv
  OBVIOUS
<1> DEFINE f == NewFrame("script")
<1>1. f \in Frame /\ f.at = "script" /\ frames = <<f>>
  BY DEF Init, NewFrame, Frame, Pointer
<1> HIDE DEF f
<1>2. frames \in Seq(Frame) /\ frames # <<>> /\ Len(frames) = 1 /\ frames[1] = f
  BY <1>1
<1>3. TypeOK
  <2>1. Free \in Timer
    BY DEF Free, Timer, NoCallback, Pointer
  <2>2. timers \in [Timers -> Timer]
    BY <2>1 DEF Init
  <2>3. QED
    BY <1>2, <2>2 DEF Init, TypeOK, Pointer
<1>4. Listed
  <2> DEFINE s == [i \in 1 .. 0 |-> Null]
  <2>1. s \in [1 .. 0 -> Timers] /\ 1 .. 0 = {}
    OBVIOUS
  <2>2. alloc = {} /\ mFirstTimer = Null /\ mLastTimer = Null /\ mTimerCount = 0
    BY DEF Init
  <2> HIDE DEF s
  <2>3. IsList(s, 0)
    BY <2>1, <2>2 DEF IsList
  <2>4. QED
    BY <2>1, <2>3 DEF Listed
<1>5. alloc = {} /\ Enabled = {}
  BY DEF Init, Enabled
<1>6. EnabledCounted
  BY <1>5, FS_EmptySet DEF Init, EnabledCounted
<1>7. LayersCounted
  <2>1. \A i \in 1 .. Len(frames) : frames[i] \notin Sleeps
    BY <1>1, <1>2 DEF Sleeps
  <2>2. Count(frames, Sleeps) = 0
    BY <1>2, <2>1, NoneCounted
  <2>3. QED
    BY <2>2 DEF Init, LayersCounted
<1>8. Stacked /\ FramesSound
  BY <1>1, <1>2 DEF Stacked, FramesSound, SoundFrame, Depth
<1>9. OneTimerEach /\ HeldExactly /\ NoneForgotten
  BY <1>5 DEF OneTimerEach, HeldExactly, NoneForgotten
<1>10. MainTimerWhenNeeded
  BY DEF Init, MainTimerWhenNeeded
<1>11. QED
  BY <1>3, <1>4, <1>6, <1>7, <1>8, <1>9, <1>10 DEF Inv

LEMMA NextInv == Inv /\ [Next]_vars => Inv'
<1> SUFFICES ASSUME Inv, [Next]_vars
             PROVE  Inv'
  OBVIOUS
<1>1. CASE UNCHANGED vars
  BY <1>1, StutterKeeps
<1>2. ASSUME NEW cb \in Callbacks, NEW once \in BOOLEAN, CreateTimer(cb, once)
      PROVE  Inv'
  BY <1>2, CreateKeeps
<1>3. ASSUME NEW cb \in Callbacks, NEW once \in BOOLEAN, UpdateTimer(cb, once)
      PROVE  Inv'
  BY <1>3, UpdateKeeps
<1>4. ASSUME NEW cb \in Callbacks, DeleteTimer(cb)
      PROVE  Inv'
  BY <1>4, DeleteKeeps
<1>5. ASSUME NEW t \in Timers, StartPass(t)
      PROVE  Inv'
  BY <1>5, StartKeeps
<1>6. ASSUME NEW t \in Timers, LaunchNext(t)
      PROVE  Inv'
  BY <1>6, NextKeeps
<1>7. CASE Sleep
  BY <1>7, SleepKeeps
<1>8. CASE SleepReturns
  BY <1>8, WakeKeeps
<1>9. CASE CallbackReturns
  BY <1>9, ReturnKeeps
<1>10. CASE Keep
  BY <1>10, KeepKeeps
<1>11. CASE Reap
  BY <1>11, ReapKeeps
<1>12. CASE Reaped
  BY <1>12, ReapedKeeps
<1>13. CASE EndPass
  BY <1>13, EndKeeps
<1>14. QED
  BY <1>1, <1>2, <1>3, <1>4, <1>5, <1>6, <1>7, <1>8, <1>9, <1>10, <1>11, <1>12, <1>13
  DEF Next

\* The inductive invariant holds, and with it every variable has its type, whatever
\* scripts do with timers while passes of CheckScriptTimers are suspended.
THEOREM InvAlways == Spec => [](Inv /\ TypeOK)
<1>1. Inv => TypeOK
  BY DEF Inv
<1>2. QED
  BY <1>1, InitInv, NextInv, PTL DEF Spec

\* The list that SetTimer and CheckScriptTimers edit links every timer once, from
\* mFirstTimer to mLastTimer, however many timers there are and passes nest.
THEOREM ListSound == Spec => []ListWellFormed
<1>1. Inv => ListWellFormed
  <2>1. SUFFICES ASSUME Inv
                 PROVE  ListWellFormed
    OBVIOUS
  <2>2. PICK n \in Nat : \E s \in [1 .. n -> Timers] : IsList(s, n)
    BY <2>1 DEF Inv, Listed
  <2>3. PICK s \in [1 .. n -> Timers] : IsList(s, n)
    BY <2>2
  <2>4. From(mFirstTimer) = alloc /\ Cardinality(alloc) = n /\ mTimerCount = n
    BY <2>1, <2>3, ListRead DEF Inv, IsList
  <2>5. IF alloc = {} THEN mFirstTimer = Null /\ mLastTimer = Null
        ELSE mLastTimer \in alloc /\ timers[mLastTimer].next = Null
    <3>1. CASE n = 0
      BY <2>3, <3>1 DEF IsList
    <3>2. CASE n # 0
      <4>1. n \in 1 .. n /\ s[n] \in alloc
        BY <2>3, <3>2 DEF IsList
      <4>2. QED
        BY <2>3, <3>2, <4>1 DEF IsList
    <3>3. QED
      BY <3>1, <3>2
  <2>6. QED
    BY <2>1, <2>4, <2>5 DEF Inv, OneTimerEach, ListWellFormed
<1>2. QED
  BY <1>1, InitInv, NextInv, PTL DEF Spec

\* mTimerEnabledCount, mExistingThreads and mDeleteLocked are exact, and no callback
\* interrupts itself.
THEOREM CountsSound == Spec => []CountsExact
<1>1. Inv => CountsExact
  <2>1. SUFFICES ASSUME Inv
                 PROVE  CountsExact
    OBVIOUS
  <2>2. frames \in Seq(Frame) /\ Depth = Len(frames)
    BY <2>1 DEF Inv, TypeOK, Depth
  <2>3. \A t : /\ Places(frames, RunsOf(t)) = {i \in FramesAt({"run"}) : frames[i].cur = t}
               /\ Places(frames, LocksOf(t))
                    = {i \in FramesAt({"deleting"}) : frames[i].nxt = t}
    <3>1. \A i \in 1 .. Len(frames) : frames[i] \in Frame
      BY <2>2
    <3>2. QED
      BY <2>2, <3>1 DEF Places, RunsOf, LocksOf, FramesAt
  <2>4. QED
    BY <2>1, <2>3 DEF Inv, HeldExactly, Count, EnabledCounted, Enabled, CountsExact
<1>2. QED
  BY <1>1, InitInv, NextInv, PTL DEF Spec

\* KILL_MAIN_TIMER never kills the Windows timer while an enabled timer or a sleeping
\* layer needs it.
THEOREM TimerWhenNeeded == Spec => []MainTimerWhenNeeded
<1>1. Inv => MainTimerWhenNeeded
  BY DEF Inv
<1>2. QED
  BY <1>1, InitInv, NextInv, PTL DEF Spec

\* A suspended pass never goes on through a deleted timer, and no timer that is marked
\* for deletion is left behind.
THEOREM PassesHold == Spec => []PassesSound
<1>1. Inv => PassesSound
  <2>1. SUFFICES ASSUME Inv
                 PROVE  PassesSound
    OBVIOUS
  <2>2. NoDanglingPass
    BY <2>1 DEF Inv, FramesSound, SoundFrame, NoDanglingPass
  <2>3. NoOrphans
    <3>1. Depth \in 1 .. Depth /\ (At({"reap"}) => Depth \in FramesAt({"reap"}))
      BY <2>1 DEF Inv, TypeOK, Depth, At, Top, FramesAt
    <3>2. QED
      BY <2>1, <3>1 DEF Inv, NoneForgotten, NoOrphans, Held, Top
  <2>4. QED
    BY <2>2, <2>3 DEF PassesSound
<1>2. QED
  BY <1>1, InitInv, NextInv, PTL DEF Spec

============================================================================
