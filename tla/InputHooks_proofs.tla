------------------------- MODULE InputHooks_proofs -------------------------
(***************************************************************************)
(* As long as no input is ended by both threads, the chain of inputs is    *)
(* sound, nothing on it is deleted, and no walk of the hook thread misses  *)
(* an input: proofs for any finite number of inputs, any references, and   *)
(* queues and stacks of OnEnd of any length.                               *)
(***************************************************************************)
EXTENDS InputHooks, FiniteSetTheorems, WellFoundedInduction, TLAPS

----------------------------------------------------------------------------
(* The inductive invariant *)

Messages == [type : {"end", "notify"}, input : Inputs]

Typed ==
  /\ head \in Inputs \cup {Null}
  /\ prev \in [Inputs -> Inputs \cup {Null}]
  /\ progress \in [Inputs -> BOOLEAN]
  /\ refs \in [Inputs -> Int]
  /\ held \subseteq Inputs
  /\ queue \in Seq(Messages)
  /\ main \in [pc : {"script", "restarting", "releasing"}, input : Inputs \cup {Null}]
  /\ ending \in Seq(Inputs)
  /\ hook \in [pass : {0, 1, 2}, at : Inputs \cup {Null}, saw : BOOLEAN, old : BOOLEAN]
  /\ installed \in BOOLEAN
  /\ due \subseteq Inputs

\* The inputs that s enumerates, and those from q on.
On(s, n) == {s[k] : k \in 1 .. n}
Ahead(s, n, q) == {s[k] : k \in {j \in 1 .. n : \E m \in 1 .. j : s[m] = q}}

\* s enumerates the chain from h, whose links are p; it has n inputs.
Links(h, p, s, n) ==
  /\ \A j, k \in 1 .. n : s[j] = s[k] => j = k
  /\ h = IF n = 0 THEN Null ELSE s[1]
  /\ \A k \in 1 .. n : p[s[k]] = IF k = n THEN Null ELSE s[k + 1]

\* An input in progress is on the chain C and the hook installed for it.
Active(C) == \A i \in Inputs : progress[i] => i \in C /\ installed

\* Where x stands in q, and how often.
Places(q, x) == {k \in 1 .. Len(q) : q[k] = x}
Count(q, x) == Cardinality(Places(q, x))

One(b) == IF b THEN 1 ELSE 0

\* Variables, OnEnd callbacks, messages that end it, its being in progress, and the
\* main thread waiting for the hook: each has a reference of its own.
Known(i) == One(i \in held)
Going(i) == One(progress[i])
Awaited(i) == One(main.input = i)
Owed(i) == Known(i) + Count(ending, i) + Count(queue, EndOf(i)) + Going(i) + Awaited(i)
Accounted == \A i \in Inputs : refs[i] >= Owed(i)

\* An input that has ended is on the chain only until its message is retrieved.
Announced(C) == \A i \in C : ~progress[i] => Count(queue, EndOf(i)) >= 1

\* The input that the main thread has unlinked is not on the chain.
Waiting(C) ==
  IF main.pc = "script" THEN main.input = Null ELSE main.input \in Inputs \ C

\* The hook thread is on the chain, or on the input just unlinked, for which the
\* main thread waits; from there it comes to all that is due.
OnChain(C) == hook.at \in C \cup {Null}
Standing(C) == IF OnChain(C) THEN hook.at ELSE prev[hook.at]
Walking(s, n) ==
  /\ hook.at # Null => hook.pass # 0
  /\ hook.saw => hook.at # Null
  /\ \/ OnChain(On(s, n))
     \/ hook.old /\ hook.at = main.input /\ prev[hook.at] \in On(s, n) \cup {Null}
  /\ hook.pass = 2 =>
       /\ hook.saw => hook.at \notin due
       /\ \A i \in due : progress[i] /\ i \in Ahead(s, n, Standing(On(s, n)))

Sound(s, n) ==
  /\ Links(head, prev, s, n)
  /\ Active(On(s, n)) /\ Accounted /\ Announced(On(s, n)) /\ Waiting(On(s, n))
  /\ Walking(s, n)

Inv == ~twice => Typed /\ \E n \in Nat : \E s \in [1 .. n -> Inputs] : Sound(s, n)

----------------------------------------------------------------------------
(* Sequences of links *)

\* The walk from the first input, and from each to the next.
LEMMA WalkLinks ==
  ASSUME NEW n \in Nat, NEW s \in [1 .. n -> Inputs], NEW h, NEW p, Links(h, p, s, n)
  PROVE  /\ Ahead(s, n, h) = On(s, n) /\ Ahead(s, n, Null) = {}
         /\ On(s, n) \subseteq Inputs /\ Null \notin On(s, n)
         /\ h \in On(s, n) \cup {Null} /\ (h = Null => On(s, n) = {})
         /\ \A q \in On(s, n) :
              /\ p[q] \in (On(s, n) \ {q}) \cup {Null}
              /\ Ahead(s, n, q) = {q} \cup Ahead(s, n, p[q])
              /\ q \notin Ahead(s, n, p[q])
<1>1. On(s, n) \subseteq Inputs /\ Null \notin On(s, n)
  BY InputAssumption DEF On
<1>2. Ahead(s, n, Null) = {}
  BY InputAssumption DEF Ahead
<1>3. CASE n = 0
  BY <1>1, <1>2, <1>3 DEF Links, On, Ahead
<1>4. CASE n # 0
  <2>1. 1 \in 1 .. n /\ h = s[1]
    BY <1>4 DEF Links
  <2>2. h \in On(s, n) /\ h # Null
    BY <1>1, <2>1 DEF On
  <2>3. Ahead(s, n, h) = On(s, n)
    <3>1. \A k \in 1 .. n : 1 \in 1 .. k /\ s[1] = h
      BY <2>1
    <3>2. {j \in 1 .. n : \E m \in 1 .. j : s[m] = h} = 1 .. n
      BY <3>1
    <3>3. QED
      BY <3>2 DEF Ahead, On
  <2>4. ASSUME NEW k \in 1 .. n
        PROVE  /\ p[s[k]] \in (On(s, n) \ {s[k]}) \cup {Null}
               /\ Ahead(s, n, s[k]) = {s[k]} \cup Ahead(s, n, p[s[k]])
               /\ s[k] \notin Ahead(s, n, p[s[k]])
    <3>1. \A j, m \in 1 .. n : s[j] = s[m] <=> j = m
      BY DEF Links
    <3>2. p[s[k]] = IF k = n THEN Null ELSE s[k + 1]
      BY DEF Links
    <3>3. ASSUME NEW m \in 1 .. n
          PROVE  Ahead(s, n, s[m]) = {s[j] : j \in m .. n}
      <4>1. \A j \in 1 .. n : (\E l \in 1 .. j : s[l] = s[m]) <=> j \in m .. n
        BY <3>1
      <4>2. {j \in 1 .. n : \E l \in 1 .. j : s[l] = s[m]} = m .. n
        BY <4>1
      <4>3. QED
        BY <4>2 DEF Ahead
    <3>4. CASE k = n
      BY <1>2, <3>2, <3>3, <3>4
    <3>5. CASE k # n
      <4>1. k + 1 \in 1 .. n /\ k .. n = {k} \cup ((k + 1) .. n) /\ k \notin (k + 1) .. n
        BY <3>5
      <4>2. Ahead(s, n, s[k]) = {s[j] : j \in k .. n}
        BY <3>3
      <4>3. Ahead(s, n, s[k + 1]) = {s[j] : j \in (k + 1) .. n}
        BY <3>3, <4>1
      <4>4. s[k + 1] # s[k] /\ s[k + 1] \in On(s, n)
        BY <3>1, <4>1 DEF On
      <4>5. \A j \in (k + 1) .. n : s[j] # s[k]
        BY <3>1, <4>1
      <4>6. QED
        BY <3>2, <3>5, <4>1, <4>2, <4>3, <4>4, <4>5
    <3>6. QED
      BY <3>4, <3>5
  <2>5. QED
    BY <1>1, <1>2, <2>2, <2>3, <2>4 DEF On
<1>5. QED
  BY <1>3, <1>4

\* An input is put before the others.
LEMMA Prepended ==
  ASSUME NEW n \in Nat, NEW s \in [1 .. n -> Inputs],
         NEW h, NEW p \in [Inputs -> Inputs \cup {Null}], Links(h, p, s, n),
         NEW i \in Inputs \ On(s, n)
  PROVE  \E t \in [1 .. n + 1 -> Inputs] :
           /\ Links(i, [p EXCEPT ![i] = h], t, n + 1)
           /\ On(t, n + 1) = On(s, n) \cup {i}
           /\ \A q \in On(s, n) \cup {Null} : Ahead(s, n, q) \subseteq Ahead(t, n + 1, q)
<1> DEFINE t == [k \in 1 .. n + 1 |-> IF k = 1 THEN i ELSE s[k - 1]]
<1>1. /\ t \in [1 .. n + 1 -> Inputs] /\ t[1] = i
      /\ \A k \in 1 .. n + 1 : k # 1 => k - 1 \in 1 .. n /\ t[k] = s[k - 1]
      /\ \A k \in 1 .. n : k + 1 \in 1 .. n + 1 /\ t[k + 1] = s[k]
  OBVIOUS
<1> HIDE DEF t
<1>2. \A k \in 1 .. n : s[k] # i
  BY DEF On
<1>3. \A j, k \in 1 .. n : s[j] = s[k] => j = k
  BY DEF Links
<1>4. \A j, k \in 1 .. n + 1 : t[j] = t[k] => j = k
  <2>1. SUFFICES ASSUME NEW j \in 1 .. n + 1, NEW k \in 1 .. n + 1, t[j] = t[k]
                 PROVE  j = k
    OBVIOUS
  <2>2. CASE j = 1 \/ k = 1
    BY <1>1, <1>2, <2>1, <2>2
  <2>3. CASE j # 1 /\ k # 1
    <3>1. j - 1 \in 1 .. n /\ k - 1 \in 1 .. n /\ s[j - 1] = s[k - 1]
      BY <1>1, <2>1, <2>3
    <3>2. j - 1 = k - 1
      BY <1>3, <3>1
    <3>3. QED
      BY <3>2
  <2>4. QED
    BY <2>2, <2>3
<1>5. \A k \in 1 .. n + 1 :
        [p EXCEPT ![i] = h][t[k]] = IF k = n + 1 THEN Null ELSE t[k + 1]
  <2>1. SUFFICES ASSUME NEW k \in 1 .. n + 1
                 PROVE  [p EXCEPT ![i] = h][t[k]] = IF k = n + 1 THEN Null ELSE t[k + 1]
    OBVIOUS
  <2>2. CASE k = 1
    <3>1. h = IF n = 0 THEN Null ELSE s[1]
      BY DEF Links
    <3>2. n # 0 => 1 \in 1 .. n /\ t[1 + 1] = s[1]
      BY <1>1
    <3>3. [p EXCEPT ![i] = h][t[k]] = h
      BY <1>1, <2>2
    <3>4. QED
      BY <2>2, <3>1, <3>2, <3>3
  <2>3. CASE k # 1
    <3>1. k - 1 \in 1 .. n /\ t[k] = s[k - 1] /\ s[k - 1] # i /\ s[k - 1] \in Inputs
      BY <1>1, <1>2, <2>3
    <3>2. p[s[k - 1]] = IF k - 1 = n THEN Null ELSE s[(k - 1) + 1]
      BY <3>1 DEF Links
    <3>3. [p EXCEPT ![i] = h][t[k]] = p[s[k - 1]]
      BY <3>1
    <3>4. k # n + 1 => k \in 1 .. n /\ t[k + 1] = s[k]
      BY <1>1
    <3>5. QED
      BY <3>2, <3>3, <3>4
  <2>4. QED
    BY <2>2, <2>3
<1>6. On(t, n + 1) = On(s, n) \cup {i}
  <2>1. \A k \in 1 .. n + 1 : t[k] \in On(s, n) \cup {i}
    BY <1>1 DEF On
  <2>2. \A k \in 1 .. n : s[k] \in On(t, n + 1)
    BY <1>1 DEF On
  <2>3. 1 \in 1 .. n + 1 /\ t[1] = i
    BY <1>1
  <2>4. i \in On(t, n + 1)
    BY <2>3 DEF On
  <2>5. QED
    BY <2>1, <2>2, <2>4 DEF On
<1>7. ASSUME NEW q, NEW k \in 1 .. n, NEW m \in 1 .. k, s[m] = q
      PROVE  s[k] \in Ahead(t, n + 1, q)
  <2>1. /\ k + 1 \in 1 .. n + 1 /\ t[k + 1] = s[k]
        /\ m + 1 \in 1 .. k + 1 /\ t[m + 1] = q
    BY <1>1, <1>7
  <2>2. k + 1 \in {j \in 1 .. n + 1 : \E l \in 1 .. j : t[l] = q}
    BY <2>1
  <2>3. QED
    BY <2>1, <2>2 DEF Ahead
<1>8. \A q \in On(s, n) \cup {Null} : Ahead(s, n, q) \subseteq Ahead(t, n + 1, q)
  <2>1. SUFFICES ASSUME NEW q, NEW e \in Ahead(s, n, q)
                 PROVE  e \in Ahead(t, n + 1, q)
    BY Zenon
  <2>2. PICK k \in 1 .. n : e = s[k] /\ \E m \in 1 .. k : s[m] = q
    BY <2>1 DEF Ahead
  <2>3. PICK m \in 1 .. k : s[m] = q
    BY <2>2
  <2>4. s[k] \in Ahead(t, n + 1, q)
    BY <1>7, <2>3
  <2>5. QED
    BY <2>2, <2>4
<1>9. 1 \in 1 .. n + 1 /\ n + 1 # 0
  OBVIOUS
<1>10. Links(i, [p EXCEPT ![i] = h], t, n + 1)
  BY <1>1, <1>4, <1>5, <1>9 DEF Links
<1>11. QED
  BY <1>1, <1>6, <1>8, <1>10

\* What is left of the chain without i: from h2, with the links p2.
Without(s, n, i, p, h2, p2) ==
  /\ p2 \in [Inputs -> Inputs \cup {Null}] /\ h2 \in Inputs \cup {Null}
  /\ p2[i] = p[i]
  /\ \E t \in [1 .. n - 1 -> Inputs] :
       /\ Links(h2, p2, t, n - 1)
       /\ On(t, n - 1) = On(s, n) \ {i}
       /\ \A q : q # i => Ahead(s, n, q) \ {i} \subseteq Ahead(t, n - 1, q)

\* An input is unlinked: the one at d.
LEMMA Unlinked ==
  ASSUME NEW n \in Nat, NEW s \in [1 .. n -> Inputs], NEW d \in 1 .. n,
         NEW h, NEW p \in [Inputs -> Inputs \cup {Null}], Links(h, p, s, n),
         NEW h2, NEW p2,
         d = 1 => h2 = p[s[d]] /\ p2 = p,
         d # 1 => h2 = h /\ p2 = [p EXCEPT ![s[d - 1]] = p[s[d]]]
  PROVE  Without(s, n, s[d], p, h2, p2)
<1> DEFINE At(k) == IF k < d THEN k ELSE k + 1
<1> DEFINE Now(k) == IF k < d THEN k ELSE k - 1
<1> DEFINE t == [k \in 1 .. n - 1 |-> s[At(k)]]
<1>1. /\ \A k \in 1 .. n - 1 : At(k) \in 1 .. n /\ At(k) # d /\ Now(At(k)) = k
      /\ \A k \in 1 .. n : k # d => Now(k) \in 1 .. n - 1 /\ At(Now(k)) = k
      /\ \A j, k \in 1 .. n : j <= k /\ j # d /\ k # d => Now(j) <= Now(k)
  OBVIOUS
<1>2. t \in [1 .. n - 1 -> Inputs] /\ \A k \in 1 .. n - 1 : t[k] = s[At(k)]
  BY <1>1
<1> HIDE DEF t
<1>3. \A k \in 1 .. n - 1 : /\ k = n - 1 => At(k) = n \/ (d = n /\ At(k) = n - 1)
                            /\ k # n - 1 => /\ k + 1 \in 1 .. n - 1
                                            /\ At(k + 1) = At(k) + 1 \/ (d = At(k) + 1 /\ At(k + 1) = d + 1)
  OBVIOUS
<1>4. \A j, k \in 1 .. n : s[j] = s[k] <=> j = k
  BY DEF Links
<1>5. \A k \in 1 .. n : p[s[k]] = IF k = n THEN Null ELSE s[k + 1]
  BY DEF Links
<1>6. \A k \in 1 .. n : k # d => p2[s[k]] = IF k = d - 1 THEN p[s[d]] ELSE p[s[k]]
  <2>1. SUFFICES ASSUME NEW k \in 1 .. n, k # d
                 PROVE  p2[s[k]] = IF k = d - 1 THEN p[s[d]] ELSE p[s[k]]
    OBVIOUS
  <2>2. CASE d = 1
    BY <2>2
  <2>3. CASE d # 1
    <3>1. d - 1 \in 1 .. n
      BY <2>3
    <3>2. s[k] = s[d - 1] <=> k = d - 1
      BY <1>4, <3>1
    <3>3. QED
      BY <2>3, <3>1, <3>2
  <2>4. QED
    BY <2>2, <2>3
<1>7. /\ p2 \in [Inputs -> Inputs \cup {Null}] /\ h2 \in Inputs \cup {Null}
      /\ p2[s[d]] = p[s[d]]
  <2>1. s[d] \in Inputs /\ h \in Inputs \cup {Null}
    BY DEF Links
  <2>2. d # 1 => d - 1 \in 1 .. n /\ s[d - 1] # s[d]
    BY <1>4
  <2>3. QED
    BY <2>1, <2>2
<1>8. \A j, k \in 1 .. n - 1 : t[j] = t[k] => j = k
  <2>1. SUFFICES ASSUME NEW j \in 1 .. n - 1, NEW k \in 1 .. n - 1, t[j] = t[k]
                 PROVE  j = k
    OBVIOUS
  <2>2. At(j) = At(k)
    <3> HIDE DEF At
    <3>1. QED
      BY <1>1, <1>2, <1>4, <2>1
  <2>3. Now(At(j)) = Now(At(k))
    BY <2>2
  <2> HIDE DEF At, Now
  <2>4. QED
    BY <1>1, <2>3
<1>9. h2 = IF n - 1 = 0 THEN Null ELSE t[1]
  <2>1. h = s[1] /\ 1 \in 1 .. n
    BY DEF Links
  <2>2. CASE n = 1
    BY <1>5, <2>1, <2>2
  <2>3. CASE n # 1
    <3>1. 1 \in 1 .. n - 1
      BY <2>3
    <3>2. t[1] = s[IF d = 1 THEN 2 ELSE 1]
      BY <1>2, <3>1
    <3>3. p[s[1]] = s[2]
      BY <1>5, <2>1, <2>3
    <3>4. QED
      BY <2>1, <2>3, <3>2, <3>3
  <2>4. QED
    BY <2>2, <2>3
<1>10. ASSUME NEW k \in 1 .. n - 1
       PROVE  p2[t[k]] = IF k = n - 1 THEN Null ELSE t[k + 1]
  <2> DEFINE a == At(k)
  <2>1. a \in 1 .. n /\ a # d /\ t[k] = s[a]
    <3> HIDE DEF At
    <3>1. QED
      BY <1>1, <1>2
  <2>2. p2[s[a]] = IF a = d - 1 THEN p[s[d]] ELSE p[s[a]]
    <3> HIDE DEF a
    <3>1. QED
      BY <1>6, <2>1
  <2>3. CASE k = n - 1
    <3>1. a = n \/ (d = n /\ a = n - 1)
      BY <2>3
    <3> HIDE DEF a
    <3>2. a = d - 1 => d = n
      BY <2>1, <3>1
    <3>3. a # d - 1 => a = n
      BY <3>1
    <3>4. p2[s[a]] = Null
      BY <1>5, <2>1, <2>2, <3>2, <3>3
    <3>5. QED
      BY <2>1, <2>3, <3>4
  <2>4. CASE k # n - 1
    <3>1. /\ k + 1 \in 1 .. n - 1 /\ At(k + 1) = IF a = d - 1 THEN d + 1 ELSE a + 1
          /\ a # n /\ (a = d - 1 => d # n)
      BY <2>4
    <3>2. t[k + 1] = s[IF a = d - 1 THEN d + 1 ELSE a + 1]
      BY <1>2, <3>1
    <3> HIDE DEF a, At
    <3>3. p2[s[a]] = IF a = d - 1 THEN s[d + 1] ELSE s[a + 1]
      BY <1>5, <2>1, <2>2, <3>1
    <3>4. QED
      BY <2>1, <2>4, <3>2, <3>3
  <2>5. QED
    BY <2>3, <2>4
<1> HIDE DEF At, Now
<1>11. Links(h2, p2, t, n - 1)
  BY <1>8, <1>9, <1>10 DEF Links
<1>12. On(t, n - 1) = On(s, n) \ {s[d]}
  <2>1. \A k \in 1 .. n - 1 : t[k] \in On(s, n) \ {s[d]}
    BY <1>1, <1>2, <1>4 DEF On
  <2>2. \A k \in 1 .. n : k # d => s[k] = t[Now(k)] /\ Now(k) \in 1 .. n - 1
    BY <1>1, <1>2
  <2>3. \A k \in 1 .. n : s[k] # s[d] => s[k] \in On(t, n - 1)
    BY <2>2 DEF On
  <2>4. QED
    BY <2>1, <2>3 DEF On
<1>13. ASSUME NEW q, q # s[d], NEW k \in 1 .. n, NEW m \in 1 .. k, s[m] = q, s[k] # s[d]
       PROVE  s[k] \in Ahead(t, n - 1, q)
  <2>1. m \in 1 .. n /\ m <= k /\ m # d /\ k # d
    BY <1>13
  <2>2. /\ Now(m) \in 1 .. n - 1 /\ Now(k) \in 1 .. n - 1 /\ Now(m) <= Now(k)
        /\ t[Now(m)] = q /\ t[Now(k)] = s[k]
    BY <1>1, <1>2, <1>13, <2>1
  <2>3. Now(m) \in 1 .. Now(k)
    BY <2>2
  <2>4. Now(k) \in {j \in 1 .. n - 1 : \E l \in 1 .. j : t[l] = q}
    BY <2>2, <2>3
  <2>5. QED
    BY <2>2, <2>4 DEF Ahead
<1>14. \A q : q # s[d] => Ahead(s, n, q) \ {s[d]} \subseteq Ahead(t, n - 1, q)
  BY <1>13 DEF Ahead
<1>15. QED
  BY <1>2, <1>7, <1>11, <1>12, <1>14 DEF Without

----------------------------------------------------------------------------
(* What the model reads off the chain *)

\* Every set of natural numbers has a least element.
LEMMA LeastNat ==
  ASSUME NEW T \in SUBSET Nat, T # {}
  PROVE  \E x \in T : \A y \in T : x <= y
<1>1. PICK x \in T : \A y \in T : ~(<<y, x>> \in OpToRel(<, Nat))
  BY NatLessThanWellFounded, WFMin
<1>2. \A y \in T : ~(y < x)
  BY <1>1 DEF OpToRel
<1>3. QED
  BY <1>2

Follow(q) == IF q = Null THEN Null ELSE prev[q]

LEMMA WalkExists ==
  ASSUME NEW n \in Nat
  PROVE  \E f : f = [k \in 0 .. n |-> IF k = 0 THEN head ELSE Follow(f[k - 1])]
<1> DEFINE Walk(f, m) ==
      f = [k \in 0 .. m |-> IF k = 0 THEN head ELSE Follow(f[k - 1])]
<1> DEFINE T == {m \in Nat : ~ \E f : Walk(f, m)}
<1>1. CASE T = {}
  <2>1. n \notin T
    BY <1>1
  <2>2. QED
    BY <2>1
<1>2. CASE T # {}
  <2>1. PICK m \in T : \A y \in T : m <= y
    <3>1. T \in SUBSET Nat
      OBVIOUS
    <3> HIDE DEF T
    <3>2. QED
      BY <1>2, <3>1, LeastNat
  <2>2. CASE m = 0
    <3>1. Walk([k \in 0 .. 0 |-> head], 0)
      BY SMT
    <3>2. QED
      BY <2>1, <2>2, <3>1
  <2>3. CASE m # 0
    <3>1. m - 1 \in Nat /\ m - 1 \notin T
      BY <2>1, <2>3
    <3>2. PICK f : Walk(f, m - 1)
      BY <3>1
    <3> DEFINE g == [k \in 0 .. m |-> IF k <= m - 1 THEN f[k] ELSE Follow(f[m - 1])]
    <3>3. \A k \in 0 .. m : g[k] = IF k = 0 THEN head ELSE Follow(g[k - 1])
      BY <2>1, <2>3, <3>1, <3>2
    <3>4. Walk(g, m)
      BY <3>3
    <3>5. QED
      BY <2>1, <3>4
  <2>4. QED
    BY <2>2, <2>3
<1>3. QED
  BY <1>1, <1>2

\* What the recursive definition of Walked gives.
LEMMA WalkedSteps ==
  /\ Cardinality(Inputs) \in Nat /\ Walked[0] = head
  /\ \A k \in 1 .. Cardinality(Inputs) : Walked[k] = Follow(Walked[k - 1])
<1> DEFINE N == Cardinality(Inputs)
<1>1. N \in Nat
  BY FS_CardinalityType, InputAssumption
<1>2. PICK f : f = [k \in 0 .. N |-> IF k = 0 THEN head ELSE Follow(f[k - 1])]
  BY <1>1, WalkExists
<1>3. Walked = CHOOSE h : h = [k \in 0 .. N |-> IF k = 0 THEN head ELSE Follow(h[k - 1])]
  BY DEF Walked, Follow
<1>4. Walked = [k \in 0 .. N |-> IF k = 0 THEN head ELSE Follow(Walked[k - 1])]
  BY <1>2, <1>3
<1>5. QED
  BY <1>1, <1>4

\* Chain is what the links enumerate, and the walk comes to its end.
LEMMA ChainRead ==
  ASSUME NEW n \in Nat, NEW s \in [1 .. n -> Inputs], Links(head, prev, s, n)
  PROVE  Chain = On(s, n) /\ Walked[Cardinality(Inputs)] = Null
<1> DEFINE N == Cardinality(Inputs)
<1> DEFINE Right(k) == Walked[k] = IF k < n THEN s[k + 1] ELSE Null
<1> DEFINE W == {k \in 0 .. N : ~ Right(k)}
<1>1. /\ N \in Nat /\ Walked[0] = head
      /\ \A k \in 1 .. N : Walked[k] = Follow(Walked[k - 1])
  BY WalkedSteps
<1>2. \A j \in 1 .. n : Follow(s[j]) = IF j = n THEN Null ELSE s[j + 1]
  BY InputAssumption DEF Links, Follow
<1>3. Follow(Null) = Null
  BY DEF Follow
<1>4. W = {}
  <2>1. SUFFICES ASSUME W # {} PROVE FALSE
    OBVIOUS
  <2>2. PICK m \in W : \A y \in W : m <= y
    <3>1. W \in SUBSET Nat
      BY <1>1
    <3> HIDE DEF W
    <3>2. QED
      BY <2>1, <3>1, LeastNat
  <2>3. CASE m = 0
    <3>1. Right(0)
      BY <1>1 DEF Links
    <3>2. QED
      BY <2>2, <2>3, <3>1
  <2>4. CASE m # 0
    <3>1. m - 1 \in 0 .. N /\ m - 1 \notin W /\ m \in 1 .. N
      BY <1>1, <2>2, <2>4
    <3>2. Right(m - 1)
      BY <3>1
    <3>3. Walked[m] = Follow(Walked[m - 1])
      BY <1>1, <3>1
    <3>4. CASE m - 1 < n
      <4>1. (m - 1) + 1 = m /\ m \in 1 .. n
        BY <3>1, <3>4
      <4>2. Walked[m] = IF m = n THEN Null ELSE s[m + 1]
        BY <1>2, <3>2, <3>3, <3>4, <4>1
      <4>3. Right(m)
        BY <4>1, <4>2
      <4>4. QED
        BY <2>2, <4>3
    <3>5. CASE ~(m - 1 < n)
      <4>1. Right(m)
        BY <1>3, <3>1, <3>2, <3>3, <3>5
      <4>2. QED
        BY <2>2, <4>1
    <3>6. QED
      BY <3>4, <3>5
  <2>5. QED
    BY <2>3, <2>4
<1>5. \A k \in 0 .. N : Right(k)
  BY <1>4
<1>6. n <= N
  <2>1. IsFiniteSet(1 .. n) /\ Cardinality(1 .. n) = n
    BY FS_Interval
  <2>2. s \in Injection(1 .. n, Inputs)
    BY DEF Links, Injection, IsInjective
  <2>3. QED
    BY <2>1, <2>2, FS_Injection, InputAssumption
<1>7. Walked[N] = Null
  BY <1>1, <1>5, <1>6
<1>8. \A k \in 0 .. N : Walked[k] # Null => Walked[k] \in On(s, n)
  <2>1. SUFFICES ASSUME NEW k \in 0 .. N, Walked[k] # Null
                 PROVE  Walked[k] \in On(s, n)
    OBVIOUS
  <2>2. k + 1 \in 1 .. n /\ Walked[k] = s[k + 1]
    BY <1>1, <1>5, <2>1
  <2>3. QED
    BY <2>2 DEF On
<1>9. \A k \in 1 .. n : \E j \in 0 .. N : Walked[j] = s[k] /\ s[k] # Null
  <2>1. SUFFICES ASSUME NEW k \in 1 .. n
                 PROVE  \E j \in 0 .. N : Walked[j] = s[k] /\ s[k] # Null
    OBVIOUS
  <2>2. k - 1 \in 0 .. N /\ k - 1 < n /\ (k - 1) + 1 = k
    BY <1>1, <1>6
  <2>3. Walked[k - 1] = s[k]
    BY <1>5, <2>2
  <2>4. QED
    BY <2>2, <2>3, InputAssumption
<1>10. QED
  BY <1>7, <1>8, <1>9 DEF Chain, On

\* InputFindLink finds the one before.
LEMMA LinkFound ==
  ASSUME NEW n \in Nat, NEW s \in [1 .. n -> Inputs], Links(head, prev, s, n),
         NEW d \in 1 .. n, head # s[d]
  PROVE  d # 1 /\ (CHOOSE q \in Chain : prev[q] = s[d]) = s[d - 1]
<1>1. d # 1 /\ d - 1 \in 1 .. n
  BY DEF Links
<1>2. \A k \in 1 .. n : prev[s[k]] = s[d] <=> k = d - 1
  <2>1. SUFFICES ASSUME NEW k \in 1 .. n
                 PROVE  prev[s[k]] = s[d] <=> k = d - 1
    OBVIOUS
  <2>2. prev[s[k]] = IF k = n THEN Null ELSE s[k + 1]
    BY DEF Links
  <2>3. s[d] # Null
    BY InputAssumption
  <2>4. k # n => (s[k + 1] = s[d] <=> k + 1 = d)
    BY DEF Links
  <2>5. QED
    BY <2>2, <2>3, <2>4
<1>3. \A q \in Chain : prev[q] = s[d] <=> q = s[d - 1]
  <2>1. \A q \in Chain : \E k \in 1 .. n : q = s[k]
    BY ChainRead DEF On
  <2>2. \A j, k \in 1 .. n : s[j] = s[k] => j = k
    BY DEF Links
  <2>3. QED
    BY <1>1, <1>2, <2>1, <2>2
<1>4. s[d - 1] \in Chain
  BY <1>1, ChainRead DEF On
<1>5. QED
  BY <1>1, <1>3, <1>4

----------------------------------------------------------------------------
(* Counting *)

LEMMA CountType ==
  ASSUME NEW S, NEW q \in Seq(S), NEW x
  PROVE  IsFiniteSet(Places(q, x)) /\ Count(q, x) \in Nat /\ Count(<<>>, x) = 0
<1>1. IsFiniteSet(1 .. Len(q)) /\ Places(q, x) \subseteq 1 .. Len(q)
  BY FS_Interval DEF Places
<1>2. IsFiniteSet(Places(q, x))
  BY <1>1, FS_Subset
<1>3. Places(<<>>, x) = {}
  BY DEF Places
<1>4. QED
  BY <1>2, <1>3, FS_CardinalityType, FS_EmptySet DEF Count

\* A message is posted, or a callback begins.
LEMMA CountAppended ==
  ASSUME NEW S, NEW q \in Seq(S), NEW y \in S, NEW x
  PROVE  Count(Append(q, y), x) = Count(q, x) + One(y = x)
<1> DEFINE z == Len(q) + 1
<1>1. /\ Len(q) \in Nat /\ Len(Append(q, y)) = z /\ Append(q, y)[z] = y
      /\ \A k \in 1 .. Len(q) : Append(q, y)[k] = q[k]
  OBVIOUS
<1>2. \A k : k \in 1 .. z <=> k \in 1 .. Len(q) \/ k = z
  BY <1>1
<1>3. Places(Append(q, y), x) = IF y = x THEN Places(q, x) \cup {z} ELSE Places(q, x)
  <2> HIDE DEF z
  <2>1. QED
    BY <1>1, <1>2 DEF Places
<1>4. z \notin Places(q, x)
  BY <1>1 DEF Places
<1>5. IsFiniteSet(Places(q, x)) /\ Count(q, x) \in Nat
  BY CountType
<1>6. Cardinality(Places(q, x) \cup {z}) = Count(q, x) + 1
  <2> HIDE DEF z
  <2>1. QED
    BY <1>4, <1>5, FS_AddElement DEF Count
<1> HIDE DEF z
<1>7. QED
  BY <1>3, <1>5, <1>6 DEF Count, One

\* A message is retrieved.
LEMMA CountTail ==
  ASSUME NEW S, NEW q \in Seq(S), q # <<>>, NEW x
  PROVE  /\ Tail(q) \in Seq(S) /\ Head(q) \in S
         /\ Count(q, x) = Count(Tail(q), x) + One(Head(q) = x)
<1>1. /\ Tail(q) \in Seq(S) /\ Head(q) \in S /\ Head(q) = q[1]
      /\ Len(q) \in Nat \ {0} /\ Len(Tail(q)) = Len(q) - 1
      /\ \A k \in 1 .. Len(q) - 1 : Tail(q)[k] = q[k + 1]
  OBVIOUS
<1> DEFINE P == Places(Tail(q), x)
<1> DEFINE R == {k + 1 : k \in P}
<1>2. P \subseteq 1 .. Len(q) - 1
  BY <1>1 DEF Places
<1>3. IsFiniteSet(P) /\ Count(Tail(q), x) = Cardinality(P) /\ Cardinality(P) \in Nat
  BY <1>1, CountType DEF Count
<1>4. IsFiniteSet(R) /\ Cardinality(R) = Cardinality(P)
  <2> DEFINE f == [k \in P |-> k + 1]
  <2>1. f \in Bijection(P, R)
    <3>1. f \in Surjection(P, R)
      BY DEF Surjection
    <3>2. \A j, k \in P : f[j] = f[k] => j = k
      BY <1>2
    <3> HIDE DEF f, P, R
    <3>3. QED
      BY <3>1, <3>2 DEF Bijection, Injection, Surjection, IsInjective
  <2> HIDE DEF f, P, R
  <2>2. QED
    BY <1>3, <2>1, FS_Bijection DEF ExistsBijection
<1>5. Places(q, x) = IF q[1] = x THEN R \cup {1} ELSE R
  <2>1. \A k \in 1 .. Len(q) : k # 1 => k - 1 \in 1 .. Len(q) - 1 /\ Tail(q)[k - 1] = q[k]
    BY <1>1
  <2>2. \A k \in 1 .. Len(q) : k # 1 => (q[k] = x <=> k - 1 \in P)
    BY <1>1, <2>1 DEF Places
  <2>3. \A k : k \in R <=> k \in 1 .. Len(q) /\ k # 1 /\ q[k] = x
    <3>1. \A k \in P : k + 1 \in 1 .. Len(q) /\ k + 1 # 1 /\ (k + 1) - 1 = k
      BY <1>1, <1>2
    <3>2. \A k \in 1 .. Len(q) : (k - 1) + 1 = k
      BY <1>1
    <3> HIDE DEF P
    <3>3. QED
      BY <2>2, <3>1, <3>2
  <2>4. 1 \in 1 .. Len(q)
    BY <1>1
  <2> HIDE DEF R, P
  <2>5. QED
    BY <2>3, <2>4 DEF Places
<1>6. 1 \notin R
  BY <1>2
<1>7. Cardinality(R \cup {1}) = Cardinality(R) + 1
  <2> HIDE DEF R, P
  <2>1. QED
    BY <1>4, <1>6, FS_AddElement
<1> HIDE DEF R, P
<1>8. QED
  BY <1>1, <1>3, <1>4, <1>5, <1>7 DEF Count, One

\* The innermost callback returns.
LEMMA CountFront ==
  ASSUME NEW S, NEW q \in Seq(S), q # <<>>, NEW x
  PROVE  /\ Front(q) \in Seq(S) /\ Last(q) \in S
         /\ Count(q, x) = Count(Front(q), x) + One(Last(q) = x)
<1>1. Len(q) \in Nat \ {0} /\ Last(q) = q[Len(q)] /\ Front(q) = SubSeq(q, 1, Len(q) - 1)
  BY DEF Front, Last
<1>2. /\ Front(q) \in Seq(S) /\ Len(Front(q)) = Len(q) - 1
      /\ \A k \in 1 .. Len(q) - 1 : Front(q)[k] = q[k]
  <2>1. PICK n \in 1 .. Len(q) : n = Len(q)
    BY <1>1
  <2>2. /\ SubSeq(q, 1, n - 1) \in Seq(S) /\ Len(SubSeq(q, 1, n - 1)) = n - 1
        /\ \A j \in 1 .. n - 1 : SubSeq(q, 1, n - 1)[j] = q[j]
    OBVIOUS
  <2>3. QED
    BY <1>1, <2>1, <2>2
<1>3. Count(Append(Front(q), Last(q)), x) = Count(Front(q), x) + One(Last(q) = x)
  <2>1. Last(q) \in S
    BY <1>1
  <2>2. QED
    BY <1>2, <2>1, CountAppended
<1>4. Last(q) \in S
  BY <1>1
<1>5. Append(Front(q), Last(q)) = q
  <2>1. Append(Front(q), Last(q)) \in Seq(S) /\ Len(Append(Front(q), Last(q))) = Len(q)
    BY <1>1, <1>2, <1>4
  <2>2. \A k \in 1 .. Len(q) : Append(Front(q), Last(q))[k] = q[k]
    BY <1>1, <1>2, <1>4
  <2>3. QED
    BY <2>1, <2>2
<1>6. QED
  BY <1>2, <1>3, <1>4, <1>5

----------------------------------------------------------------------------
(* What the actions do to the chain and to the references *)

LEMMA UnlinkedChain ==
  ASSUME Typed, NEW n \in Nat, NEW s \in [1 .. n -> Inputs], Links(head, prev, s, n),
         NEW i \in On(s, n), Unlink(i)
  PROVE  n - 1 \in Nat /\ Without(s, n, i, prev, head', prev')
<1>1. PICK d \in 1 .. n : s[d] = i
  BY DEF On
<1>2. prev \in [Inputs -> Inputs \cup {Null}] /\ n - 1 \in Nat
  BY <1>1 DEF Typed
<1>3. head = i <=> d = 1
  BY <1>1 DEF Links
<1>4. /\ d = 1 => head' = prev[s[d]] /\ prev' = prev
      /\ d # 1 => head' = head /\ prev' = [prev EXCEPT ![s[d - 1]] = prev[s[d]]]
  <2>1. CASE d = 1
    BY <1>1, <1>3, <2>1 DEF Unlink
  <2>2. CASE d # 1
    <3>1. (CHOOSE q \in Chain : prev[q] = i) = s[d - 1]
      BY <1>1, <1>3, <2>2, LinkFound
    <3>2. QED
      BY <1>1, <1>3, <2>2, <3>1 DEF Unlink
  <2>3. QED
    BY <2>1, <2>2
<1>5. Without(s, n, s[d], prev, head', prev')
  BY <1>2, <1>4, Unlinked, Zenon
<1>6. QED
  BY <1>1, <1>2, <1>5

LEMMA LinkedChain ==
  ASSUME Typed, NEW n \in Nat, NEW s \in [1 .. n -> Inputs], Links(head, prev, s, n),
         NEW i \in Inputs \ On(s, n), Link(i)
  PROVE  /\ prev' \in [Inputs -> Inputs \cup {Null}] /\ head' \in Inputs \cup {Null}
         /\ n + 1 \in Nat
         /\ \E t \in [1 .. n + 1 -> Inputs] :
              /\ Links(head', prev', t, n + 1)
              /\ On(t, n + 1) = On(s, n) \cup {i}
              /\ \A q \in On(s, n) \cup {Null} : Ahead(s, n, q) \subseteq Ahead(t, n + 1, q)
<1>1. prev \in [Inputs -> Inputs \cup {Null}] /\ head \in Inputs \cup {Null}
  BY DEF Typed
<1>2. head' = i /\ prev' = [prev EXCEPT ![i] = head]
  BY DEF Link
<1>3. \E t \in [1 .. n + 1 -> Inputs] :
        /\ Links(i, [prev EXCEPT ![i] = head], t, n + 1)
        /\ On(t, n + 1) = On(s, n) \cup {i}
        /\ \A q \in On(s, n) \cup {Null} : Ahead(s, n, q) \subseteq Ahead(t, n + 1, q)
  BY <1>1, Prepended, Zenon
<1>4. QED
  BY <1>1, <1>2, <1>3

\* Each of the references that are owed.
LEMMA OwedParts ==
  ASSUME Typed, NEW i \in Inputs
  PROVE  /\ Count(ending, i) \in Nat /\ Count(queue, EndOf(i)) \in Nat
         /\ Known(i) \in {0, 1} /\ Going(i) \in {0, 1} /\ Awaited(i) \in {0, 1}
         /\ Owed(i) \in Nat /\ refs[i] \in Int
         /\ Owed(i) <= 0 => /\ i \notin held /\ Count(queue, EndOf(i)) = 0
                            /\ ~progress[i] /\ main.input # i
         /\ progress[i] \/ main.input = i \/ Count(queue, EndOf(i)) >= 1 => Owed(i) >= 1
<1>1. Count(ending, i) \in Nat /\ Count(queue, EndOf(i)) \in Nat
  BY CountType DEF Typed
<1>2. QED
  BY <1>1 DEF Owed, Known, Going, Awaited, One, Typed

\* The messages.
LEMMA MessageFacts ==
  ASSUME NEW i \in Inputs, NEW j \in Inputs
  PROVE  /\ EndOf(i) \in Messages /\ NotifyOf(i) \in Messages
         /\ EndOf(i) # NotifyOf(j) /\ (EndOf(i) = EndOf(j) <=> i = j)
BY DEF EndOf, NotifyOf, Messages

\* Nothing is kept alive for an object without references.
LEMMA Referenced ==
  ASSUME Typed, NEW n \in Nat, NEW s \in [1 .. n -> Inputs], Sound(s, n), NEW i \in On(s, n)
  PROVE  i \in Inputs /\ refs[i] > 0
<1>1. i \in Inputs
  BY DEF On
<1>2. progress[i] \/ Count(queue, EndOf(i)) >= 1
  BY DEF Sound, Announced
<1>3. refs[i] >= Owed(i) /\ Owed(i) >= 1 /\ Owed(i) \in Nat /\ refs[i] \in Int
  BY <1>1, <1>2, OwedParts DEF Sound, Accounted
<1>4. QED
  BY <1>1, <1>3

\* With no input waiting for it, the hook thread is on the chain.
LEMMA HookOnChain ==
  ASSUME Typed, NEW n \in Nat, NEW s \in [1 .. n -> Inputs], Sound(s, n),
         main = Script \/ ~hook.old
  PROVE  OnChain(On(s, n)) /\ Standing(On(s, n)) = hook.at
<1>1. CASE main = Script
  <2>1. main.input = Null
    BY <1>1 DEF Script
  <2>2. QED
    BY <2>1 DEF Sound, Walking, OnChain, Standing
<1>2. CASE ~hook.old
  BY <1>2 DEF Sound, Walking, OnChain, Standing
<1>3. QED
  BY <1>1, <1>2

----------------------------------------------------------------------------
(* The script *)

LEMMA NewKeeps ==
  ASSUME Typed, NEW n \in Nat, NEW s \in [1 .. n -> Inputs], Sound(s, n),
         NEW i \in Inputs, New(i)
  PROVE  Typed' /\ Sound(s, n)'
<1>1. /\ main = Script /\ refs[i] = 0
      /\ refs' = [refs EXCEPT ![i] = 1] /\ held' = held \cup {i}
      /\ prev' = [prev EXCEPT ![i] = Null] /\ progress' = [progress EXCEPT ![i] = FALSE]
      /\ UNCHANGED <<head, queue, main, ending, hook, installed, due, twice>>
  BY DEF New
<1>2. i \notin On(s, n)
  BY <1>1, Referenced
<1>3. Owed(i) <= 0 /\ i \notin held /\ Count(queue, EndOf(i)) = 0 /\ ~progress[i]
  BY <1>1, OwedParts DEF Sound, Accounted
<1>4. Typed'
  BY <1>1 DEF Typed
<1>5. \A k \in On(s, n) : k \in Inputs /\ prev'[k] = prev[k] /\ progress'[k] = progress[k]
  <2>1. On(s, n) \subseteq Inputs
    BY DEF On
  <2>2. QED
    BY <1>1, <1>2, <2>1 DEF Typed
<1>6. Links(head, prev, s, n)'
  <2>1. \A k \in 1 .. n : s[k] \in On(s, n)
    BY DEF On
  <2>2. QED
    BY <1>1, <1>5, <2>1 DEF Sound, Links
<1>7. Active(On(s, n))' /\ Announced(On(s, n))' /\ Waiting(On(s, n))'
  <2>1. \A k \in Inputs : progress'[k] => progress[k]
    BY <1>1, <1>3 DEF Typed
  <2>2. QED
    BY <1>1, <1>5, <2>1 DEF Sound, Active, Announced, Waiting, Script
<1>8. Accounted'
  <2>1. SUFFICES ASSUME NEW k \in Inputs PROVE refs'[k] >= Owed(k)'
    BY DEF Accounted
  <2>2. refs[k] >= Owed(k) /\ refs[k] \in Int /\ Owed(k) \in Nat
    BY OwedParts DEF Sound, Accounted
  <2>3. Count(ending, k) \in Nat /\ Count(queue, EndOf(k)) \in Nat
    BY OwedParts
  <2>4. CASE k = i
    BY <1>1, <1>3, <2>2, <2>3, <2>4 DEF Owed, Known, Going, Awaited, One, Typed
  <2>5. CASE k # i
    BY <1>1, <2>2, <2>3, <2>5 DEF Owed, Known, Going, Awaited, One, Typed
  <2>6. QED
    BY <2>4, <2>5
<1>9. Walking(s, n)'
  <2>1. OnChain(On(s, n)) /\ Standing(On(s, n)) = hook.at
    BY <1>1, HookOnChain
  <2>2. OnChain(On(s, n))' /\ Standing(On(s, n))' = hook.at
    BY <1>1, <2>1 DEF OnChain, Standing
  <2>3. \A k \in due : progress[k] => progress'[k]
    BY <1>1, <1>3 DEF Typed, Sound, Walking
  <2>4. QED
    BY <1>1, <2>1, <2>2, <2>3 DEF Sound, Walking
<1>10. QED
  BY <1>4, <1>6, <1>7, <1>8, <1>9 DEF Sound

\* What a step that leaves the chain and the hook thread alone has to show.
LEMMA StillWalking ==
  ASSUME Typed, NEW n \in Nat, NEW s \in [1 .. n -> Inputs], Sound(s, n),
         UNCHANGED <<head, prev, progress, hook, installed, due>>,
         hook.old => main'.input = main.input
  PROVE  Links(head, prev, s, n)' /\ Active(On(s, n))' /\ Walking(s, n)'
BY DEF Sound, Links, Active, Walking, OnChain, Standing

LEMMA DiscardKeeps ==
  ASSUME Typed, NEW n \in Nat, NEW s \in [1 .. n -> Inputs], Sound(s, n),
         NEW i \in Inputs, Discard(i)
  PROVE  Typed' /\ Sound(s, n)'
<1>1. /\ i \in held /\ held' = held \ {i} /\ refs' = [refs EXCEPT ![i] = @ - 1]
      /\ UNCHANGED <<head, prev, progress, queue, main, ending, hook, installed, due, twice>>
  BY DEF Discard
<1>2. Typed'
  BY <1>1 DEF Typed
<1>3. Links(head, prev, s, n)' /\ Active(On(s, n))' /\ Walking(s, n)'
  BY <1>1, StillWalking
<1>4. Announced(On(s, n))' /\ Waiting(On(s, n))'
  BY <1>1 DEF Sound, Announced, Waiting
<1>5. Accounted'
  <2>1. SUFFICES ASSUME NEW k \in Inputs PROVE refs'[k] >= Owed(k)'
    BY DEF Accounted
  <2>2. refs[k] >= Owed(k) /\ refs[k] \in Int
    BY OwedParts DEF Sound, Accounted
  <2>3. Count(ending, k) \in Nat /\ Count(queue, EndOf(k)) \in Nat
    BY OwedParts
  <2>4. QED
    BY <1>1, <2>2, <2>3 DEF Owed, Known, Going, Awaited, One, Typed
<1>6. QED
  BY <1>2, <1>3, <1>4, <1>5 DEF Sound

\* An input that is not in progress is taken off the chain, while the main thread
\* waits for the hook.
LEMMA TakenOff ==
  ASSUME Typed, NEW n \in Nat, NEW s \in [1 .. n -> Inputs], Sound(s, n),
         NEW i \in On(s, n), ~progress[i], main = Script, Unlink(i), hook' = HookMarked,
         main'.input = i, main'.pc # "script", UNCHANGED <<progress, installed, due>>
  PROVE  /\ n - 1 \in Nat /\ i \in Inputs
         /\ prev' \in [Inputs -> Inputs \cup {Null}] /\ head' \in Inputs \cup {Null}
         /\ \E t \in [1 .. n - 1 -> Inputs] :
              /\ On(t, n - 1) = On(s, n) \ {i}
              /\ Links(head', prev', t, n - 1) /\ Active(On(t, n - 1))'
              /\ Waiting(On(t, n - 1))' /\ Walking(t, n - 1)'
<1>1. Links(head, prev, s, n)
  BY DEF Sound
<1>2. /\ n - 1 \in Nat /\ i \in Inputs /\ prev'[i] = prev[i]
      /\ prev' \in [Inputs -> Inputs \cup {Null}] /\ head' \in Inputs \cup {Null}
  BY <1>1, UnlinkedChain DEF Without, On
<1>3. PICK t \in [1 .. n - 1 -> Inputs] :
        /\ Links(head', prev', t, n - 1)
        /\ On(t, n - 1) = On(s, n) \ {i}
        /\ \A q : q # i => Ahead(s, n, q) \ {i} \subseteq Ahead(t, n - 1, q)
  BY <1>1, UnlinkedChain DEF Without
<1>4. Active(On(t, n - 1))' /\ Waiting(On(t, n - 1))'
  BY <1>2, <1>3 DEF Sound, Active, Waiting
<1>5. hook'.pass = hook.pass /\ hook'.at = hook.at /\ hook'.saw = hook.saw
      /\ hook'.old = (hook.pass # 0)
  BY DEF HookMarked, Typed
<1>6. OnChain(On(s, n)) /\ Standing(On(s, n)) = hook.at
  BY HookOnChain
<1>7. /\ prev[i] \in (On(s, n) \ {i}) \cup {Null}
      /\ Ahead(s, n, i) = {i} \cup Ahead(s, n, prev[i])
  BY <1>1, WalkLinks
<1>8. Walking(t, n - 1)'
  <2>1. /\ hook'.at # Null => hook'.pass # 0
        /\ hook'.saw => hook'.at # Null
    BY <1>5 DEF Sound, Walking
  <2>2. \/ OnChain(On(t, n - 1))'
        \/ hook'.old /\ hook'.at = main'.input /\ prev'[hook'.at] \in On(t, n - 1) \cup {Null}
    BY <1>2, <1>3, <1>5, <1>6, <1>7, <2>1 DEF OnChain
  <2>3. hook.at # i => Standing(On(t, n - 1))' = hook.at
    BY <1>3, <1>5, <1>6 DEF Standing, OnChain
  <2>4. hook.at = i => Standing(On(t, n - 1))' = prev[i]
    BY <1>2, <1>3, <1>5, InputAssumption DEF Standing, OnChain
  <2>5. ASSUME hook.pass = 2, NEW k \in due
        PROVE  progress[k] /\ k # i /\ k \in Ahead(t, n - 1, Standing(On(t, n - 1))')
    <3>1. progress[k] /\ k # i /\ k \in Ahead(s, n, hook.at)
      BY <1>6, <2>5 DEF Sound, Walking
    <3>2. CASE hook.at # i
      BY <1>3, <2>3, <3>1, <3>2
    <3>3. CASE hook.at = i
      <4>1. k \in Ahead(s, n, prev[i]) /\ prev[i] # i
        BY <1>2, <1>7, <3>1, <3>3, InputAssumption
      <4>2. QED
        BY <1>3, <2>4, <3>1, <3>3, <4>1
    <3>4. QED
      BY <3>2, <3>3
  <2>6. hook.pass = 2 => (hook.saw => hook.at \notin due)
    BY DEF Sound, Walking
  <2>7. QED
    BY <1>5, <2>1, <2>2, <2>5, <2>6 DEF Walking
<1>9. QED
  BY <1>2, <1>3, <1>4, <1>8

\* An input is put on the chain, while the hook thread is on it.
LEMMA PutOn ==
  ASSUME Typed, NEW n \in Nat, NEW s \in [1 .. n -> Inputs], Sound(s, n),
         NEW i \in Inputs \ On(s, n), Link(i), OnChain(On(s, n)),
         main' = Script, UNCHANGED <<hook, due>>
  PROVE  /\ n + 1 \in Nat
         /\ prev' \in [Inputs -> Inputs \cup {Null}] /\ head' \in Inputs \cup {Null}
         /\ \E t \in [1 .. n + 1 -> Inputs] :
              /\ On(t, n + 1) = On(s, n) \cup {i}
              /\ Links(head', prev', t, n + 1) /\ Active(On(t, n + 1))'
              /\ Waiting(On(t, n + 1))' /\ Walking(t, n + 1)'
<1>1. Links(head, prev, s, n)
  BY DEF Sound
<1>2. progress' = [progress EXCEPT ![i] = TRUE] /\ installed'
  BY DEF Link
<1>3. /\ n + 1 \in Nat
      /\ prev' \in [Inputs -> Inputs \cup {Null}] /\ head' \in Inputs \cup {Null}
  BY <1>1, LinkedChain
<1>4. PICK t \in [1 .. n + 1 -> Inputs] :
        /\ Links(head', prev', t, n + 1)
        /\ On(t, n + 1) = On(s, n) \cup {i}
        /\ \A q \in On(s, n) \cup {Null} : Ahead(s, n, q) \subseteq Ahead(t, n + 1, q)
  BY <1>1, LinkedChain
<1>5. \A k \in Inputs : progress'[k] <=> progress[k] \/ k = i
  BY <1>2 DEF Typed
<1>6. Active(On(t, n + 1))' /\ Waiting(On(t, n + 1))'
  BY <1>2, <1>4, <1>5 DEF Sound, Active, Waiting, Script
<1>7. Standing(On(s, n)) = hook.at
  BY DEF Standing
<1>8. OnChain(On(t, n + 1))' /\ Standing(On(t, n + 1))' = hook.at
  BY <1>4 DEF OnChain, Standing
<1>9. ASSUME hook.pass = 2, NEW k \in due
      PROVE  progress'[k] /\ k \in Ahead(t, n + 1, hook.at)
  <2>1. progress[k] /\ k \in Ahead(s, n, hook.at) /\ k \in Inputs
    BY <1>7, <1>9 DEF Sound, Walking, Typed
  <2>2. QED
    BY <1>4, <1>5, <2>1 DEF OnChain
<1>10. Walking(t, n + 1)'
  BY <1>8, <1>9 DEF Sound, Walking
<1>11. QED
  BY <1>3, <1>4, <1>6, <1>10

LEMMA StartKeeps ==
  ASSUME Typed, NEW n \in Nat, NEW s \in [1 .. n -> Inputs], Sound(s, n),
         NEW i \in Inputs, Start(i)
  PROVE  Typed' /\ \E m \in Nat : \E t \in [1 .. m -> Inputs] : Sound(t, m)'
<1>1. /\ main = Script /\ ~progress[i] /\ refs' = [refs EXCEPT ![i] = @ + 1]
      /\ UNCHANGED <<held, queue, ending, due, twice>>
  BY DEF Start
<1>2. Chain = On(s, n)
  BY ChainRead DEF Sound
<1>3. ASSUME NEW k \in Inputs, Owed(k)' <= Owed(k) + One(k = i)
      PROVE  refs'[k] >= Owed(k)'
  <2>1. /\ refs[k] >= Owed(k) /\ refs[k] \in Int /\ Owed(k) \in Int
        /\ Count(ending, k) \in Nat /\ Count(queue, EndOf(k)) \in Nat
    BY OwedParts DEF Sound, Accounted
  <2>2. Owed(k)' \in Int
    BY <1>1, <2>1 DEF Owed, Known, Going, Awaited, One
  <2>3. QED
    BY <1>1, <1>3, <2>1, <2>2 DEF One, Typed
<1>4. CASE i \in Chain
  <2>1. /\ Unlink(i) /\ hook' = HookMarked /\ main' = [pc |-> "restarting", input |-> i]
        /\ UNCHANGED <<progress, installed>>
    BY <1>4 DEF Start
  <2>2. main'.input = i /\ main'.pc # "script"
    BY <2>1
  <2>3. /\ n - 1 \in Nat
        /\ prev' \in [Inputs -> Inputs \cup {Null}] /\ head' \in Inputs \cup {Null}
    BY <1>1, <1>2, <1>4, <2>1, <2>2, TakenOff
  <2>4. PICK t \in [1 .. n - 1 -> Inputs] :
          /\ On(t, n - 1) = On(s, n) \ {i}
          /\ Links(head', prev', t, n - 1) /\ Active(On(t, n - 1))'
          /\ Waiting(On(t, n - 1))' /\ Walking(t, n - 1)'
    BY <1>1, <1>2, <1>4, <2>1, <2>2, TakenOff
  <2>5. Typed'
    <3>1. hook' \in [pass : {0, 1, 2}, at : Inputs \cup {Null}, saw : BOOLEAN, old : BOOLEAN]
      BY <2>1 DEF Typed, HookMarked
    <3>2. main' \in [pc : {"script", "restarting", "releasing"}, input : Inputs \cup {Null}]
      BY <2>1
    <3>3. refs' \in [Inputs -> Int]
      BY <1>1 DEF Typed
    <3>4. QED
      BY <1>1, <2>1, <2>3, <3>1, <3>2, <3>3 DEF Typed
  <2>6. Announced(On(t, n - 1))'
    BY <1>1, <2>1, <2>4 DEF Sound, Announced
  <2>7. Accounted'
    <3>1. SUFFICES ASSUME NEW k \in Inputs PROVE Owed(k)' <= Owed(k) + One(k = i)
      BY <1>3 DEF Accounted
    <3>2. Count(ending, k) \in Nat /\ Count(queue, EndOf(k)) \in Nat /\ main.input # k
      BY <1>1, OwedParts, InputAssumption DEF Script
    <3>3. QED
      BY <1>1, <2>1, <2>2, <3>2 DEF Owed, Known, Going, Awaited, One
  <2>8. QED
    BY <2>3, <2>4, <2>5, <2>6, <2>7 DEF Sound
<1>5. CASE i \notin Chain
  <2>1. Link(i) /\ UNCHANGED <<hook, main>>
    BY <1>5 DEF Start
  <2>2. OnChain(On(s, n))
    BY <1>1, HookOnChain
  <2>3. /\ n + 1 \in Nat
        /\ prev' \in [Inputs -> Inputs \cup {Null}] /\ head' \in Inputs \cup {Null}
    BY <1>1, <1>2, <1>5, <2>1, <2>2, PutOn
  <2>4. PICK t \in [1 .. n + 1 -> Inputs] :
          /\ On(t, n + 1) = On(s, n) \cup {i}
          /\ Links(head', prev', t, n + 1) /\ Active(On(t, n + 1))'
          /\ Waiting(On(t, n + 1))' /\ Walking(t, n + 1)'
    BY <1>1, <1>2, <1>5, <2>1, <2>2, PutOn
  <2>5. progress' = [progress EXCEPT ![i] = TRUE] /\ installed'  = TRUE
    BY <2>1 DEF Link
  <2>6. Typed'
    BY <1>1, <2>1, <2>3, <2>5 DEF Typed
  <2>7. \A k \in Inputs : progress'[k] <=> k = i \/ progress[k]
    BY <2>5 DEF Typed
  <2>8. Announced(On(t, n + 1))'
    <3>1. On(t, n + 1) \subseteq Inputs
      BY DEF On
    <3>2. QED
      BY <1>1, <2>4, <2>7, <3>1 DEF Sound, Announced
  <2>9. Accounted'
    <3>1. SUFFICES ASSUME NEW k \in Inputs PROVE Owed(k)' <= Owed(k) + One(k = i)
      BY <1>3 DEF Accounted
    <3>2. Count(ending, k) \in Nat /\ Count(queue, EndOf(k)) \in Nat
      BY OwedParts
    <3>3. QED
      BY <1>1, <2>1, <2>7, <3>2 DEF Owed, Known, Going, Awaited, One
  <2>10. QED
    BY <2>3, <2>4, <2>6, <2>8, <2>9 DEF Sound
<1>6. QED
  BY <1>4, <1>5

LEMMA RestartKeeps ==
  ASSUME Typed, NEW n \in Nat, NEW s \in [1 .. n -> Inputs], Sound(s, n), Restart
  PROVE  Typed' /\ \E m \in Nat : \E t \in [1 .. m -> Inputs] : Sound(t, m)'
<1>1. PICK i : i = main.input
  OBVIOUS
<1>2. /\ main.pc = "restarting" /\ ~hook.old /\ Link(i) /\ main' = Script
      /\ UNCHANGED <<refs, held, queue, ending, hook, due, twice>>
  BY <1>1 DEF Restart, HookIsIdle
<1>3. i \in Inputs \ On(s, n)
  BY <1>1, <1>2 DEF Sound, Waiting
<1>4. OnChain(On(s, n))
  BY <1>2, HookOnChain
<1>5. /\ n + 1 \in Nat
      /\ prev' \in [Inputs -> Inputs \cup {Null}] /\ head' \in Inputs \cup {Null}
  BY <1>2, <1>3, <1>4, PutOn
<1>6. PICK t \in [1 .. n + 1 -> Inputs] :
        /\ On(t, n + 1) = On(s, n) \cup {i}
        /\ Links(head', prev', t, n + 1) /\ Active(On(t, n + 1))'
        /\ Waiting(On(t, n + 1))' /\ Walking(t, n + 1)'
  BY <1>2, <1>3, <1>4, PutOn
<1>7. progress' = [progress EXCEPT ![i] = TRUE] /\ installed' = TRUE
  BY <1>2 DEF Link
<1>8. Typed'
  BY <1>2, <1>5, <1>7 DEF Typed, Script
<1>9. \A k \in Inputs : progress'[k] <=> k = i \/ progress[k]
  BY <1>7 DEF Typed
<1>10. Announced(On(t, n + 1))'
  <2>1. On(t, n + 1) \subseteq Inputs
    BY DEF On
  <2>2. QED
    BY <1>2, <1>6, <1>9, <2>1 DEF Sound, Announced
<1>11. Accounted'
  <2>1. SUFFICES ASSUME NEW k \in Inputs PROVE refs'[k] >= Owed(k)'
    BY DEF Accounted
  <2>2. refs[k] >= Owed(k) /\ refs[k] \in Int /\ Owed(k) \in Nat
    BY OwedParts DEF Sound, Accounted
  <2>3. Count(ending, k) \in Nat /\ Count(queue, EndOf(k)) \in Nat
    BY OwedParts
  <2>4. main'.input # k
    BY <1>2, InputAssumption DEF Script
  <2>5. Owed(k)' <= Owed(k) /\ Owed(k)' \in Int
    BY <1>1, <1>2, <1>9, <2>3, <2>4 DEF Owed, Known, Going, Awaited, One
  <2>6. QED
    BY <1>2, <2>2, <2>5
<1>12. QED
  BY <1>5, <1>6, <1>8, <1>10, <1>11 DEF Sound

\* EndByReason: what was owed to the progress is owed to the message.
LEMMA EndedByMainKeeps ==
  ASSUME Typed, NEW n \in Nat, NEW s \in [1 .. n -> Inputs], Sound(s, n),
         NEW i \in Inputs, EndedByMain(i)
  PROVE  Typed' /\ Sound(s, n)'
<1>1. /\ progress[i] /\ progress' = [progress EXCEPT ![i] = FALSE]
      /\ queue' = Append(queue, EndOf(i)) /\ due' = due \ {i}
      /\ UNCHANGED <<head, prev, refs, held, main, ending, hook, installed, twice>>
  BY DEF EndedByMain
<1>2. \A k \in Inputs : Count(queue, EndOf(k))' = Count(queue, EndOf(k)) + One(k = i)
  <2>1. \A k \in Inputs : Count(queue', EndOf(k)) = Count(queue, EndOf(k)) + One(EndOf(i) = EndOf(k))
    BY <1>1, CountAppended, MessageFacts DEF Typed
  <2>2. QED
    BY <2>1, MessageFacts DEF Count, Places
<1>3. \A k \in Inputs : progress'[k] <=> k # i /\ progress[k]
  BY <1>1 DEF Typed
<1>4. \A k \in Inputs : Count(ending, k) \in Nat /\ Count(queue, EndOf(k)) \in Nat
  BY OwedParts
<1>5. Typed'
  <2>1. queue' \in Seq(Messages)
    BY <1>1, MessageFacts DEF Typed
  <2>2. QED
    BY <1>1, <2>1 DEF Typed
<1>6. Links(head, prev, s, n)' /\ Active(On(s, n))' /\ Waiting(On(s, n))'
  BY <1>1, <1>3 DEF Sound, Links, Active, Waiting
<1>7. Announced(On(s, n))'
  <2>1. On(s, n) \subseteq Inputs
    BY DEF On
  <2>2. QED
    BY <1>2, <1>3, <1>4, <2>1 DEF Sound, Announced, One
<1>8. Accounted'
  <2>1. SUFFICES ASSUME NEW k \in Inputs PROVE refs'[k] >= Owed(k)'
    BY DEF Accounted
  <2>2. Owed(k)' = Owed(k)
    <3>1. Count(ending, k)' = Count(ending, k)
      BY <1>1 DEF Count, Places
    <3>2. Known(k)' = Known(k) /\ Awaited(k)' = Awaited(k)
      BY <1>1 DEF Known, Awaited
    <3>3. Going(k) = Going(k)' + One(k = i)
      BY <1>1, <1>3 DEF Going, One
    <3>4. Known(k) \in Nat /\ Awaited(k) \in Nat /\ Going(k)' \in Nat /\ One(k = i) \in Nat
      BY DEF Known, Awaited, Going, One
    <3>5. QED
      BY <1>2, <1>4, <3>1, <3>2, <3>3, <3>4 DEF Owed
  <2>3. QED
    BY <1>1, <2>2 DEF Sound, Accounted
<1>9. Walking(s, n)'
  <2>1. OnChain(On(s, n))' = OnChain(On(s, n)) /\ Standing(On(s, n))' = Standing(On(s, n))
    BY <1>1 DEF OnChain, Standing
  <2>2. \A k \in due' : k \in due /\ k # i /\ k \in Inputs
    BY <1>1 DEF Typed
  <2>3. QED
    BY <1>1, <1>3, <2>1, <2>2 DEF Sound, Walking
<1>10. QED
  BY <1>5, <1>6, <1>7, <1>8, <1>9 DEF Sound

----------------------------------------------------------------------------
(* The message pump *)

\* A message that ends i is retrieved: its reference goes to OnEnd or is given up.
LEMMA EndTaken ==
  ASSUME Typed, NEW i \in Inputs, queue # <<>>, Head(queue) = EndOf(i), queue' = Tail(queue)
  PROVE  /\ queue' \in Seq(Messages)
         /\ \A k \in Inputs : Count(queue, EndOf(k)) = Count(queue, EndOf(k))' + One(k = i)
<1>1. queue \in Seq(Messages)
  BY DEF Typed
<1>2. Tail(queue) \in Seq(Messages)
  BY <1>1, CountTail
<1>3. \A k \in Inputs : Count(queue, EndOf(k)) = Count(Tail(queue), EndOf(k)) + One(EndOf(i) = EndOf(k))
  BY <1>1, CountTail
<1>4. \A k \in Inputs : Count(queue, EndOf(k))' = Count(Tail(queue), EndOf(k))
  BY DEF Count, Places, EndOf
<1>5. QED
  BY <1>2, <1>3, <1>4, MessageFacts

\* OnEnd takes over the reference of i, or it is given up.
LEMMA CompletedOwed ==
  ASSUME Typed, NEW i \in Inputs, Completed(i)
  PROVE  /\ ending' \in Seq(Inputs) /\ refs' \in [Inputs -> Int]
         /\ \A k \in Inputs :
              /\ Count(ending, k)' \in Nat
              /\ refs'[k] - refs[k] = Count(ending, k)' - Count(ending, k) - One(k = i)
<1>1. refs \in [Inputs -> Int] /\ ending \in Seq(Inputs)
  BY DEF Typed
<1>2. \A k \in Inputs : refs[k] \in Int /\ Count(ending, k) \in Nat
  BY <1>1, CountType
<1>3. CASE ending' = Append(ending, i) /\ UNCHANGED refs
  <2>1. ending' \in Seq(Inputs)
    BY <1>1, <1>3
  <2>2. \A k \in Inputs : Count(ending', k) \in Nat /\ Count(ending', k) = Count(ending, k) + One(i = k)
    <3>1. \A k \in Inputs : Count(ending', k) \in Nat
      BY <2>1, CountType
    <3>2. \A k \in Inputs : Count(Append(ending, i), k) = Count(ending, k) + One(i = k)
      BY <1>1, CountAppended
    <3>3. QED
      BY <1>3, <3>1, <3>2
  <2>3. \A k \in Inputs : Count(ending, k)' = Count(ending', k)
    BY DEF Count, Places
  <2>4. SUFFICES ASSUME NEW k \in Inputs
                 PROVE  /\ Count(ending, k)' \in Nat
                        /\ refs'[k] - refs[k] = Count(ending, k)' - Count(ending, k) - One(k = i)
    BY <1>1, <1>3, <2>1
  <2>5. /\ refs'[k] = refs[k] /\ refs[k] \in Int /\ Count(ending, k) \in Nat
        /\ One(i = k) \in {0, 1} /\ One(k = i) = One(i = k)
    BY <1>2, <1>3 DEF One
  <2>6. QED
    BY <2>2, <2>3, <2>5
<1>4. CASE Released(i) /\ UNCHANGED ending
  <2>1. \A k \in Inputs : refs'[k] = refs[k] - One(k = i)
    BY <1>1, <1>2, <1>4 DEF Released, One
  <2>2. \A k \in Inputs : Count(ending, k)' = Count(ending, k)
    BY <1>4 DEF Count, Places
  <2>3. refs' \in [Inputs -> Int]
    BY <1>1, <1>4 DEF Released
  <2>4. QED
    BY <1>1, <1>2, <1>4, <2>1, <2>2, <2>3 DEF One
<1>5. QED
  BY <1>3, <1>4 DEF Completed

LEMMA TakeEndKeeps ==
  ASSUME Typed, NEW n \in Nat, NEW s \in [1 .. n -> Inputs], Sound(s, n), TakeEnd
  PROVE  Typed' /\ \E m \in Nat : \E t \in [1 .. m -> Inputs] : Sound(t, m)'
<1>1. PICK i : i = Head(queue).input
  OBVIOUS
<1>2. /\ main = Script /\ queue # <<>> /\ Head(queue).type = "end" /\ queue' = Tail(queue)
      /\ UNCHANGED <<progress, held, due, twice>>
  BY DEF TakeEnd
<1>3. i \in Inputs /\ Head(queue) = EndOf(i)
  <2>1. Head(queue) \in Messages
    BY <1>2, CountTail DEF Typed
  <2>2. QED
    BY <1>1, <1>2, <2>1 DEF Messages, EndOf
<1>4. /\ queue' \in Seq(Messages)
      /\ \A k \in Inputs : Count(queue, EndOf(k)) = Count(queue, EndOf(k))' + One(k = i)
  BY <1>2, <1>3, EndTaken
<1>5. \A k \in Inputs : /\ refs[k] >= Owed(k) /\ refs[k] \in Int /\ Owed(k) \in Nat
                        /\ Count(ending, k) \in Nat /\ Count(queue, EndOf(k)) \in Nat
                        /\ Count(queue, EndOf(k))' \in Nat
  <2>1. \A k \in Inputs : Count(queue', EndOf(k)) \in Nat
    BY <1>4, CountType
  <2>2. \A k \in Inputs : Count(queue, EndOf(k))' = Count(queue', EndOf(k))
    BY DEF Count, Places, EndOf
  <2>3. QED
    BY <2>1, <2>2, OwedParts DEF Sound, Accounted
<1>6. Chain = On(s, n) /\ On(s, n) \subseteq Inputs
  BY ChainRead DEF Sound, On
<1>7. CASE i \notin Chain
  <2>1. UNCHANGED <<head, prev, refs, main, ending, hook, installed>>
    BY <1>1, <1>7 DEF TakeEnd
  <2>2. Typed'
    BY <1>2, <1>4, <2>1 DEF Typed
  <2>3. Links(head, prev, s, n)' /\ Active(On(s, n))' /\ Walking(s, n)'
    BY <1>2, <2>1, StillWalking
  <2>4. Waiting(On(s, n))'
    BY <2>1 DEF Sound, Waiting
  <2>5. Announced(On(s, n))'
    <3>1. \A k \in On(s, n) : k # i => Count(queue, EndOf(k))' = Count(queue, EndOf(k))
      BY <1>4, <1>5, <1>6 DEF One
    <3>2. QED
      BY <1>2, <1>6, <1>7, <3>1 DEF Sound, Announced
  <2>6. Accounted'
    <3>1. SUFFICES ASSUME NEW k \in Inputs PROVE refs'[k] >= Owed(k)'
      BY DEF Accounted
    <3>2. Owed(k)' <= Owed(k) /\ Owed(k)' \in Int
      <4>1. Count(ending, k)' = Count(ending, k)
        BY <2>1 DEF Count, Places
      <4>2. Count(queue, EndOf(k))' <= Count(queue, EndOf(k))
        <5>1. One(k = i) \in {0, 1}
          BY DEF One
        <5>2. QED
          BY <1>4, <1>5, <5>1
      <4>3. Known(k)' = Known(k) /\ Going(k)' = Going(k) /\ Awaited(k)' = Awaited(k)
        BY <1>2, <2>1 DEF Known, Going, Awaited
      <4>4. QED
        BY <1>5, <4>1, <4>2, <4>3, OwedParts, SMTT(30) DEF Owed
    <3>3. QED
      BY <1>5, <2>1, <3>2
  <2>7. QED
    BY <2>2, <2>3, <2>4, <2>5, <2>6 DEF Sound
<1>8. CASE i \in Chain /\ progress[i]
  <2>1. Completed(i) /\ UNCHANGED <<head, prev, main, hook, installed>>
    BY <1>1, <1>8 DEF TakeEnd
  <2>2. /\ ending' \in Seq(Inputs) /\ refs' \in [Inputs -> Int]
        /\ \A k \in Inputs :
             /\ Count(ending, k)' \in Nat
             /\ refs'[k] - refs[k] = Count(ending, k)' - Count(ending, k) - One(k = i)
    BY <1>3, <2>1, CompletedOwed
  <2>3. Typed'
    BY <1>2, <1>4, <2>1, <2>2 DEF Typed
  <2>4. Links(head, prev, s, n)' /\ Active(On(s, n))' /\ Walking(s, n)'
    BY <1>2, <2>1, StillWalking
  <2>5. Waiting(On(s, n))'
    BY <2>1 DEF Sound, Waiting
  <2>6. Announced(On(s, n))'
    <3>1. \A k \in On(s, n) : k # i => Count(queue, EndOf(k))' = Count(queue, EndOf(k))
      BY <1>4, <1>5, <1>6 DEF One
    <3>2. QED
      BY <1>2, <1>6, <1>8, <3>1 DEF Sound, Announced
  <2>7. Accounted'
    <3>1. SUFFICES ASSUME NEW k \in Inputs PROVE refs'[k] >= Owed(k)'
      BY DEF Accounted
    <3>2. Owed(k)' - Owed(k) = Count(ending, k)' - Count(ending, k) - One(k = i) /\ Owed(k)' \in Int
      <4>1. Count(queue, EndOf(k))' = Count(queue, EndOf(k)) - One(k = i)
        BY <1>4, <1>5 DEF One
      <4>2. QED
        <5>1. Known(k)' = Known(k) /\ Going(k)' = Going(k) /\ Awaited(k)' = Awaited(k)
          BY <1>2, <2>1 DEF Known, Going, Awaited
        <5>2. /\ Known(k) \in {0, 1} /\ Going(k) \in {0, 1} /\ Awaited(k) \in {0, 1}
              /\ One(k = i) \in {0, 1} /\ Count(ending, k)' \in Nat
              /\ Count(ending, k) \in Nat /\ Count(queue, EndOf(k)) \in Nat
              /\ Count(queue, EndOf(k))' \in Nat
          BY <1>5, <2>2, OwedParts DEF One
        <5>3. /\ Owed(k)' \in Int
              /\ Owed(k)' - Owed(k) = (Count(ending, k)' - Count(ending, k))
                                       + (Count(queue, EndOf(k))' - Count(queue, EndOf(k)))
          BY <5>1, <5>2, SMTT(30) DEF Owed
        <5>4. QED
          BY <4>1, <5>2, <5>3
    <3>3. refs'[k] \in Int /\ Count(ending, k)' \in Nat
      BY <2>2
    <3>4. refs'[k] - refs[k] = Owed(k)' - Owed(k)
      BY <2>2, <3>2
    <3>5. QED
      BY <1>5, <3>2, <3>3, <3>4
  <2>8. QED
    BY <2>3, <2>4, <2>5, <2>6, <2>7 DEF Sound
<1>9. CASE i \in Chain /\ ~progress[i]
  <2>1. /\ Unlink(i) /\ hook' = HookMarked /\ main' = [pc |-> "releasing", input |-> i]
        /\ UNCHANGED <<refs, ending, installed>>
    BY <1>1, <1>9 DEF TakeEnd
  <2>2. main'.input = i /\ main'.pc # "script"
    BY <2>1
  <2>3. /\ n - 1 \in Nat
        /\ prev' \in [Inputs -> Inputs \cup {Null}] /\ head' \in Inputs \cup {Null}
    BY <1>2, <1>6, <1>9, <2>1, <2>2, TakenOff
  <2>4. PICK t \in [1 .. n - 1 -> Inputs] :
          /\ On(t, n - 1) = On(s, n) \ {i}
          /\ Links(head', prev', t, n - 1) /\ Active(On(t, n - 1))'
          /\ Waiting(On(t, n - 1))' /\ Walking(t, n - 1)'
    BY <1>2, <1>6, <1>9, <2>1, <2>2, TakenOff
  <2>5. Typed'
    <3>1. hook' \in [pass : {0, 1, 2}, at : Inputs \cup {Null}, saw : BOOLEAN, old : BOOLEAN]
      BY <2>1 DEF Typed, HookMarked
    <3>2. main' \in [pc : {"script", "restarting", "releasing"}, input : Inputs \cup {Null}]
      BY <1>3, <2>1
    <3>3. QED
      BY <1>2, <1>4, <2>1, <2>3, <3>1, <3>2 DEF Typed
  <2>6. Announced(On(t, n - 1))'
    BY <1>2, <1>4, <1>5, <1>6, <2>4 DEF Sound, Announced, One
  <2>7. Accounted'
    <3>1. SUFFICES ASSUME NEW k \in Inputs PROVE refs'[k] >= Owed(k)'
      BY DEF Accounted
    <3>2. Owed(k)' = Owed(k)
      <4>1. Count(queue, EndOf(k))' = Count(queue, EndOf(k)) - One(k = i)
        BY <1>4, <1>5 DEF One
      <4>2. Count(ending, k)' = Count(ending, k)
        BY <2>1 DEF Count, Places
      <4>3. main.input # k
        BY <1>2, InputAssumption DEF Script
      <4>4. QED
        BY <1>2, <1>5, <2>1, <2>2, <4>1, <4>2, <4>3, SMTT(30) DEF Owed, Known, Going, Awaited, One
    <3>3. QED
      BY <1>5, <2>1, <3>2
  <2>8. QED
    BY <2>3, <2>4, <2>5, <2>6, <2>7 DEF Sound
<1>10. QED
  BY <1>7, <1>8, <1>9

LEMMA ReleaseKeeps ==
  ASSUME Typed, NEW n \in Nat, NEW s \in [1 .. n -> Inputs], Sound(s, n), Release
  PROVE  Typed' /\ Sound(s, n)'
<1>1. PICK i : i = main.input
  OBVIOUS
<1>2. /\ main.pc = "releasing" /\ ~hook.old /\ prev' = [prev EXCEPT ![i] = Null]
      /\ MaybeUninstallHook(head) /\ Completed(i) /\ main' = Script
      /\ UNCHANGED <<head, progress, held, queue, hook, due, twice>>
  BY <1>1 DEF Release, HookIsIdle
<1>3. i \in Inputs \ On(s, n)
  BY <1>1, <1>2 DEF Sound, Waiting
<1>4. OnChain(On(s, n)) /\ Standing(On(s, n)) = hook.at
  BY <1>2, HookOnChain
<1>5. On(s, n) \subseteq Inputs /\ (head = Null => On(s, n) = {})
  <2>1. Links(head, prev, s, n)
    BY DEF Sound
  <2>2. QED
    BY <2>1, WalkLinks
<1>6. /\ ending' \in Seq(Inputs) /\ refs' \in [Inputs -> Int]
      /\ \A k \in Inputs :
           /\ Count(ending, k)' \in Nat
           /\ refs'[k] - refs[k] = Count(ending, k)' - Count(ending, k) - One(k = i)
  BY <1>2, <1>3, CompletedOwed
<1>7. Typed'
  <2>1. prev' \in [Inputs -> Inputs \cup {Null}] /\ installed' \in BOOLEAN
    BY <1>2 DEF Typed, MaybeUninstallHook
  <2>2. main' \in [pc : {"script", "restarting", "releasing"}, input : Inputs \cup {Null}]
    BY <1>2 DEF Script
  <2>3. QED
    BY <1>2, <1>6, <2>1, <2>2 DEF Typed
<1>8. Links(head, prev, s, n)'
  <2>1. \A k \in 1 .. n : s[k] \in Inputs /\ s[k] # i
    BY <1>3 DEF On
  <2>2. \A k \in 1 .. n : prev'[s[k]] = prev[s[k]]
    BY <1>2, <2>1 DEF Typed
  <2>3. QED
    BY <1>2, <2>2 DEF Sound, Links
<1>9. Active(On(s, n))' /\ Announced(On(s, n))' /\ Waiting(On(s, n))'
  BY <1>2, <1>5 DEF Sound, Active, Announced, Waiting, MaybeUninstallHook, Script
<1>10. Accounted'
  <2>1. SUFFICES ASSUME NEW k \in Inputs PROVE refs'[k] >= Owed(k)'
    BY DEF Accounted
  <2>2. /\ refs[k] >= Owed(k) /\ refs[k] \in Int /\ Owed(k) \in Nat
        /\ Count(ending, k) \in Nat /\ Count(queue, EndOf(k)) \in Nat
    BY OwedParts DEF Sound, Accounted
  <2>3. main'.input # k
    BY <1>2, InputAssumption DEF Script
  <2>4. Count(queue, EndOf(k))' = Count(queue, EndOf(k)) /\ progress'[k] = progress[k]
    BY <1>2 DEF Count, Places, EndOf
  <2>5. Owed(k)' - Owed(k) = Count(ending, k)' - Count(ending, k) - One(k = i) /\ Owed(k)' \in Int
    <3>1. Known(k)' = Known(k) /\ Going(k)' = Going(k)
      BY <1>2 DEF Known, Going
    <3>2. Awaited(k)' = 0 /\ Awaited(k) = One(k = i)
      BY <1>1, <2>3 DEF Awaited, One
    <3>3. /\ Known(k) \in {0, 1} /\ Going(k) \in {0, 1} /\ One(k = i) \in {0, 1}
          /\ Count(ending, k)' \in Nat
      BY <1>6, OwedParts DEF One
    <3>4. QED
      BY <2>2, <2>4, <3>1, <3>2, <3>3, SMTT(30) DEF Owed
  <2>6. refs'[k] \in Int /\ Count(ending, k)' \in Nat
    BY <1>6
  <2>7. QED
    BY <1>6, <2>2, <2>5, <2>6
<1>11. Walking(s, n)'
  <2>1. OnChain(On(s, n))' /\ Standing(On(s, n))' = hook.at
    BY <1>2, <1>4 DEF OnChain, Standing
  <2>2. QED
    BY <1>2, <1>4, <2>1 DEF Sound, Walking
<1>12. QED
  BY <1>7, <1>8, <1>9, <1>10, <1>11 DEF Sound

LEMMA TakeNotifyKeeps ==
  ASSUME Typed, NEW n \in Nat, NEW s \in [1 .. n -> Inputs], Sound(s, n), TakeNotify
  PROVE  Typed' /\ Sound(s, n)'
<1>1. /\ queue # <<>> /\ Head(queue).type = "notify" /\ queue' = Tail(queue)
      /\ UNCHANGED <<head, prev, progress, refs, held, main, ending, hook, installed, due, twice>>
  BY DEF TakeNotify
<1>2. queue' \in Seq(Messages)
  BY <1>1, CountTail DEF Typed
<1>3. \A k \in Inputs : Count(queue, EndOf(k))' = Count(queue, EndOf(k))
  <2>1. SUFFICES ASSUME NEW k \in Inputs
                 PROVE  Count(queue, EndOf(k))' = Count(queue, EndOf(k))
    OBVIOUS
  <2>2. Head(queue) # EndOf(k)
    BY <1>1 DEF EndOf
  <2>3. Count(queue, EndOf(k)) = Count(queue', EndOf(k)) + One(Head(queue) = EndOf(k))
    BY <1>1, CountTail DEF Typed
  <2>4. Count(queue', EndOf(k)) \in Nat
    BY <1>2, CountType
  <2>5. Count(queue, EndOf(k))' = Count(queue', EndOf(k))
    BY DEF Count, Places, EndOf
  <2>6. QED
    BY <2>2, <2>3, <2>4, <2>5 DEF One
<1>4. Typed'
  BY <1>1, <1>2 DEF Typed
<1>5. Links(head, prev, s, n)' /\ Active(On(s, n))' /\ Walking(s, n)'
  BY <1>1, StillWalking
<1>6. Announced(On(s, n))' /\ Waiting(On(s, n))'
  <2>1. On(s, n) \subseteq Inputs
    BY DEF On
  <2>2. QED
    BY <1>1, <1>3, <2>1 DEF Sound, Announced, Waiting
<1>7. Accounted'
  <2>1. \A k \in Inputs : Owed(k)' = Owed(k)
    <3>1. \A k \in Inputs : Count(ending, k)' = Count(ending, k)
      BY <1>1 DEF Count, Places
    <3>2. QED
      BY <1>1, <1>3, <3>1 DEF Owed, Known, Going, Awaited
  <2>2. QED
    BY <1>1, <2>1 DEF Sound, Accounted
<1>8. QED
  BY <1>4, <1>5, <1>6, <1>7 DEF Sound

LEMMA OnEndReturnsKeeps ==
  ASSUME Typed, NEW n \in Nat, NEW s \in [1 .. n -> Inputs], Sound(s, n), OnEndReturns
  PROVE  Typed' /\ Sound(s, n)'
<1>1. PICK i : i = Last(ending)
  OBVIOUS
<1>2. /\ ending # <<>> /\ ending' = Front(ending) /\ refs' = [refs EXCEPT ![i] = @ - 1]
      /\ UNCHANGED <<head, prev, progress, held, queue, main, hook, installed, due, twice>>
  BY <1>1 DEF OnEndReturns, Released
<1>3. /\ ending \in Seq(Inputs) /\ ending' \in Seq(Inputs) /\ i \in Inputs
  BY <1>1, <1>2, CountFront DEF Typed
<1>4. \A k \in Inputs : Count(ending, k) = Count(ending, k)' + One(i = k)
  <2>1. \A k \in Inputs : Count(ending, k) = Count(ending', k) + One(i = k)
    BY <1>1, <1>2, <1>3, CountFront
  <2>2. \A k \in Inputs : Count(ending, k)' = Count(ending', k)
    BY DEF Count, Places
  <2>3. QED
    BY <2>1, <2>2
<1>5. \A k \in Inputs : Count(ending, k)' \in Nat
  <2>1. \A k \in Inputs : Count(ending', k) \in Nat
    BY <1>3, CountType
  <2>2. QED
    BY <2>1 DEF Count, Places
<1>6. Typed'
  BY <1>2, <1>3 DEF Typed
<1>7. Links(head, prev, s, n)' /\ Active(On(s, n))' /\ Walking(s, n)'
  BY <1>2, StillWalking
<1>8. Announced(On(s, n))' /\ Waiting(On(s, n))'
  BY <1>2 DEF Sound, Announced, Waiting
<1>9. Accounted'
  <2>1. SUFFICES ASSUME NEW k \in Inputs PROVE refs'[k] >= Owed(k)'
    BY DEF Accounted
  <2>2. /\ refs[k] >= Owed(k) /\ refs[k] \in Int /\ Owed(k) \in Nat
        /\ Count(ending, k) \in Nat /\ Count(queue, EndOf(k)) \in Nat
    BY OwedParts DEF Sound, Accounted
  <2>3. Owed(k)' = Owed(k) - One(i = k)
    <3>1. Count(queue, EndOf(k))' = Count(queue, EndOf(k)) /\ progress'[k] = progress[k]
      BY <1>2 DEF Count, Places, EndOf
    <3>2. QED
      BY <1>2, <1>4, <1>5, <2>2, <3>1 DEF Owed, Known, Going, Awaited, One
  <2>4. refs'[k] = refs[k] - One(i = k)
    BY <1>2, <2>2 DEF One, Typed
  <2>5. QED
    BY <2>2, <2>3, <2>4 DEF One
<1>10. QED
  BY <1>6, <1>7, <1>8, <1>9 DEF Sound

----------------------------------------------------------------------------
(* The hook thread *)

\* What a step that only moves the hook thread has to show.
LEMMA OnlyWalking ==
  ASSUME Typed, NEW n \in Nat, NEW s \in [1 .. n -> Inputs], Sound(s, n),
         UNCHANGED <<head, prev, refs, held, main, ending, installed, progress, queue>>
  PROVE  /\ Links(head, prev, s, n)' /\ Active(On(s, n))' /\ Announced(On(s, n))'
         /\ Waiting(On(s, n))' /\ Accounted'
<1>1. \A k \in Inputs : Owed(k)' = Owed(k)
  BY DEF Owed, Known, Going, Awaited, Count, Places, EndOf
<1>2. QED
  BY <1>1 DEF Sound, Links, Active, Announced, Waiting, Accounted, Count, Places, EndOf

\* The hook thread goes on to the next input, having dealt with the one it stood at.
LEMMA AdvancedWalks ==
  ASSUME Typed, NEW n \in Nat, NEW s \in [1 .. n -> Inputs], Sound(s, n),
         hook.at # Null, hook' = Advanced,
         UNCHANGED <<prev, main>>, due' \subseteq due, hook.pass = 2 => hook.at \notin due',
         \A k \in due' : progress[k] => progress'[k]
  PROVE  /\ hook' \in [pass : {0, 1, 2}, at : Inputs \cup {Null}, saw : BOOLEAN, old : BOOLEAN]
         /\ Walking(s, n)'
<1>1. hook \in [pass : {0, 1, 2}, at : Inputs \cup {Null}, saw : BOOLEAN, old : BOOLEAN]
  BY DEF Typed
<1>2. /\ hook'.pass = hook.pass /\ hook'.at = prev[hook.at] /\ hook'.saw = FALSE
      /\ hook'.old = hook.old
  BY <1>1 DEF Advanced
<1>3. prev[hook.at] \in Inputs \cup {Null}
  BY <1>1 DEF Typed
<1>4. hook' \in [pass : {0, 1, 2}, at : Inputs \cup {Null}, saw : BOOLEAN, old : BOOLEAN]
  BY <1>1, <1>3 DEF Advanced
<1>5. Links(head, prev, s, n)
  BY DEF Sound
<1>6. hook.at \in On(s, n) =>
        /\ prev[hook.at] \in On(s, n) \cup {Null} /\ Standing(On(s, n)) = hook.at
        /\ Ahead(s, n, hook.at) = {hook.at} \cup Ahead(s, n, prev[hook.at])
  BY <1>5, WalkLinks DEF Standing, OnChain
<1>7. hook.at \notin On(s, n) =>
        prev[hook.at] \in On(s, n) \cup {Null} /\ Standing(On(s, n)) = prev[hook.at]
  BY DEF Sound, Walking, Standing, OnChain
<1>8. OnChain(On(s, n))' /\ Standing(On(s, n))' = prev[hook.at]
  BY <1>2, <1>6, <1>7 DEF OnChain, Standing
<1>9. ASSUME hook.pass = 2, NEW k \in due'
      PROVE  progress'[k] /\ k \in Ahead(s, n, prev[hook.at])
  <2>1. k \in due /\ k # hook.at /\ progress[k] /\ k \in Ahead(s, n, Standing(On(s, n)))
    BY <1>9 DEF Sound, Walking
  <2>2. QED
    BY <1>6, <1>7, <1>9, <2>1
<1>10. hook.pass # 0
  BY DEF Sound, Walking
<1>11. Walking(s, n)'
  BY <1>2, <1>8, <1>9, <1>10 DEF Walking
<1>12. QED
  BY <1>4, <1>11

\* The hook thread leaves the chain.
LEMMA OutsideWalks ==
  ASSUME NEW n \in Nat, NEW s \in [1 .. n -> Inputs], hook' = Outside
  PROVE  /\ hook' \in [pass : {0, 1, 2}, at : Inputs \cup {Null}, saw : BOOLEAN, old : BOOLEAN]
         /\ Walking(s, n)'
BY DEF Outside, Walking, OnChain

LEMMA EventBeginsKeeps ==
  ASSUME Typed, NEW n \in Nat, NEW s \in [1 .. n -> Inputs], Sound(s, n), EventBegins
  PROVE  Typed' /\ Sound(s, n)'
<1>1. /\ hook.pass = 0 /\ hook' = [hook EXCEPT !.pass = 1, !.at = head]
      /\ UNCHANGED <<head, prev, refs, held, main, ending, installed, progress, queue, due>>
  BY DEF EventBegins, othersOfHook
<1>2. hook \in [pass : {0, 1, 2}, at : Inputs \cup {Null}, saw : BOOLEAN, old : BOOLEAN]
  BY DEF Typed
<1>3. hook'.pass = 1 /\ hook'.at = head /\ hook'.saw = hook.saw
  BY <1>1, <1>2
<1>4. hook' \in [pass : {0, 1, 2}, at : Inputs \cup {Null}, saw : BOOLEAN, old : BOOLEAN]
  <2>1. head \in Inputs \cup {Null}
    BY DEF Typed
  <2>2. QED
    BY <1>1, <1>2, <2>1
<1>5. head \in On(s, n) \cup {Null}
  <2>1. Links(head, prev, s, n)
    BY DEF Sound
  <2>2. QED
    BY <2>1, WalkLinks
<1>6. ~hook.saw
  BY <1>1 DEF Sound, Walking
<1>7. Walking(s, n)'
  BY <1>3, <1>5, <1>6 DEF Walking, OnChain
<1>8. Typed'
  BY <1>1, <1>4 DEF Typed
<1>9. QED
  BY <1>1, <1>7, <1>8, OnlyWalking DEF Sound

LEMMA SecondPassKeeps ==
  ASSUME Typed, NEW n \in Nat, NEW s \in [1 .. n -> Inputs], Sound(s, n), SecondPass
  PROVE  Typed' /\ Sound(s, n)'
<1>1. /\ hook.at = Null /\ hook' = [hook EXCEPT !.pass = 2, !.at = head]
      /\ due' = {i \in Chain : progress[i]}
      /\ UNCHANGED <<head, prev, refs, held, main, ending, installed, progress, queue>>
  BY DEF SecondPass, othersOfHook
<1>2. hook \in [pass : {0, 1, 2}, at : Inputs \cup {Null}, saw : BOOLEAN, old : BOOLEAN]
  BY DEF Typed
<1>3. hook'.pass = 2 /\ hook'.at = head /\ hook'.saw = hook.saw
  BY <1>1, <1>2
<1>4. hook' \in [pass : {0, 1, 2}, at : Inputs \cup {Null}, saw : BOOLEAN, old : BOOLEAN]
  <2>1. head \in Inputs \cup {Null}
    BY DEF Typed
  <2>2. QED
    BY <1>1, <1>2, <2>1
<1>5. head \in On(s, n) \cup {Null} /\ Ahead(s, n, head) = On(s, n) /\ On(s, n) \subseteq Inputs
  <2>1. Links(head, prev, s, n)
    BY DEF Sound
  <2>2. QED
    BY <2>1, WalkLinks
<1>6. Chain = On(s, n)
  BY ChainRead DEF Sound
<1>7. ~hook.saw
  BY <1>1 DEF Sound, Walking
<1>8. OnChain(On(s, n))' /\ Standing(On(s, n))' = head
  BY <1>3, <1>5 DEF OnChain, Standing
<1>9. Walking(s, n)'
  BY <1>1, <1>3, <1>5, <1>6, <1>7, <1>8 DEF Walking
<1>10. Typed'
  BY <1>1, <1>4, <1>5, <1>6 DEF Typed
<1>11. QED
  BY <1>1, <1>9, <1>10, OnlyWalking DEF Sound

LEMMA EventEndsKeeps ==
  ASSUME Typed, NEW n \in Nat, NEW s \in [1 .. n -> Inputs], Sound(s, n), EventEnds
  PROVE  Typed' /\ Sound(s, n)'
<1>1. /\ hook' = Outside /\ due' = {}
      /\ UNCHANGED <<head, prev, refs, held, main, ending, installed, progress, queue>>
  BY DEF EventEnds, othersOfHook
<1>2. hook' \in [pass : {0, 1, 2}, at : Inputs \cup {Null}, saw : BOOLEAN, old : BOOLEAN]
  BY <1>1, OutsideWalks
<1>3. Typed'
  BY <1>1, <1>2 DEF Typed
<1>4. QED
  BY <1>1, <1>3, OnlyWalking, OutsideWalks DEF Sound

LEMMA VisitKeeps ==
  ASSUME Typed, NEW n \in Nat, NEW s \in [1 .. n -> Inputs], Sound(s, n), Visit
  PROVE  Typed' /\ Sound(s, n)'
<1>1. /\ hook.at # Null
      /\ hook' = IF progress[hook.at] THEN [hook EXCEPT !.saw = TRUE] ELSE Advanced
      /\ due' = due \ {hook.at}
      /\ UNCHANGED <<head, prev, refs, held, main, ending, installed, progress, queue>>
  BY DEF Visit, othersOfHook
<1>2. hook \in [pass : {0, 1, 2}, at : Inputs \cup {Null}, saw : BOOLEAN, old : BOOLEAN]
  BY DEF Typed
<1>3. /\ hook' \in [pass : {0, 1, 2}, at : Inputs \cup {Null}, saw : BOOLEAN, old : BOOLEAN]
      /\ Walking(s, n)'
  <2>1. CASE progress[hook.at]
    <3>1. hook' = [hook EXCEPT !.saw = TRUE]
      BY <1>1, <2>1
    <3>2. /\ hook'.pass = hook.pass /\ hook'.at = hook.at /\ hook'.saw = TRUE
          /\ hook'.old = hook.old
      BY <1>2, <3>1
    <3>3. OnChain(On(s, n))' = OnChain(On(s, n)) /\ Standing(On(s, n))' = Standing(On(s, n))
      BY <1>1, <3>2 DEF OnChain, Standing
    <3>4. Walking(s, n)'
      BY <1>1, <3>2, <3>3 DEF Sound, Walking
    <3>5. QED
      BY <1>2, <3>1, <3>4
  <2>2. CASE ~progress[hook.at]
    <3>1. hook' = Advanced /\ due' \subseteq due /\ hook.at \notin due'
      BY <1>1, <2>2
    <3>2. \A k \in due' : progress[k] => progress'[k]
      BY <1>1
    <3>3. QED
      BY <1>1, <3>1, <3>2, AdvancedWalks
  <2>3. QED
    BY <2>1, <2>2
<1>4. Typed'
  BY <1>1, <1>3 DEF Typed
<1>5. QED
  BY <1>1, <1>3, <1>4, OnlyWalking DEF Sound

LEMMA CollectKeeps ==
  ASSUME Typed, NEW n \in Nat, NEW s \in [1 .. n -> Inputs], Sound(s, n), Collect
  PROVE  Typed' /\ Sound(s, n)'
<1>1. PICK i : i = hook.at
  OBVIOUS
<1>2. /\ i # Null /\ hook.saw
      /\ queue' = queue \/ queue' = Append(queue, NotifyOf(i))
      /\ \/ hook' = Advanced /\ UNCHANGED due
         \/ hook.pass = 2 /\ hook' = Outside /\ due' = {}
      /\ UNCHANGED <<head, prev, refs, held, main, ending, installed, progress>>
  BY <1>1 DEF Collect, othersOfHook
<1>3. i \in Inputs /\ queue \in Seq(Messages)
  BY <1>1, <1>2 DEF Typed
<1>4. /\ hook' \in [pass : {0, 1, 2}, at : Inputs \cup {Null}, saw : BOOLEAN, old : BOOLEAN]
      /\ due' \subseteq Inputs /\ Walking(s, n)'
  <2>1. CASE hook' = Advanced /\ UNCHANGED due
    <3>1. due' \subseteq due /\ due' \subseteq Inputs /\ \A k \in due' : progress[k] => progress'[k]
      BY <1>2, <2>1 DEF Typed
    <3>2. hook.pass = 2 => hook.at \notin due'
      BY <1>2, <2>1 DEF Sound, Walking
    <3>3. QED
      BY <1>1, <1>2, <2>1, <3>1, <3>2, AdvancedWalks
  <2>2. CASE hook' = Outside /\ due' = {}
    BY <2>2, OutsideWalks
  <2>3. QED
    BY <1>2, <2>1, <2>2
<1>5. queue' \in Seq(Messages) /\ \A k \in Inputs : Count(queue, EndOf(k))' = Count(queue, EndOf(k))
  <2>1. CASE queue' = queue
    BY <1>3, <2>1 DEF Count, Places, EndOf
  <2>2. CASE queue' = Append(queue, NotifyOf(i))
    <3>1. queue' \in Seq(Messages)
      BY <1>3, <2>2, MessageFacts
    <3>2. SUFFICES ASSUME NEW k \in Inputs
                   PROVE  Count(queue, EndOf(k))' = Count(queue, EndOf(k))
      BY <3>1
    <3>3. NotifyOf(i) # EndOf(k) /\ NotifyOf(i) \in Messages
      BY <1>3, MessageFacts
    <3>4. Count(queue', EndOf(k)) = Count(queue, EndOf(k)) + One(NotifyOf(i) = EndOf(k))
      BY <1>3, <2>2, <3>3, CountAppended
    <3>5. Count(queue, EndOf(k)) \in Nat
      BY <1>3, CountType
    <3>6. Count(queue, EndOf(k))' = Count(queue', EndOf(k))
      BY DEF Count, Places, EndOf
    <3>7. QED
      BY <3>3, <3>4, <3>5, <3>6 DEF One
  <2>3. QED
    BY <1>2, <2>1, <2>2
<1>6. Typed'
  BY <1>2, <1>4, <1>5 DEF Typed
<1>7. Links(head, prev, s, n)' /\ Active(On(s, n))' /\ Announced(On(s, n))' /\ Waiting(On(s, n))'
  <2>1. On(s, n) \subseteq Inputs
    BY DEF On
  <2>2. QED
    BY <1>2, <1>5, <2>1 DEF Sound, Links, Active, Announced, Waiting
<1>8. Accounted'
  <2>1. \A k \in Inputs : Owed(k)' = Owed(k)
    <3>1. \A k \in Inputs : Count(ending, k)' = Count(ending, k)
      BY <1>2 DEF Count, Places
    <3>2. QED
      BY <1>2, <1>5, <3>1 DEF Owed, Known, Going, Awaited
  <2>2. QED
    BY <1>2, <2>1 DEF Sound, Accounted
<1>9. QED
  BY <1>4, <1>6, <1>7, <1>8 DEF Sound

\* EndByKey and the others: what was owed to the progress is owed to the message.
LEMMA EndsByKeyKeeps ==
  ASSUME Typed, NEW n \in Nat, NEW s \in [1 .. n -> Inputs], Sound(s, n), EndsByKey, ~twice'
  PROVE  Typed' /\ Sound(s, n)'
<1>1. PICK i : i = hook.at
  OBVIOUS
<1>2. /\ i # Null /\ hook.pass = 2 /\ hook.saw /\ progress[i]
      /\ progress' = [progress EXCEPT ![i] = FALSE]
      /\ queue' = Append(queue, EndOf(i))
      /\ \/ hook' = Advanced /\ UNCHANGED due
         \/ hook' = Outside /\ due' = {}
      /\ UNCHANGED <<head, prev, refs, held, main, ending, installed>>
  BY <1>1 DEF EndsByKey, othersOfHook
<1>3. i \in Inputs
  BY <1>1, <1>2 DEF Typed
<1>4. \A k \in Inputs : Count(queue, EndOf(k))' = Count(queue, EndOf(k)) + One(k = i)
  <2>1. \A k \in Inputs : Count(queue', EndOf(k)) = Count(queue, EndOf(k)) + One(EndOf(i) = EndOf(k))
    BY <1>2, <1>3, CountAppended, MessageFacts DEF Typed
  <2>2. QED
    BY <1>3, <2>1, MessageFacts DEF Count, Places
<1>5. \A k \in Inputs : progress'[k] <=> k # i /\ progress[k]
  BY <1>2 DEF Typed
<1>6. \A k \in Inputs : Count(ending, k) \in Nat /\ Count(queue, EndOf(k)) \in Nat
  BY OwedParts
<1>7. /\ hook' \in [pass : {0, 1, 2}, at : Inputs \cup {Null}, saw : BOOLEAN, old : BOOLEAN]
      /\ due' \subseteq Inputs /\ Walking(s, n)'
  <2>1. CASE hook' = Advanced /\ UNCHANGED due
    <3>1. i \notin due /\ due' \subseteq Inputs /\ due' = due
      BY <1>1, <1>2, <2>1 DEF Sound, Walking, Typed
    <3>2. \A k \in due' : progress[k] => progress'[k]
      BY <1>5, <3>1
    <3>3. QED
      BY <1>1, <1>2, <2>1, <3>1, <3>2, AdvancedWalks
  <2>2. CASE hook' = Outside /\ due' = {}
    BY <2>2, OutsideWalks
  <2>3. QED
    BY <1>2, <2>1, <2>2
<1>8. Typed'
  <2>1. queue' \in Seq(Messages)
    BY <1>2, <1>3, MessageFacts DEF Typed
  <2>2. QED
    BY <1>2, <1>7, <2>1 DEF Typed
<1>9. Links(head, prev, s, n)' /\ Active(On(s, n))' /\ Waiting(On(s, n))'
  BY <1>2, <1>5 DEF Sound, Links, Active, Waiting
<1>10. Announced(On(s, n))'
  <2>1. On(s, n) \subseteq Inputs
    BY DEF On
  <2>2. QED
    BY <1>4, <1>5, <1>6, <2>1 DEF Sound, Announced, One
<1>11. Accounted'
  <2>1. SUFFICES ASSUME NEW k \in Inputs PROVE refs'[k] >= Owed(k)'
    BY DEF Accounted
  <2>2. Owed(k)' = Owed(k)
    <3>1. Count(ending, k)' = Count(ending, k)
      BY <1>2 DEF Count, Places
    <3>2. Known(k)' = Known(k) /\ Awaited(k)' = Awaited(k)
      BY <1>2 DEF Known, Awaited
    <3>3. Going(k) = Going(k)' + One(k = i)
      BY <1>2, <1>5 DEF Going, One
    <3>4. Known(k) \in Nat /\ Awaited(k) \in Nat /\ Going(k)' \in Nat /\ One(k = i) \in Nat
      BY DEF Known, Awaited, Going, One
    <3>5. QED
      BY <1>4, <1>6, <3>1, <3>2, <3>3, <3>4 DEF Owed
  <2>3. QED
    BY <1>2, <2>2 DEF Sound, Accounted
<1>12. QED
  BY <1>7, <1>8, <1>9, <1>10, <1>11 DEF Sound

----------------------------------------------------------------------------
(* The induction *)

LEMMA InitInv == Init => Inv
<1>1. SUFFICES ASSUME Init PROVE Typed /\ \E n \in Nat : \E s \in [1 .. n -> Inputs] : Sound(s, n)
  BY DEF Inv
<1>2. Typed
  <2>1. hook \in [pass : {0, 1, 2}, at : Inputs \cup {Null}, saw : BOOLEAN, old : BOOLEAN]
    BY <1>1 DEF Init, Outside
  <2>2. main \in [pc : {"script", "restarting", "releasing"}, input : Inputs \cup {Null}]
    BY <1>1 DEF Init, Script
  <2>3. queue \in Seq(Messages) /\ ending \in Seq(Inputs)
    BY <1>1 DEF Init
  <2>4. /\ prev \in [Inputs -> Inputs \cup {Null}] /\ progress \in [Inputs -> BOOLEAN]
        /\ refs \in [Inputs -> Int]
    BY <1>1 DEF Init
  <2>5. QED
    BY <1>1, <2>1, <2>2, <2>3, <2>4 DEF Init, Typed
<1> DEFINE s == [k \in 1 .. 0 |-> CHOOSE i \in Inputs : TRUE]
<1>3. s \in [1 .. 0 -> Inputs] /\ On(s, 0) = {}
  BY DEF On
<1> HIDE DEF s
<1>4. Links(head, prev, s, 0) /\ Active(On(s, 0)) /\ Announced(On(s, 0))
  BY <1>1, <1>3 DEF Init, Links, Active, Announced
<1>5. Waiting(On(s, 0)) /\ Walking(s, 0)
  BY <1>1 DEF Init, Waiting, Walking, Script, Outside, OnChain
<1>6. Accounted
  <2>1. SUFFICES ASSUME NEW i \in Inputs PROVE refs[i] >= Owed(i)
    BY DEF Accounted
  <2>2. Count(<<>>, i) = 0 /\ Count(<<>>, EndOf(i)) = 0
    <3>1. <<>> \in Seq(Inputs)
      OBVIOUS
    <3>2. QED
      BY <3>1, CountType
  <2>3. main.input # i
    BY <1>1, InputAssumption DEF Init, Script
  <2>4. Known(i) = 0 /\ Going(i) = 0 /\ Awaited(i) = 0
    BY <1>1, <2>3 DEF Init, Known, Going, Awaited, One
  <2>5. QED
    BY <1>1, <2>2, <2>4 DEF Init, Owed
<1>7. Sound(s, 0)
  BY <1>4, <1>5, <1>6 DEF Sound
<1>8. QED
  BY <1>2, <1>3, <1>7

LEMMA StutterKeeps ==
  ASSUME Typed, NEW n \in Nat, NEW s \in [1 .. n -> Inputs], Sound(s, n), UNCHANGED vars
  PROVE  Typed' /\ Sound(s, n)'
<1>1. Typed'
  BY DEF Typed, vars
<1>2. Walking(s, n)'
  BY StillWalking DEF vars
<1>3. QED
  BY <1>1, <1>2, OnlyWalking DEF vars, Sound

\* The chain may have an input more or less after a step of the main thread.
LEMMA NextInv == Inv /\ [Next]_vars => Inv'
<1>1. SUFFICES ASSUME Inv, [Next]_vars, ~twice'
               PROVE  Typed' /\ \E m \in Nat : \E t \in [1 .. m -> Inputs] : Sound(t, m)'
  BY DEF Inv
<1> DEFINE Goal == Typed' /\ \E m \in Nat : \E t \in [1 .. m -> Inputs] : Sound(t, m)'
<1>2. ~twice
  <2>1. CASE \E i \in Inputs : New(i) \/ Discard(i) \/ Start(i) \/ Stop(i) \/ Timeout(i)
    BY <1>1, <2>1 DEF New, Discard, Start, Stop, Timeout, EndedByMain
  <2>2. CASE Pump \/ OnEndReturns
    BY <1>1, <2>2 DEF Pump, TakeEnd, TakeNotify, Release, Restart, OnEndReturns
  <2>3. CASE EventBegins \/ HookSteps
    BY <1>1, <2>3 DEF EventBegins, HookSteps, SecondPass, EventEnds, Visit, Collect, EndsByKey
  <2>4. CASE UNCHANGED vars
    BY <1>1, <2>4 DEF vars
  <2>5. QED
    BY <1>1, <2>1, <2>2, <2>3, <2>4 DEF Next
<1>3. Typed
  BY <1>1, <1>2 DEF Inv
<1>4. PICK n \in Nat : \E s \in [1 .. n -> Inputs] : Sound(s, n)
  BY <1>1, <1>2 DEF Inv
<1>5. PICK s \in [1 .. n -> Inputs] : Sound(s, n)
  BY <1>4
<1>6. CASE \E i \in Inputs : New(i)
  BY <1>3, <1>5, <1>6, NewKeeps
<1>7. CASE \E i \in Inputs : Discard(i)
  BY <1>3, <1>5, <1>7, DiscardKeeps
<1>8. CASE \E i \in Inputs : Start(i)
  BY <1>3, <1>5, <1>8, StartKeeps
<1>9. CASE \E i \in Inputs : Stop(i) \/ Timeout(i)
  <2>1. PICK i \in Inputs : EndedByMain(i)
    BY <1>9 DEF Stop, Timeout
  <2>2. Typed' /\ Sound(s, n)'
    BY <1>3, <1>5, <2>1, EndedByMainKeeps
  <2>3. QED
    BY <2>2
<1>10. CASE TakeEnd
  BY <1>3, <1>5, <1>10, TakeEndKeeps
<1>11. CASE TakeNotify
  BY <1>3, <1>5, <1>11, TakeNotifyKeeps
<1>12. CASE Release
  BY <1>3, <1>5, <1>12, ReleaseKeeps
<1>13. CASE Restart
  BY <1>3, <1>5, <1>13, RestartKeeps
<1>14. CASE OnEndReturns
  BY <1>3, <1>5, <1>14, OnEndReturnsKeeps
<1>15. CASE EventBegins
  BY <1>3, <1>5, <1>15, EventBeginsKeeps
<1>16. CASE SecondPass
  BY <1>3, <1>5, <1>16, SecondPassKeeps
<1>17. CASE EventEnds
  BY <1>3, <1>5, <1>17, EventEndsKeeps
<1>18. CASE Visit
  BY <1>3, <1>5, <1>18, VisitKeeps
<1>19. CASE Collect
  BY <1>3, <1>5, <1>19, CollectKeeps
<1>20. CASE EndsByKey
  BY <1>1, <1>3, <1>5, <1>20, EndsByKeyKeeps
<1>21. CASE UNCHANGED vars
  BY <1>3, <1>5, <1>21, StutterKeeps
<1>22. \/ \E i \in Inputs : New(i)
       \/ \E i \in Inputs : Discard(i)
       \/ \E i \in Inputs : Start(i)
       \/ \E i \in Inputs : Stop(i) \/ Timeout(i)
       \/ TakeEnd \/ TakeNotify \/ Release \/ Restart \/ OnEndReturns \/ EventBegins
       \/ SecondPass \/ EventEnds \/ Visit \/ Collect \/ EndsByKey \/ UNCHANGED vars
  BY <1>1 DEF Next, Pump, HookSteps
<1> HIDE DEF Goal
<1>23. QED
  BY <1>6, <1>7, <1>8, <1>9, <1>10, <1>11, <1>12, <1>13, <1>14, <1>15, <1>16, <1>17,
     <1>18, <1>19, <1>20, <1>21, <1>22 DEF Goal

LEMMA InvHolds == Spec => []Inv
<1>1. Init => Inv
  BY InitInv
<1>2. Inv /\ [Next]_vars => Inv'
  BY NextInv
<1>3. QED
  BY <1>1, <1>2, PTL DEF Spec

----------------------------------------------------------------------------
(* The theorems *)

\* As long as no input has been ended by both threads, the chain that InputStart and
\* InputRelease link and unlink ends, holds every input in progress, with the hook
\* installed, and neither what is on it nor what the hook thread reads is deleted.
THEOREM ChainKept == Spec => []ChainSound
<1>1. Inv => ChainSound
  <2>1. SUFFICES ASSUME Inv, ~twice
                 PROVE  /\ Walked[Cardinality(Inputs)] = Null
                        /\ \A i \in Inputs : progress[i] => i \in Chain /\ installed
                        /\ \A i \in Chain : refs[i] > 0
                        /\ hook.at # Null => refs[hook.at] > 0
    BY DEF ChainSound
  <2>2. Typed
    BY <2>1 DEF Inv
  <2>3. PICK n \in Nat : \E s \in [1 .. n -> Inputs] : Sound(s, n)
    BY <2>1 DEF Inv
  <2>4. PICK s \in [1 .. n -> Inputs] : Sound(s, n)
    BY <2>3
  <2>5. Chain = On(s, n) /\ Walked[Cardinality(Inputs)] = Null
    BY <2>4, ChainRead DEF Sound
  <2>6. \A i \in Inputs : progress[i] => i \in Chain /\ installed
    BY <2>4, <2>5 DEF Sound, Active
  <2>7. \A i \in Chain : refs[i] > 0
    BY <2>2, <2>4, <2>5, Referenced
  <2>8. hook.at # Null => refs[hook.at] > 0
    <3>1. SUFFICES ASSUME hook.at # Null, hook.at \notin Chain PROVE refs[hook.at] > 0
      BY <2>7
    <3>2. PICK i \in Inputs : i = hook.at
      BY <2>2, <3>1 DEF Typed
    <3>3. main.input = i
      BY <2>4, <2>5, <3>1, <3>2 DEF Sound, Walking, OnChain
    <3>4. refs[i] >= Owed(i) /\ Owed(i) >= 1 /\ Owed(i) \in Nat /\ refs[i] \in Int
      BY <2>2, <2>4, <3>3, OwedParts DEF Sound, Accounted
    <3>5. QED
      BY <3>2, <3>4
  <2>9. QED
    BY <2>5, <2>6, <2>7, <2>8
<1>2. QED
  BY <1>1, InvHolds, PTL

\* CollectInputHook comes to every input that was in progress when its walk began and
\* still is, whatever Start and the retrieval of AHK_INPUT_END unlink meanwhile.
THEOREM WalksComplete == Spec => []WalkComplete
<1>1. Inv => WalkComplete
  <2>1. SUFFICES ASSUME Inv, ~twice, hook.pass = 2, hook.at = Null PROVE due = {}
    BY DEF WalkComplete
  <2>2. PICK n \in Nat : \E s \in [1 .. n -> Inputs] : Sound(s, n)
    BY <2>1 DEF Inv
  <2>3. PICK s \in [1 .. n -> Inputs] : Sound(s, n)
    BY <2>2
  <2>4. Links(head, prev, s, n)
    BY <2>3 DEF Sound
  <2>5. Ahead(s, n, Null) = {}
    BY <2>4, WalkLinks
  <2>6. Standing(On(s, n)) = Null
    BY <2>1 DEF Standing, OnChain
  <2>7. QED
    BY <2>1, <2>3, <2>5, <2>6 DEF Sound, Walking
<1>2. QED
  BY <1>1, InvHolds, PTL

============================================================================
