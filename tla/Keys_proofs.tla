----------------------------- MODULE Keys_proofs -----------------------------
(***************************************************************************)
(* What the two models of the keyboard guarantee for any keys, hotkeys and *)
(* modifiers.                                                              *)
(*                                                                         *)
(* KeyHook: a press fires one hotkey at most, and no key is stuck down or  *)
(* leaves anything behind when it is released; a key that has modified     *)
(* another one does not fire its own hotkey, and the two halves of a       *)
(* hotkey belong together.  The keys do not depend on one another, apart   *)
(* from the one that pPrefixKey names, so that the invariant says of each  *)
(* key what the hook remembers of it; each way out of LowLevelCommon is    *)
(* described by one lemma, for a press and for a release.                  *)
(*                                                                         *)
(* SendModifiers: what the script has put down is still down after each    *)
(* Send, and apart from that the modifiers are as the user holds them.     *)
(* The invariant says of each modifier, step by step of a Send, what has   *)
(* been decided about it.  It is in three parts, proved one after the      *)
(* other: how far the Send has come, what lasts, and what comes of what    *)
(* the user holds.                                                         *)
(***************************************************************************)
EXTENDS KeyHook, SendModifiers, FiniteSetTheorems, TLAPS

\* The hotkeys that are ever enabled.
Known == UNION Selections

Marks == {"no", "prefix", "for_hotkey", "passthrough"}
KeyStates ==
  [is_down : BOOLEAN, down_performed_action : BOOLEAN,
   hotkey_to_fire_upon_release : Known \cup {None},
   hotkey_down_was_suppressed : BOOLEAN, next_up : BOOLEAN,
   was_just_used : Marks]

Presses ==
  [fired : Nat, owes : BOOLEAN, others : BOOLEAN, changed : BOOLEAN, second : BOOLEAN]

HookTyped ==
  /\ enabled \in Selections /\ enabled \subseteq Known
  /\ kvk \in [Keys -> KeyStates]
  /\ pPrefixKey \in Keys \cup {None}
  /\ press \in [Keys -> Presses]
  /\ system \subseteq Keys

\* What is to fire upon the release of a key is a key-up hotkey of that key.
ForRelease(k, h) == h = None \/ (h \in Known /\ h.key = k /\ h.up)

\* A key that has fired while it is held remembers that it has.
Firing ==
  \A k \in Keys :
    /\ ForRelease(k, kvk[k].hotkey_to_fire_upon_release)
    /\ press[k].fired <= 1
    /\ press[k].fired = 1 /\ k \in physical => kvk[k].down_performed_action

\* Its release is suppressed if a hotkey without a tilde fires.
Suppressible(k) == k \notin Modifiers /\ ~(k \in Toggles /\ UsedAsPrefix(k))

\* What the hook knows of a key that is held, whose press is an ordinary one, suffices
\* to pass its release on if the system has seen the press.
Tracked(k) ==
  LET release == kvk[k].hotkey_to_fire_upon_release
  IN  /\ kvk[k].is_down
      /\ pPrefixKey = k => UsedAsPrefix(k)
      /\ ~UsedAsPrefix(k) /\ ~UsedAsSuffix(k)
           => ~kvk[k].down_performed_action /\ ~kvk[k].next_up
      /\ release \in enabled \cup {None}
      /\ k \in system =>
           /\ kvk[k].down_performed_action => kvk[k].next_up
           /\ ~kvk[k].hotkey_down_was_suppressed
           /\ UsedAsPrefix(k) /\ k \notin Modifiers \cup Toggles => kvk[k].next_up
           /\ release # None /\ Eligible(release) /\ Suppressible(k)
                => kvk[k].next_up \/ release.tilde

Kept ==
  \A k \in Keys : Disturbed(k) \/ IF k \in physical THEN Tracked(k) ELSE Clean(k)

HookInv == HookTyped /\ Firing /\ (PlainPrefixes => Kept)

----------------------------------------------------------------------------
(* Hotkeys *)

LEMMA HotkeysTyped ==
  ASSUME NEW h \in Known
  PROVE  /\ h \in Hotkeys /\ h.tilde \in BOOLEAN /\ h.up \in BOOLEAN /\ h # None
         /\ h.prefix \in (Keys \cup {None}) \ {h.key} /\ h.key \in Keys
  BY KeysAssumption DEF Known

\* What Kvkm finds is an enabled hotkey of the key.
LEMMA LookedUp ==
  ASSUME HookTyped, NEW mods, NEW k \in Keys
  PROVE  Kvkm(mods, k) # None
           => /\ Kvkm(mods, k) \in enabled /\ Kvkm(mods, k).key = k
              /\ Kvkm(mods, k).up = FALSE \/ Kvkm(mods, k) \in Exactly(mods, k, TRUE)
  BY DEF HookTyped, Kvkm, Exactly, AnyOf

LEMMA FoundAlone ==
  ASSUME HookTyped, NEW mods, NEW k \in Keys
  PROVE  Kvkm(mods, k) # None => Kvkm(mods, k).prefix = None
  BY DEF HookTyped, Kvkm, Exactly, AnyOf, Combos

LEMMA CounterpartIsUp ==
  ASSUME HookTyped, NEW h, hotkey_up(h) # None
  PROVE  hotkey_up(h) \in enabled /\ hotkey_up(h).key = h.key /\ hotkey_up(h).up
  BY DEF hotkey_up, Exactly, AnyOf, HookTyped

\* A hotkey is only replaced by one of the same key, that fires at the same time.
LEMMA CertainIsLike ==
  ASSUME HookTyped, NEW h
  PROVE  /\ Certain(h) # None
              => /\ Certain(h) \in enabled /\ h # None
                 /\ Certain(h).key = h.key /\ Certain(h).up = h.up
                 /\ h.prefix = None => Certain(h).prefix = None
         /\ h # None /\ Eligible(h) => Certain(h) = h
<1>1. CASE h = None
  BY <1>1 DEF Certain
<1>2. CASE h # None /\ Eligible(h)
  BY <1>2 DEF Certain, Eligible
<1>3. ASSUME h # None /\ ~Eligible(h), Certain(h) # None
      PROVE  /\ Certain(h) \in enabled /\ Certain(h).key = h.key /\ Certain(h).up = h.up
             /\ Certain(h).prefix = None
  <2>1. Certain(h) = AnyOf(Eclipsed(h)) /\ Eclipsed(h) # {}
    BY <1>3 DEF Certain, AnyOf
  <2>2. Certain(h) \in Eclipsed(h)
    BY <2>1 DEF AnyOf
  <2>3. QED
    BY <1>3, <2>2 DEF Eclipsed, Exactly, Combos
<1>4. QED
  BY <1>1, <1>2, <1>3

----------------------------------------------------------------------------
(* The assignments to the state of a key *)

Put(keys, k, t) == [keys EXCEPT ![k] = t]

\* What matters of a state.
State(t, is_down, performed, release, suppressed, next_up) ==
  /\ t.is_down <=> is_down
  /\ t.down_performed_action <=> performed
  /\ t.hotkey_to_fire_upon_release = release
  /\ t.hotkey_down_was_suppressed <=> suppressed
  /\ t.next_up <=> next_up

LEMMA PutTyped ==
  ASSUME NEW keys \in [Keys -> KeyStates], NEW k \in Keys, NEW t \in KeyStates
  PROVE  /\ Put(keys, k, t) \in [Keys -> KeyStates]
         /\ \A j \in Keys : Put(keys, k, t)[j] = IF j = k THEN t ELSE keys[j]
  BY DEF Put

\* It has fired.
FiredAt(keys, k, tilde) ==
  [keys EXCEPT ![k].down_performed_action = TRUE, ![k].next_up = @ \/ tilde,
               ![k].hotkey_down_was_suppressed = ~tilde]

LEMMA FiredState ==
  ASSUME NEW keys \in [Keys -> KeyStates], NEW k \in Keys, NEW tilde \in BOOLEAN
  PROVE  \E t \in KeyStates :
           /\ FiredAt(keys, k, tilde) = Put(keys, k, t)
           /\ State(t, keys[k].is_down, TRUE, keys[k].hotkey_to_fire_upon_release,
                    ~tilde, keys[k].next_up \/ tilde)
           /\ t.was_just_used = keys[k].was_just_used
<1>1. PICK s \in KeyStates : s = keys[k]
  OBVIOUS
<1> DEFINE t == [s EXCEPT !.down_performed_action = TRUE,
                          !.next_up = @ \/ tilde,
                          !.hotkey_down_was_suppressed = ~tilde]
<1>2. t \in KeyStates /\ t.was_just_used = s.was_just_used
  BY DEF KeyStates
<1>3. State(t, s.is_down, TRUE, s.hotkey_to_fire_upon_release, ~tilde, s.next_up \/ tilde)
  BY DEF KeyStates, State
<1>4. FiredAt(keys, k, tilde) = Put(keys, k, t)
  BY <1>1 DEF Put, FiredAt
<1> HIDE DEF t
<1>5. QED
  BY <1>1, <1>2, <1>3, <1>4

\* Its press is suppressed, or passed on.
SuppressedAt(keys, k, b) ==
  [keys EXCEPT ![k].hotkey_down_was_suppressed = b]

LEMMA SuppressedState ==
  ASSUME NEW keys \in [Keys -> KeyStates], NEW k \in Keys, NEW b \in BOOLEAN
  PROVE  \E t \in KeyStates :
           /\ SuppressedAt(keys, k, b) = Put(keys, k, t)
           /\ State(t, keys[k].is_down, keys[k].down_performed_action,
                    keys[k].hotkey_to_fire_upon_release, b, keys[k].next_up)
           /\ t.was_just_used = keys[k].was_just_used
<1>1. PICK s \in KeyStates : s = keys[k]
  OBVIOUS
<1> DEFINE t == [s EXCEPT !.hotkey_down_was_suppressed = b]
<1>2. t \in KeyStates /\ t.was_just_used = s.was_just_used
  BY DEF KeyStates
<1>3. State(t, s.is_down, s.down_performed_action, s.hotkey_to_fire_upon_release,
            b, s.next_up)
  BY DEF KeyStates, State
<1>4. SuppressedAt(keys, k, b) = Put(keys, k, t)
  BY <1>1 DEF Put, SuppressedAt
<1> HIDE DEF t
<1>5. QED
  BY <1>1, <1>2, <1>3, <1>4

\* Its release is not to be suppressed.
NextUpAt(keys, k, b) ==
  [keys EXCEPT ![k].next_up = @ \/ b]

LEMMA NextUpState ==
  ASSUME NEW keys \in [Keys -> KeyStates], NEW k \in Keys, NEW b \in BOOLEAN
  PROVE  \E t \in KeyStates :
           /\ NextUpAt(keys, k, b) = Put(keys, k, t)
           /\ State(t, keys[k].is_down, keys[k].down_performed_action,
                    keys[k].hotkey_to_fire_upon_release,
                    keys[k].hotkey_down_was_suppressed, keys[k].next_up \/ b)
           /\ t.was_just_used = keys[k].was_just_used
<1>1. PICK s \in KeyStates : s = keys[k]
  OBVIOUS
<1> DEFINE t == [s EXCEPT !.next_up = @ \/ b]
<1>2. t \in KeyStates /\ t.was_just_used = s.was_just_used
  BY DEF KeyStates
<1>3. State(t, s.is_down, s.down_performed_action, s.hotkey_to_fire_upon_release,
            s.hotkey_down_was_suppressed, s.next_up \/ b)
  BY DEF KeyStates, State
<1>4. NextUpAt(keys, k, b) = Put(keys, k, t)
  BY <1>1 DEF Put, NextUpAt
<1> HIDE DEF t
<1>5. QED
  BY <1>1, <1>2, <1>3, <1>4

\* A hotkey is to fire upon release.
QueuedAt(keys, k, r) ==
  [keys EXCEPT ![k].hotkey_to_fire_upon_release = r]

LEMMA QueuedState ==
  ASSUME NEW keys \in [Keys -> KeyStates], NEW k \in Keys, NEW r \in Known \cup {None}
  PROVE  \E t \in KeyStates :
           /\ QueuedAt(keys, k, r) = Put(keys, k, t)
           /\ State(t, keys[k].is_down, keys[k].down_performed_action, r,
                    keys[k].hotkey_down_was_suppressed, keys[k].next_up)
           /\ t.was_just_used = keys[k].was_just_used
<1>1. PICK s \in KeyStates : s = keys[k]
  OBVIOUS
<1> DEFINE t == [s EXCEPT !.hotkey_to_fire_upon_release = r]
<1>2. t \in KeyStates /\ t.was_just_used = s.was_just_used
  BY DEF KeyStates
<1>3. State(t, s.is_down, s.down_performed_action, r, s.hotkey_down_was_suppressed,
            s.next_up)
  BY DEF KeyStates, State
<1>4. QueuedAt(keys, k, r) = Put(keys, k, t)
  BY <1>1 DEF Put, QueuedAt
<1> HIDE DEF t
<1>5. QED
  BY <1>1, <1>2, <1>3, <1>4

\* The end of Case 1.
AheadAt(keys, k, r, b, c) ==
  [keys EXCEPT ![k].hotkey_to_fire_upon_release = r, ![k].next_up = @ \/ b,
               ![k].hotkey_down_was_suppressed = c]

LEMMA AheadState ==
  ASSUME NEW keys \in [Keys -> KeyStates], NEW k \in Keys, NEW r \in Known \cup {None},
         NEW b \in BOOLEAN, NEW c \in BOOLEAN
  PROVE  \E t \in KeyStates :
           /\ AheadAt(keys, k, r, b, c) = Put(keys, k, t)
           /\ State(t, keys[k].is_down, keys[k].down_performed_action, r, c,
                    keys[k].next_up \/ b)
           /\ t.was_just_used = keys[k].was_just_used
<1>1. PICK s \in KeyStates : s = keys[k]
  OBVIOUS
<1> DEFINE t == [s EXCEPT !.hotkey_to_fire_upon_release = r,
                          !.next_up = @ \/ b,
                          !.hotkey_down_was_suppressed = c]
<1>2. t \in KeyStates /\ t.was_just_used = s.was_just_used
  BY DEF KeyStates
<1>3. State(t, s.is_down, s.down_performed_action, r, c, s.next_up \/ b)
  BY DEF KeyStates, State
<1>4. AheadAt(keys, k, r, b, c) = Put(keys, k, t)
  BY <1>1 DEF Put, AheadAt
<1> HIDE DEF t
<1>5. QED
  BY <1>1, <1>2, <1>3, <1>4

\* The start of a press.
PressedAt(keys, k) ==
  [keys EXCEPT ![k].is_down = TRUE, ![k].hotkey_down_was_suppressed = FALSE,
               ![k].hotkey_to_fire_upon_release = None]

LEMMA PressedState ==
  ASSUME NEW keys \in [Keys -> KeyStates], NEW k \in Keys
  PROVE  \E t \in KeyStates :
           /\ PressedAt(keys, k) = Put(keys, k, t)
           /\ State(t, TRUE, keys[k].down_performed_action, None, FALSE,
                    keys[k].next_up)
           /\ t.was_just_used = keys[k].was_just_used
<1>1. PICK s \in KeyStates : s = keys[k]
  OBVIOUS
<1> DEFINE t == [s EXCEPT !.is_down = TRUE,
                          !.hotkey_down_was_suppressed = FALSE,
                          !.hotkey_to_fire_upon_release = None]
<1>2. t \in KeyStates /\ t.was_just_used = s.was_just_used
  BY DEF KeyStates
<1>3. State(t, TRUE, s.down_performed_action, None, FALSE, s.next_up)
  BY DEF KeyStates, State
<1>4. PressedAt(keys, k) = Put(keys, k, t)
  BY <1>1 DEF Put, PressedAt
<1> HIDE DEF t
<1>5. QED
  BY <1>1, <1>2, <1>3, <1>4

\* The start of a release.
UpAt(keys, k) ==
  [keys EXCEPT ![k].is_down = FALSE]

LEMMA UpState ==
  ASSUME NEW keys \in [Keys -> KeyStates], NEW k \in Keys
  PROVE  \E t \in KeyStates :
           /\ UpAt(keys, k) = Put(keys, k, t)
           /\ State(t, FALSE, keys[k].down_performed_action,
                    keys[k].hotkey_to_fire_upon_release,
                    keys[k].hotkey_down_was_suppressed, keys[k].next_up)
           /\ t.was_just_used = keys[k].was_just_used
<1>1. PICK s \in KeyStates : s = keys[k]
  OBVIOUS
<1> DEFINE t == [s EXCEPT !.is_down = FALSE]
<1>2. t \in KeyStates /\ t.was_just_used = s.was_just_used
  BY DEF KeyStates
<1>3. State(t, FALSE, s.down_performed_action, s.hotkey_to_fire_upon_release,
            s.hotkey_down_was_suppressed, s.next_up)
  BY DEF KeyStates, State
<1>4. UpAt(keys, k) = Put(keys, k, t)
  BY <1>1 DEF Put, UpAt
<1> HIDE DEF t
<1>5. QED
  BY <1>1, <1>2, <1>3, <1>4

\* What a release forgets.
ForgottenAt(keys, k) ==
  [keys EXCEPT ![k].down_performed_action = FALSE, ![k].next_up = FALSE,
               ![k].hotkey_to_fire_upon_release = None]

LEMMA ForgottenState ==
  ASSUME NEW keys \in [Keys -> KeyStates], NEW k \in Keys
  PROVE  \E t \in KeyStates :
           /\ ForgottenAt(keys, k) = Put(keys, k, t)
           /\ State(t, keys[k].is_down, FALSE, None, keys[k].hotkey_down_was_suppressed,
                    FALSE)
           /\ t.was_just_used = keys[k].was_just_used
<1>1. PICK s \in KeyStates : s = keys[k]
  OBVIOUS
<1> DEFINE t == [s EXCEPT !.down_performed_action = FALSE,
                          !.next_up = FALSE,
                          !.hotkey_to_fire_upon_release = None]
<1>2. t \in KeyStates /\ t.was_just_used = s.was_just_used
  BY DEF KeyStates
<1>3. State(t, s.is_down, FALSE, None, s.hotkey_down_was_suppressed, FALSE)
  BY DEF KeyStates, State
<1>4. ForgottenAt(keys, k) = Put(keys, k, t)
  BY <1>1 DEF Put, ForgottenAt
<1> HIDE DEF t
<1>5. QED
  BY <1>1, <1>2, <1>3, <1>4

\* How it has been used.
MarkedAt(keys, k, w) ==
  [keys EXCEPT ![k].was_just_used = w]

LEMMA MarkedState ==
  ASSUME NEW keys \in [Keys -> KeyStates], NEW k \in Keys, NEW w \in Marks
  PROVE  \E t \in KeyStates :
           /\ MarkedAt(keys, k, w) = Put(keys, k, t)
           /\ State(t, keys[k].is_down, keys[k].down_performed_action,
                    keys[k].hotkey_to_fire_upon_release,
                    keys[k].hotkey_down_was_suppressed, keys[k].next_up)
           /\ t.was_just_used = w
<1>1. PICK s \in KeyStates : s = keys[k]
  OBVIOUS
<1> DEFINE t == [s EXCEPT !.was_just_used = w]
<1>2. t \in KeyStates /\ t.was_just_used = w
  BY DEF KeyStates, Marks
<1>3. State(t, s.is_down, s.down_performed_action, s.hotkey_to_fire_upon_release,
            s.hotkey_down_was_suppressed, s.next_up)
  BY DEF KeyStates, State
<1>4. MarkedAt(keys, k, w) = Put(keys, k, t)
  BY <1>1 DEF Put, MarkedAt
<1> HIDE DEF t
<1>5. QED
  BY <1>1, <1>2, <1>3, <1>4

\* How the mark of a prefix changes when it is used: AS_PASSTHROUGH_PREFIX lasts.
Using == {"prefix", "for_hotkey"}
Becomes(old, new) == new = old \/ (old # "passthrough" /\ new \in Using)

\* A key that is not tilde's: Used.
LEMMA UsedKeys ==
  ASSUME NEW keys \in [Keys -> KeyStates], NEW p \in Keys,
         NEW as \in {"prefix", "for_hotkey"}
  PROVE  \E t \in KeyStates :
           /\ Used(keys, p, as) = IF p = None THEN keys ELSE Put(keys, p, t)
           /\ State(t, keys[p].is_down, keys[p].down_performed_action,
                    keys[p].hotkey_to_fire_upon_release,
                    keys[p].hotkey_down_was_suppressed,
                    keys[p].next_up)
           /\ Becomes(keys[p].was_just_used, t.was_just_used)
           /\ keys[p].was_just_used # "passthrough" => t.was_just_used = as
<1>1. PICK w \in Marks :
        /\ Used(keys, p, as) = IF p = None THEN keys ELSE MarkedAt(keys, p, w)
        /\ Becomes(keys[p].was_just_used, w)
        /\ keys[p].was_just_used # "passthrough" => w = as
  <2>1. CASE keys[p].was_just_used = "passthrough"
    BY <2>1 DEF Used, Marks, MarkedAt, Becomes
  <2>2. CASE keys[p].was_just_used # "passthrough"
    BY <2>2 DEF Used, Marks, MarkedAt, Becomes, Using
  <2>3. QED
    BY <2>1, <2>2
<1>2. PICK t \in KeyStates :
        /\ MarkedAt(keys, p, w) = Put(keys, p, t)
        /\ State(t, keys[p].is_down, keys[p].down_performed_action,
                 keys[p].hotkey_to_fire_upon_release,
                 keys[p].hotkey_down_was_suppressed, keys[p].next_up)
        /\ t.was_just_used = w
  BY MarkedState
<1>3. QED
  BY <1>1, <1>2

\* Nothing but the use that has been made of the keys is different.
Same(keys, other, j) ==
  /\ State(keys[j], other[j].is_down, other[j].down_performed_action,
        other[j].hotkey_to_fire_upon_release, other[j].hotkey_down_was_suppressed,
        other[j].next_up)
  /\ Becomes(other[j].was_just_used, keys[j].was_just_used)

LEMMA UsedSame ==
  ASSUME NEW keys \in [Keys -> KeyStates], NEW p \in Keys \cup {None},
         NEW as \in {"prefix", "for_hotkey"}
  PROVE  \E used \in [Keys -> KeyStates] :
           /\ used = Used(keys, p, as) /\ \A j \in Keys : Same(used, keys, j)
           /\ p # None /\ keys[p].was_just_used # "passthrough"
                => used[p].was_just_used = as
<1>1. \A j \in Keys : Same(keys, keys, j)
  BY DEF Same, State, Becomes
<1>2. CASE p = None
  BY <1>1, <1>2 DEF Used
<1>3. CASE p # None
  <2>1. p \in Keys
    BY <1>3
  <2>2. PICK t \in KeyStates :
           /\ Used(keys, p, as) = Put(keys, p, t)
           /\ State(t, keys[p].is_down, keys[p].down_performed_action,
                    keys[p].hotkey_to_fire_upon_release,
                    keys[p].hotkey_down_was_suppressed,
                    keys[p].next_up)
           /\ Becomes(keys[p].was_just_used, t.was_just_used)
           /\ keys[p].was_just_used # "passthrough" => t.was_just_used = as
    <3>1. PICK t \in KeyStates :
            /\ Used(keys, p, as) = IF p = None THEN keys ELSE Put(keys, p, t)
            /\ State(t, keys[p].is_down, keys[p].down_performed_action,
                     keys[p].hotkey_to_fire_upon_release,
                     keys[p].hotkey_down_was_suppressed,
                     keys[p].next_up)
            /\ Becomes(keys[p].was_just_used, t.was_just_used)
            /\ keys[p].was_just_used # "passthrough" => t.was_just_used = as
      BY <2>1, UsedKeys
    <3>2. QED
      BY <1>3, <3>1
  <2>3. PICK used \in [Keys -> KeyStates] :
          /\ used = Used(keys, p, as)
          /\ \A j \in Keys : used[j] = IF j = p THEN t ELSE keys[j]
    BY <2>1, <2>2, PutTyped
  <2>4. \A j \in Keys : Same(used, keys, j)
    <3>1. Same(used, keys, p)
      BY <2>1, <2>2, <2>3 DEF Same
    <3>2. \A j \in Keys \ {p} : Same(used, keys, j)
      BY <1>1, <2>3 DEF Same
    <3>3. QED
      BY <3>1, <3>2
  <2>5. QED
    BY <2>1, <2>2, <2>3, <2>4
<1>4. QED
  BY <1>2, <1>3

----------------------------------------------------------------------------
(* A key goes down *)

\* What the hook changes of the other keys is how they have been used.
Others(k, keys) == \A j \in Keys \ {k} : Same(keys, kvk, j)

\* The prefix that is in effect is marked when a key that is no modifier goes down.
Noted(k, keys) ==
  \A j \in Keys \ {k} :
    j = pPrefixKey /\ k \notin Modifiers /\ kvk[j].was_just_used # "passthrough"
    => keys[j].was_just_used \in Using

UponRelease(k, h) == h = None \/ (h \in enabled /\ h.key = k /\ h.up)

\* While the press of k is being handled.
Begun(k, keys) ==
  /\ Others(k, keys)
  /\ State(keys[k], TRUE, kvk[k].down_performed_action,
           keys[k].hotkey_to_fire_upon_release,
           FALSE, kvk[k].next_up)
  /\ UponRelease(k, keys[k].hotkey_to_fire_upon_release)
  /\ Noted(k, keys)

\* The prefix that is in effect from then on.
PrefixOf(k, prefix) ==
  \/ prefix \in {pPrefixKey, None}
  \/ prefix = k /\ UsedAsPrefix(k) /\ EnabledSuffixes(k) # {}
  \/ prefix \in Keys \ {k} /\ kvk[prefix].is_down /\ \E h \in Combos : h.prefix = prefix

\* The mark w of the key itself: it does not last from one press to another.
OwnMark(k, w, prefix) ==
  SuppressedPrefixes =>
    /\ k \notin Modifiers /\ kvk[k].was_just_used # "passthrough" => w # "passthrough"
    /\ /\ prefix = k
       /\ pPrefixKey = k => /\ kvk[k].was_just_used # "passthrough"
                            /\ k \in Modifiers => EnabledSuffixes(k) # {}
       => w # "passthrough"

\* What has a key-up counterpart leaves something to fire upon release.
Owed(k, keys, fires) ==
  CertainCounterparts /\ (\E h \in fires : hotkey_up(h) # None)
  => keys[k].hotkey_to_fire_upon_release # None

\* k is passed on in spite of being a prefix: see press.second.
Seconds(k) ==
  UsedAsPrefix(k) /\ UsedAsSuffix(k) /\ PrefixCorrected \notin {None, k}

DownPasses(k, performed, release, next_up) ==
  /\ performed => next_up \/ kvk[k].down_performed_action
  /\ UsedAsPrefix(k) /\ k \notin Modifiers \cup Toggles => next_up \/ Seconds(k)
  /\ release # None /\ Eligible(release) /\ Suppressible(k) => next_up \/ release.tilde

\* What comes of the press: the state of the keys, whether it is passed on, what fires.
DownTo(k, keys, pass, fires) ==
  LET performed == keys[k].down_performed_action
      release == keys[k].hotkey_to_fire_upon_release
      next_up == keys[k].next_up
  IN  /\ Others(k, keys)
      /\ keys[k].is_down
      /\ keys[k].hotkey_down_was_suppressed <=> ~pass
      /\ kvk[k].next_up => next_up
      /\ kvk[k].down_performed_action => performed
      /\ UponRelease(k, release)
      /\ ~UsedAsPrefix(k) /\ ~UsedAsSuffix(k) =>
           /\ performed <=> kvk[k].down_performed_action
           /\ next_up <=> kvk[k].next_up
      /\ pass /\ PlainPrefixes => DownPasses(k, performed, release, next_up)
      /\ fires = {} \/ (performed /\ \E h \in enabled : fires = {h} /\ h.key = k)

WayIs(way, keys, prefix, pass, fires, again) ==
  /\ way.kvk = keys /\ way.prefix = prefix /\ way.fires = fires
  /\ way.pass = pass /\ way.again = again

DownWay(k, way) ==
  \E keys \in [Keys -> KeyStates], prefix \in Keys \cup {None}, pass \in BOOLEAN,
     fires \in SUBSET enabled :
    /\ WayIs(way, keys, prefix, pass, fires, FALSE)
    /\ PrefixOf(k, prefix)
    /\ DownTo(k, keys, pass, fires)
    /\ Noted(k, keys) /\ OwnMark(k, keys[k].was_just_used, prefix)
    /\ Owed(k, keys, fires)

LEMMA OwnMarkKept ==
  ASSUME NEW k, NEW prefix, NEW v, NEW w, OwnMark(k, v, prefix), Becomes(v, w)
  PROVE  OwnMark(k, w, prefix)
  BY DEF OwnMark, Becomes, Using

\* Marking a prefix leaves the rest alone.
LEMMA UsedBegun ==
  ASSUME NEW k \in Keys, NEW keys \in [Keys -> KeyStates], Begun(k, keys),
         NEW p \in Keys \cup {None}, NEW as \in {"prefix", "for_hotkey"}
  PROVE  \E used \in [Keys -> KeyStates] :
           used = Used(keys, p, as) /\ Begun(k, used) /\ Same(used, keys, k)
<1>1. PICK used \in [Keys -> KeyStates] :
        used = Used(keys, p, as) /\ \A j \in Keys : Same(used, keys, j)
  BY UsedSame
<1>2. Others(k, used)
  BY <1>1, ZenonT(60) DEF Begun, Others, Same, State, Becomes
<1>3. Noted(k, used)
  BY <1>1 DEF Begun, Noted, Same, Becomes
<1>4. Begun(k, used)
  BY <1>1, <1>2, <1>3 DEF Begun, Same, State
<1>5. QED
  BY <1>1, <1>4

LEMMA WayFires ==
  ASSUME NEW keys, NEW prefix, NEW pass \in BOOLEAN, NEW fires, NEW again \in BOOLEAN
  PROVE  /\ WayIs(Way(keys, prefix, pass), keys, prefix, pass, {}, FALSE)
         /\ WayIs([Way(keys, prefix, pass) EXCEPT !.fires = fires],
                  keys, prefix, pass, fires, FALSE)
         /\ WayIs([Way(keys, prefix, pass) EXCEPT !.fires = fires, !.again = again],
                  keys, prefix, pass, fires, again)
         /\ WayIs([Way(keys, prefix, pass) EXCEPT !.again = again],
                  keys, prefix, pass, {}, again)
  BY DEF Way, WayIs

\* The press fires a hotkey; it is passed on if the hotkey has a tilde, and then so is
\* the release.
LEMMA FiresDownWay ==
  ASSUME HookTyped, NEW k \in Keys, NEW keys \in [Keys -> KeyStates], Begun(k, keys),
         NEW prefix \in Keys \cup {None}, PrefixOf(k, prefix), NEW h, h.key = k,
         UsedAsSuffix(k), NEW combo \in BOOLEAN, Certain(h) # None,
         OwnMark(k, keys[k].was_just_used, prefix), Owed(k, keys, {Certain(h)})
  PROVE  DownWay(k, FiresDown(k, keys, prefix, h, combo))
<1>1. Certain(h) \in enabled /\ Certain(h).key = k /\ Certain(h).tilde \in BOOLEAN
  <2>1. Certain(h) \in enabled /\ Certain(h).key = k
    BY CertainIsLike
  <2>2. Certain(h) \in Known
    BY <2>1 DEF HookTyped
  <2>3. QED
    BY <2>1, <2>2, HotkeysTyped
<1>2. PICK fired \in enabled, tilde \in BOOLEAN :
        fired = Certain(h) /\ tilde = Certain(h).tilde /\ fired.key = k
  BY <1>1
<1>3. PICK used \in [Keys -> KeyStates] :
        /\ Begun(k, used) /\ Same(used, keys, k)
        /\ used = IF combo \/ prefix \in Modifiers THEN Used(keys, prefix, "for_hotkey")
                  ELSE keys
  <2>1. Same(keys, keys, k)
    BY DEF Same, State, Becomes
  <2>2. QED
    BY <2>1, UsedBegun
<1>4. PICK t \in KeyStates :
        /\ FiredAt(used, k, tilde) = Put(used, k, t)
        /\ State(t, used[k].is_down, TRUE, used[k].hotkey_to_fire_upon_release, ~tilde,
                 used[k].next_up \/ tilde)
        /\ t.was_just_used = used[k].was_just_used
  BY FiredState
<1>5. PICK after \in [Keys -> KeyStates] :
        /\ after = FiredAt(used, k, tilde)
        /\ \A j \in Keys : after[j] = IF j = k THEN t ELSE used[j]
  BY <1>4, PutTyped
<1>6. WayIs(FiresDown(k, keys, prefix, h, combo), after, prefix, tilde, {fired}, FALSE)
  <2>1. FiresDown(k, keys, prefix, h, combo)
          = [Way(FiredAt(used, k, tilde), prefix, tilde) EXCEPT !.fires = {fired}]
    BY <1>2, <1>3, Zenon DEF FiresDown, FiredAt
  <2>2. QED
    <3>1. WayIs([Way(FiredAt(used, k, tilde), prefix, tilde) EXCEPT !.fires = {fired}],
                FiredAt(used, k, tilde), prefix, tilde, {fired}, FALSE)
      BY WayFires
    <3>2. QED
      BY <1>5, <2>1, <3>1
<1>7. Others(k, after) /\ Noted(k, after)
  BY <1>3, <1>5 DEF Begun, Others, Same, Noted
<1>8. State(after[k], TRUE, TRUE, used[k].hotkey_to_fire_upon_release, ~tilde,
            kvk[k].next_up \/ tilde)
  BY <1>3, <1>4, <1>5 DEF Begun, State
<1>9. UponRelease(k, after[k].hotkey_to_fire_upon_release)
  BY <1>3, <1>8 DEF Begun, State
<1>10. DownTo(k, after, tilde, {fired})
  <2>1. /\ after[k].is_down /\ after[k].down_performed_action
        /\ after[k].hotkey_down_was_suppressed <=> ~tilde
        /\ after[k].next_up <=> kvk[k].next_up \/ tilde
    BY <1>8 DEF State
  <2>2. tilde => DownPasses(k, after[k].down_performed_action,
                   after[k].hotkey_to_fire_upon_release, after[k].next_up)
    <3>1. tilde => after[k].next_up
      BY <2>1
    <3>2. QED
      BY <3>1, Zenon DEF DownPasses
  <2>3. QED
    BY <1>2, <1>7, <1>9, <2>1, <2>2 DEF DownTo
<1>11. OwnMark(k, after[k].was_just_used, prefix)
  BY <1>3, <1>4, <1>5, OwnMarkKept DEF Same
<1>12. Owed(k, after, {fired})
  BY <1>2, <1>3, <1>8 DEF Owed, Same, State
<1>13. QED
  BY <1>2, <1>6, <1>7, <1>10, <1>11, <1>12 DEF DownWay

\* What is left to fire upon release is eligible, and has no tilde: its press is
\* suppressed.
LEMMA SilencesTyped ==
  ASSUME HookTyped, NEW h
  PROVE  /\ Silences(h) \in BOOLEAN
         /\ h # None /\ Eligible(h) => (Silences(h) <=> ~h.tilde)
         /\ Silences(None) = FALSE
<1>1. Certain(h) # None => Certain(h).tilde \in BOOLEAN
  <2>1. Certain(h) # None => Certain(h) \in Known
    BY CertainIsLike DEF HookTyped
  <2>2. QED
    BY <2>1, HotkeysTyped
<1>2. h # None /\ Eligible(h) => Certain(h) = h
  BY CertainIsLike
<1>3. QED
  BY <1>1, <1>2 DEF Silences, Certain

\* Nothing fires yet: the press is suppressed if what is queued has no tilde.
LEMMA NothingDownWay ==
  ASSUME HookTyped, NEW k \in Keys, NEW keys \in [Keys -> KeyStates], Begun(k, keys),
         NEW prefix \in Keys \cup {None}, PrefixOf(k, prefix), UsedAsSuffix(k),
         ~UsedAsPrefix(k) \/ Seconds(k), OwnMark(k, keys[k].was_just_used, prefix)
  PROVE  DownWay(k, NothingDown(k, keys, prefix))
<1>1. PICK release \in Known \cup {None} : release = keys[k].hotkey_to_fire_upon_release
  BY DEF KeyStates
<1>2. PICK silent \in BOOLEAN :
        /\ silent <=> Silences(release)
        /\ silent = Silences(release)
        /\ release # None /\ Eligible(release) => (silent <=> ~release.tilde)
  BY SilencesTyped
<1>3. PICK t \in KeyStates :
        /\ SuppressedAt(keys, k, silent) = Put(keys, k, t)
        /\ State(t, keys[k].is_down, keys[k].down_performed_action,
                 keys[k].hotkey_to_fire_upon_release, silent, keys[k].next_up)
        /\ t.was_just_used = keys[k].was_just_used
  BY SuppressedState
<1>4. PICK after \in [Keys -> KeyStates] :
        /\ after = SuppressedAt(keys, k, silent)
        /\ \A j \in Keys : after[j] = IF j = k THEN t ELSE keys[j]
  <2>1. Put(keys, k, t) \in [Keys -> KeyStates]
    BY PutTyped
  <2>2. \A j \in Keys : Put(keys, k, t)[j] = IF j = k THEN t ELSE keys[j]
    BY PutTyped
  <2>3. QED
    BY <1>3, <2>1, <2>2
<1>5. PICK pass \in BOOLEAN : pass <=> ~silent
  OBVIOUS
<1>6. WayIs(NothingDown(k, keys, prefix), after, prefix, pass, {}, FALSE)
  <2>1. NothingDown(k, keys, prefix) = Way(after, prefix, ~silent)
    BY <1>1, <1>2, <1>4, Zenon DEF NothingDown, SuppressedAt
  <2>2. WayIs(Way(after, prefix, ~silent), after, prefix, ~silent, {}, FALSE)
    BY WayFires
  <2>3. QED
    BY <1>5, <2>1, <2>2 DEF WayIs
<1>7. Others(k, after) /\ Noted(k, after)
  BY <1>4 DEF Begun, Others, Same, Noted
<1>8. State(after[k], TRUE, kvk[k].down_performed_action, release, silent,
            kvk[k].next_up)
  BY <1>1, <1>3, <1>4 DEF Begun, State
<1>9. UponRelease(k, release)
  BY <1>1 DEF Begun
<1>10. DownTo(k, after, pass, {})
  <2>1. /\ after[k].is_down
        /\ after[k].hotkey_down_was_suppressed <=> ~pass
        /\ after[k].down_performed_action <=> kvk[k].down_performed_action
        /\ after[k].next_up <=> kvk[k].next_up
        /\ after[k].hotkey_to_fire_upon_release = release
    BY <1>5, <1>8 DEF State
  <2>2. pass => DownPasses(k, after[k].down_performed_action, release, after[k].next_up)
    BY <1>2, <1>5, <2>1 DEF DownPasses
  <2>3. QED
    BY <1>7, <1>9, <2>1, <2>2 DEF DownTo
<1>11. OwnMark(k, after[k].was_just_used, prefix) /\ Owed(k, after, {})
  BY <1>3, <1>4 DEF Owed
<1>12. QED
  BY <1>6, <1>7, <1>10, <1>11 DEF DownWay

\* The criterion keeps the hotkey from firing.  That the release is then passed on too
\* depends on the key not being a prefix, for which the release would be suppressed.
LEMMA CannotFireDownWay ==
  ASSUME HookTyped, NEW k \in Keys, NEW keys \in [Keys -> KeyStates], Begun(k, keys),
         NEW prefix \in Keys \cup {None}, PrefixOf(k, prefix), UsedAsSuffix(k),
         PlainPrefixes => ~UsedAsPrefix(k) \/ Seconds(k) \/ k \in Modifiers \cup Toggles,
         OwnMark(k, keys[k].was_just_used, prefix)
  PROVE  DownWay(k, CannotFireDown(k, keys, prefix))
<1>1. PICK release \in Known \cup {None} : release = keys[k].hotkey_to_fire_upon_release
  BY DEF KeyStates
<1>2. UponRelease(k, release)
  BY <1>1 DEF Begun
<1>3. CASE Silences(release)
  <2>1. PICK t \in KeyStates :
          /\ SuppressedAt(keys, k, TRUE) = Put(keys, k, t)
          /\ State(t, keys[k].is_down, keys[k].down_performed_action,
                   keys[k].hotkey_to_fire_upon_release, TRUE, keys[k].next_up)
          /\ t.was_just_used = keys[k].was_just_used
    BY SuppressedState
  <2>2. PICK after \in [Keys -> KeyStates] :
          /\ after = SuppressedAt(keys, k, TRUE)
          /\ \A j \in Keys : after[j] = IF j = k THEN t ELSE keys[j]
    <3>1. Put(keys, k, t) \in [Keys -> KeyStates]
      BY PutTyped
    <3>2. \A j \in Keys : Put(keys, k, t)[j] = IF j = k THEN t ELSE keys[j]
      BY PutTyped
    <3>3. QED
      BY <2>1, <3>1, <3>2
  <2>3. WayIs(CannotFireDown(k, keys, prefix), after, prefix, FALSE, {}, FALSE)
    <3>1. CannotFireDown(k, keys, prefix) = Way(after, prefix, FALSE)
      BY <1>1, <1>3, <2>2, Zenon DEF CannotFireDown, SuppressedAt
    <3>2. QED
      BY <3>1, WayFires
  <2>4. Others(k, after) /\ Noted(k, after)
    BY <2>2 DEF Begun, Others, Same, Noted
  <2>5. State(after[k], TRUE, kvk[k].down_performed_action, release, TRUE,
              kvk[k].next_up)
    BY <1>1, <2>1, <2>2 DEF Begun, State
  <2>6. DownTo(k, after, FALSE, {})
    BY <1>2, <2>4, <2>5 DEF DownTo, State
  <2>7. OwnMark(k, after[k].was_just_used, prefix) /\ Owed(k, after, {})
    BY <2>1, <2>2 DEF Owed
  <2>8. QED
    BY <2>3, <2>4, <2>6, <2>7 DEF DownWay
<1>4. CASE ~Silences(release)
  <2>1. PICK b \in BOOLEAN : b = (release # None)
    OBVIOUS
  <2>2. PICK t \in KeyStates :
          /\ NextUpAt(keys, k, b) = Put(keys, k, t)
          /\ State(t, keys[k].is_down, keys[k].down_performed_action,
                   keys[k].hotkey_to_fire_upon_release,
                   keys[k].hotkey_down_was_suppressed,
                   keys[k].next_up \/ b)
          /\ t.was_just_used = keys[k].was_just_used
    BY NextUpState
  <2>3. PICK after \in [Keys -> KeyStates] :
          /\ after = NextUpAt(keys, k, b)
          /\ \A j \in Keys : after[j] = IF j = k THEN t ELSE keys[j]
    BY <2>2, PutTyped
  <2>4. WayIs(CannotFireDown(k, keys, prefix), after, prefix, TRUE, {}, FALSE)
    <3>1. CannotFireDown(k, keys, prefix) = Way(after, prefix, TRUE)
      BY <1>1, <1>4, <2>1, <2>3, Zenon DEF CannotFireDown, NextUpAt
    <3>2. QED
      BY <3>1, WayFires
  <2>5. Others(k, after) /\ Noted(k, after)
    BY <2>3 DEF Begun, Others, Same, Noted
  <2>6. State(after[k], TRUE, kvk[k].down_performed_action, release, FALSE,
              kvk[k].next_up \/ release # None)
    BY <1>1, <2>1, <2>2, <2>3 DEF Begun, State
  <2>7. DownTo(k, after, TRUE, {})
    <3>1. /\ after[k].is_down
          /\ ~after[k].hotkey_down_was_suppressed
          /\ after[k].down_performed_action <=> kvk[k].down_performed_action
          /\ after[k].next_up <=> kvk[k].next_up \/ release # None
          /\ after[k].hotkey_to_fire_upon_release = release
      BY <2>6 DEF State
    <3>2. PlainPrefixes
            => DownPasses(k, after[k].down_performed_action, release, after[k].next_up)
      BY <3>1 DEF DownPasses
    <3>3. QED
      BY <1>2, <2>5, <3>1, <3>2 DEF DownTo
  <2>8. OwnMark(k, after[k].was_just_used, prefix) /\ Owed(k, after, {})
    BY <2>2, <2>3 DEF Owed
  <2>9. QED
    BY <2>4, <2>5, <2>7, <2>8 DEF DownWay
<1>5. QED
  BY <1>3, <1>4

LEMMA EndsDownWay ==
  ASSUME HookTyped, NEW k \in Keys, NEW keys \in [Keys -> KeyStates], Begun(k, keys),
         NEW prefix \in Keys \cup {None}, PrefixOf(k, prefix), NEW h, h.key = k,
         UsedAsSuffix(k), NEW combo \in BOOLEAN,
         PlainPrefixes => \/ Certain(h) # None \/ ~UsedAsPrefix(k) \/ Seconds(k)
                          \/ k \in Modifiers \cup Toggles,
         OwnMark(k, keys[k].was_just_used, prefix), Owed(k, keys, {Certain(h)})
  PROVE  DownWay(k, EndsDown(k, keys, prefix, h, combo))
  BY FiresDownWay, CannotFireDownWay DEF EndsDown

LEMMA QueuedBegun ==
  ASSUME NEW k \in Keys, NEW keys \in [Keys -> KeyStates], Begun(k, keys),
         NEW r \in Known \cup {None}, UponRelease(k, r)
  PROVE  \E queued \in [Keys -> KeyStates] :
           /\ queued = QueuedAt(keys, k, r) /\ Begun(k, queued)
           /\ queued[k].hotkey_to_fire_upon_release = r
           /\ queued[k].was_just_used = keys[k].was_just_used
<1>1. PICK t \in KeyStates :
        /\ QueuedAt(keys, k, r) = Put(keys, k, t)
        /\ State(t, keys[k].is_down, keys[k].down_performed_action, r,
                 keys[k].hotkey_down_was_suppressed, keys[k].next_up)
        /\ t.was_just_used = keys[k].was_just_used
  BY QueuedState
<1>2. PICK queued \in [Keys -> KeyStates] :
        /\ queued = QueuedAt(keys, k, r)
        /\ \A j \in Keys : queued[j] = IF j = k THEN t ELSE keys[j]
  BY <1>1, PutTyped
<1>3. Others(k, queued) /\ Noted(k, queued)
  BY <1>2 DEF Begun, Others, Same, Noted
<1>4. State(queued[k], TRUE, kvk[k].down_performed_action, r, FALSE, kvk[k].next_up)
  BY <1>1, <1>2 DEF Begun, State
<1>5. Begun(k, queued)
  BY <1>3, <1>4 DEF Begun, State
<1>6. QED
  BY <1>1, <1>2, <1>5 DEF State

\* A combination has no counterpart, and it is certain to fire if key-up hotkeys of its
\* key are.
LEMMA ComboOwesNothing ==
  ASSUME HookTyped, CertainCounterparts, NEW h \in Combos, h.up = FALSE
  PROVE  hotkey_up(Certain(h)) = None
<1>1. SUFFICES ASSUME hotkey_up(Certain(h)) # None
               PROVE  FALSE
  OBVIOUS
<1>2. Certain(h) # None
  BY <1>1 DEF hotkey_up
<1>3. /\ h \in enabled /\ h.prefix # None
      /\ Certain(h).key = h.key
  BY <1>2, CertainIsLike DEF Combos
<1>4. PICK g \in enabled : g = hotkey_up(Certain(h)) /\ g.key = h.key /\ g.up
  BY <1>1, <1>3, CounterpartIsUp
<1>5. h \in Hotkeys /\ g \in Hotkeys /\ h # None
  BY <1>3, HotkeysTyped DEF HookTyped
<1>6. ~h.criterion
  BY <1>3, <1>4, <1>5 DEF CertainCounterparts
<1>7. Certain(h) = h
  BY <1>3, <1>5, <1>6, CertainIsLike DEF Eligible
<1>8. QED
  BY <1>1, <1>7 DEF hotkey_up

\* What a hotkey eclipses has the modifiers that are down: no other hotkey that fires on
\* key-down has those that this one has.
LEMMA OwnOrNone ==
  ASSUME HookTyped, NEW k \in Keys, NEW own \in Exactly(Corrected \ {k}, k, FALSE)
  PROVE  Certain(own) \in {own, None}
<1>1. SUFFICES ASSUME Certain(own) # None, ~Eligible(own)
               PROVE  Certain(own) = own
  <2>1. own \in enabled
    BY DEF Exactly
  <2>2. own # None
    BY <2>1, HotkeysTyped DEF HookTyped
  <2>3. QED
    BY <2>2, CertainIsLike
<1>2. Certain(own) \in Eclipsed(own)
  BY <1>1 DEF Certain, AnyOf
<1>3. PICK e \in Exactly(Corrected, k, FALSE) : e = Certain(own)
  BY <1>2 DEF Eclipsed, Exactly
<1>4. /\ own \in enabled /\ own.prefix = None /\ own.key = k /\ own.up = FALSE
      /\ own.mods = Corrected \ {k}
  BY DEF Exactly, Combos
<1>5. /\ e \in enabled /\ e.prefix = None /\ e.key = k /\ e.up = FALSE
      /\ e.mods = Corrected
  BY DEF Exactly, Combos
<1>6. own \in Hotkeys /\ e \in Hotkeys
  BY <1>4, <1>5, HotkeysTyped DEF HookTyped
<1>7. k \notin Corrected
  BY <1>5, <1>6, KeysAssumption
<1>8. own.mods = e.mods
  BY <1>4, <1>5, <1>7
<1>9. QED
  BY <1>3, <1>4, <1>5, <1>6, <1>8, KeysAssumption

LEMMA OwnIsOwed ==
  ASSUME HookTyped, NEW k \in Keys, NEW own \in Exactly(Corrected \ {k}, k, FALSE),
         NEW keys, NEW r, r # None \/ hotkey_up(own) = None,
         keys[k].hotkey_to_fire_upon_release = r
  PROVE  Owed(k, keys, {Certain(own)})
<1>1. hotkey_up(None) = None
  BY DEF hotkey_up
<1>2. QED
  BY <1>1, OwnOrNone DEF Owed

LEMMA ReleasesOwed ==
  ASSUME NEW r, NEW own, own.up = FALSE
  PROVE  Releases(r, own) # None \/ hotkey_up(own) = None
  BY DEF Releases, hotkey_up

LEMMA SuffixDownWay ==
  ASSUME HookTyped, NEW k \in Keys, NEW keys \in [Keys -> KeyStates], Begun(k, keys),
         NEW prefix \in Keys \cup {None}, PrefixOf(k, prefix), UsedAsSuffix(k),
         ~UsedAsPrefix(k) \/ Seconds(k), prefix = k => pPrefixKey = k,
         Becomes(kvk[k].was_just_used, keys[k].was_just_used),
         NEW way \in SuffixDown(k, keys, prefix)
  PROVE  DownWay(k, way)
<1> DEFINE own == Kvkm(Corrected \ {k}, k)
           combos(up) == IF prefix = None THEN {None} ELSE Either(HeldCombos(k, keys, up))
<1>1. PICK h \in combos(FALSE), r \in combos(TRUE) :
        way = IF h # None THEN EndsDown(k, QueuedAt(keys, k, r), h.prefix, h, TRUE)
              ELSE IF own = None \/ own \in Exactly(Corrected \ {k}, k, TRUE)
                THEN NothingDown(k, QueuedAt(keys, k, Releases(r, own)), prefix)
                ELSE EndsDown(k, QueuedAt(keys, k, Releases(r, own)), prefix, own,
                              FALSE)
  <2> DEFINE end(h, r) ==
               IF h # None THEN EndsDown(k, QueuedAt(keys, k, r), h.prefix, h, TRUE)
               ELSE IF own = None \/ own \in Exactly(Corrected \ {k}, k, TRUE)
                 THEN NothingDown(k, QueuedAt(keys, k, Releases(r, own)), prefix)
                 ELSE EndsDown(k, QueuedAt(keys, k, Releases(r, own)), prefix, own,
                               FALSE)
  <2> DEFINE downs == combos(FALSE)
             ups == combos(TRUE)
  <2>1. SuffixDown(k, keys, prefix) = {end(h, r) : h \in downs, r \in ups}
    BY DEF SuffixDown, QueuedAt
  <2> HIDE DEF end, downs, ups
  <2>2. \E h \in downs, r \in ups : way = end(h, r)
    BY <2>1
  <2>3. QED
    BY <2>2 DEF end, downs, ups
<1>2. \A up \in BOOLEAN : \A c \in combos(up) :
        c # None => /\ c \in enabled /\ c.key = k /\ c.up = up /\ c.prefix # None
                    /\ keys[c.prefix].is_down
  BY DEF Either, HeldCombos, Combos
<1>3. UponRelease(k, r) /\ r \in Known \cup {None}
  BY <1>2 DEF UponRelease, HookTyped
<1>4. h # None => /\ h.key = k /\ h.prefix \in Keys \ {k} /\ PrefixOf(k, h.prefix)
                 /\ h \in Combos /\ h.up = FALSE
  <2>1. SUFFICES ASSUME h # None
                 PROVE  /\ h.key = k /\ h.prefix \in Keys \ {k} /\ PrefixOf(k, h.prefix)
                        /\ h \in Combos /\ h.up = FALSE
    OBVIOUS
  <2>2. /\ h \in enabled /\ h.key = k /\ h.up = FALSE /\ h.prefix # None
        /\ keys[h.prefix].is_down
    BY <1>2, <2>1
  <2>3. h.prefix \in Keys \ {k}
    BY <2>2, HotkeysTyped DEF HookTyped
  <2>4. h \in Combos
    BY <2>2 DEF Combos
  <2>5. kvk[h.prefix].is_down
    BY <2>2, <2>3 DEF Begun, Others, Same, State
  <2>6. QED
    BY <2>2, <2>3, <2>4, <2>5 DEF PrefixOf
<1>5. own # None => own \in enabled /\ own.key = k
                    /\ \/ own \in Exactly(Corrected \ {k}, k, FALSE)
                       \/ own \in Exactly(Corrected \ {k}, k, TRUE)
  BY LookedUp DEF Kvkm, AnyOf
<1>6. Releases(r, own) \in Known \cup {None} /\ UponRelease(k, Releases(r, own))
  <2>1. hotkey_up(own) # None
          => hotkey_up(own) \in enabled /\ hotkey_up(own).key = own.key /\ hotkey_up(own).up
    BY CounterpartIsUp
  <2>2. QED
    BY <1>3, <1>5, <2>1 DEF Releases, UponRelease, HookTyped
<1>7. own \in Exactly(Corrected \ {k}, k, FALSE)
        => Releases(r, own) # None \/ hotkey_up(own) = None
  BY ReleasesOwed DEF Exactly
<1>8. \A p : (p = k => pPrefixKey = k) => OwnMark(k, keys[k].was_just_used, p)
  BY DEF OwnMark, Becomes, Using
<1> HIDE DEF own, combos
<1>9. CASE h # None
  <2>1. PICK queued \in [Keys -> KeyStates] :
          /\ queued = QueuedAt(keys, k, r) /\ Begun(k, queued)
          /\ queued[k].was_just_used = keys[k].was_just_used
    BY <1>3, QueuedBegun
  <2>2. OwnMark(k, queued[k].was_just_used, h.prefix)
    BY <1>4, <1>8, <1>9, <2>1
  <2>3. Owed(k, queued, {Certain(h)})
    BY <1>4, <1>9, ComboOwesNothing DEF Owed
  <2>4. QED
    BY <1>1, <1>4, <1>9, <2>1, <2>2, <2>3, EndsDownWay
<1>10. CASE h = None
  <2>1. PICK queued \in [Keys -> KeyStates] :
          /\ queued = QueuedAt(keys, k, Releases(r, own)) /\ Begun(k, queued)
          /\ queued[k].hotkey_to_fire_upon_release = Releases(r, own)
          /\ queued[k].was_just_used = keys[k].was_just_used
    BY <1>6, QueuedBegun
  <2>2. OwnMark(k, queued[k].was_just_used, prefix)
    BY <1>8, <2>1
  <2>3. CASE own = None \/ own \in Exactly(Corrected \ {k}, k, TRUE)
    BY <1>1, <1>10, <2>1, <2>2, <2>3, NothingDownWay
  <2>4. CASE ~(own = None \/ own \in Exactly(Corrected \ {k}, k, TRUE))
    <3>1. Owed(k, queued, {Certain(own)})
      BY <1>5, <1>7, <2>1, <2>4, OwnIsOwed
    <3>2. QED
      BY <1>1, <1>5, <1>10, <2>1, <2>2, <2>4, <3>1, EndsDownWay
  <2>5. QED
    BY <2>3, <2>4
<1>11. QED
  BY <1>9, <1>10

LEMMA MarkedBegun ==
  ASSUME NEW k \in Keys, NEW keys \in [Keys -> KeyStates], Begun(k, keys),
         NEW w \in Marks
  PROVE  \E marked \in [Keys -> KeyStates] :
           /\ marked = MarkedAt(keys, k, w) /\ Begun(k, marked)
           /\ marked[k].was_just_used = w
<1>1. PICK t \in KeyStates :
        /\ MarkedAt(keys, k, w) = Put(keys, k, t)
        /\ State(t, keys[k].is_down, keys[k].down_performed_action,
                 keys[k].hotkey_to_fire_upon_release,
                 keys[k].hotkey_down_was_suppressed,
                 keys[k].next_up)
        /\ t.was_just_used = w
  BY MarkedState
<1>2. PICK marked \in [Keys -> KeyStates] :
        /\ marked = MarkedAt(keys, k, w)
        /\ \A j \in Keys : marked[j] = IF j = k THEN t ELSE keys[j]
  BY <1>1, PutTyped
<1>3. Others(k, marked) /\ Noted(k, marked)
  BY <1>2 DEF Begun, Others, Same, Noted
<1>4. Begun(k, marked)
  BY <1>1, <1>2, <1>3 DEF Begun, State
<1>5. QED
  BY <1>1, <1>2, <1>4

\* What comes of that.
Ahead(k, keys, after, r, b, c) ==
  /\ Others(k, after) /\ Noted(k, after)
  /\ after[k].was_just_used = keys[k].was_just_used
  /\ State(after[k], TRUE, kvk[k].down_performed_action, r, c, kvk[k].next_up \/ b)

LEMMA AheadBegun ==
  ASSUME NEW k \in Keys, NEW keys \in [Keys -> KeyStates], Begun(k, keys),
         NEW r \in Known \cup {None}, NEW b \in BOOLEAN, NEW c \in BOOLEAN
  PROVE  /\ AheadAt(keys, k, r, b, c) \in [Keys -> KeyStates]
         /\ Ahead(k, keys, AheadAt(keys, k, r, b, c), r, b, c)
<1>1. PICK t \in KeyStates :
        /\ AheadAt(keys, k, r, b, c) = Put(keys, k, t)
        /\ State(t, keys[k].is_down, keys[k].down_performed_action, r, c,
                 keys[k].next_up \/ b)
        /\ t.was_just_used = keys[k].was_just_used
  BY AheadState
<1>2. PICK after \in [Keys -> KeyStates] :
        /\ after = AheadAt(keys, k, r, b, c)
        /\ \A j \in Keys : after[j] = IF j = k THEN t ELSE keys[j]
  <2>1. Put(keys, k, t) \in [Keys -> KeyStates]
    BY PutTyped
  <2>2. \A j \in Keys : Put(keys, k, t)[j] = IF j = k THEN t ELSE keys[j]
    BY PutTyped
  <2>3. QED
    BY <1>1, <2>1, <2>2
<1>3. Others(k, after) /\ Noted(k, after)
  BY <1>2 DEF Begun, Others, Same, Noted
<1>4. State(after[k], TRUE, kvk[k].down_performed_action, r, c, kvk[k].next_up \/ b)
  BY <1>1, <1>2 DEF Begun, State
<1>5. Ahead(k, keys, after, r, b, c)
  BY <1>1, <1>2, <1>3, <1>4 DEF Ahead
<1>6. QED
  BY <1>2, <1>5

\* Therefore its own hotkey can always fire.
LEMMA PrefixFires ==
  ASSUME HookTyped, PlainPrefixes, NEW k \in Keys \ (Modifiers \cup Toggles),
         UsedAsPrefix(k), NEW mods, NEW h \in Exactly(mods, k, FALSE)
  PROVE  Certain(h) # None
<1>1. h \in enabled /\ h.key = k /\ h.prefix = None /\ h.up = FALSE
  BY DEF Exactly, Combos
<1>2. PICK i \in enabled : i.prefix = k
  BY DEF UsedAsPrefix, Combos
<1>3. h \in Known /\ i \in Known
  BY <1>1, <1>2 DEF HookTyped
<1>4. h \in Hotkeys /\ i \in Hotkeys /\ h # None
  BY <1>3, HotkeysTyped
<1>5. ~h.criterion
  BY <1>1, <1>2, <1>4 DEF PlainPrefixes
<1>6. Eligible(h)
  BY <1>1, <1>5 DEF Eligible
<1>7. QED
  BY <1>4, <1>6, CertainIsLike

LEMMA FiresNowIs ==
  ASSUME NEW own, NEW suppress, NEW mods
  PROVE  FiresNow(own, suppress, mods) \in {None, own, hotkey_up(own)}
  BY DEF FiresNow

\* A prefix that has hotkeys of its own is suppressed, if it is of that kind.
LEMMA OwnIsSuppressed ==
  ASSUME HookTyped, SuppressedPrefixes, NEW k \in Keys, UsedAsPrefix(k),
         \/ k \notin Modifiers /\ \E own \in enabled : own.key = k /\ own.prefix = None
         \/ k \in Modifiers /\ EnabledSuffixes(k) # {}
  PROVE  SuppressPrefix(k)
<1>1. CASE k \notin Modifiers /\ \E own \in enabled : own.key = k /\ own.prefix = None
  <2>1. PICK own \in enabled : own.key = k /\ own.prefix = None
    BY <1>1
  <2>2. PICK i \in Combos : i.prefix = k
    BY <1>1 DEF UsedAsPrefix
  <2>3. \A c \in Combos : c.prefix = k => ~c.prefixTilde /\ ~c.criterion
    BY <2>1 DEF Combos, SuppressedPrefixes, HookTyped
  <2>4. i \in EnabledSuffixes(k)
    BY <2>2, <2>3 DEF EnabledSuffixes, Eligible, Combos
  <2>5. ~ComboHasTilde(k)
    BY <2>3 DEF ComboHasTilde
  <2>6. QED
    BY <2>4, <2>5 DEF SuppressPrefix
<1>2. CASE k \in Modifiers /\ EnabledSuffixes(k) # {}
  BY <1>2 DEF SuppressPrefix, ComboHasTilde
<1>3. QED
  BY <1>1, <1>2

\* Case 1: the release is passed on if the press is, since next_up is set whenever the
\* prefix is not suppressed.
LEMMA PrefixDownWay ==
  ASSUME HookTyped, NEW k \in Keys, NEW keys \in [Keys -> KeyStates],
         Begun(k, keys), UsedAsPrefix(k),
         Becomes(kvk[k].was_just_used, keys[k].was_just_used)
  PROVE  DownWay(k, PrefixDown(k, keys))
<1> DEFINE takes == EnabledSuffixes(k) # {}
           mods == Corrected \ {k}
           own == IF UsedAsSuffix(k) THEN Kvkm(mods, k) ELSE None
<1>1. PICK suppress \in BOOLEAN : suppress = SuppressPrefix(k)
  BY DEF SuppressPrefix
<1>2. PICK prefix \in Keys \cup {None} :
        prefix = (IF takes THEN k ELSE PrefixCorrected) /\ PrefixOf(k, prefix)
  BY DEF PrefixCorrected, PrefixOf, HookTyped
<1>3. PICK fresh \in [Keys -> KeyStates] :
        /\ fresh = IF takes /\ PrefixCorrected # k THEN MarkedAt(keys, k, "no") ELSE keys
        /\ Begun(k, fresh)
        /\ fresh[k].was_just_used
             = IF takes /\ PrefixCorrected # k THEN "no" ELSE keys[k].was_just_used
  BY MarkedBegun DEF Marks
<1>4. PICK noted \in [Keys -> KeyStates] :
        /\ noted = IF own # None /\ ~suppress THEN MarkedAt(fresh, k, "passthrough")
                   ELSE fresh
        /\ Begun(k, noted)
        /\ noted[k].was_just_used = IF own # None /\ ~suppress THEN "passthrough"
                                    ELSE fresh[k].was_just_used
  BY <1>3, MarkedBegun DEF Marks
<1>5. own # None
        => /\ own \in enabled /\ own.key = k /\ own.prefix = None
           /\ own \in Exactly(mods, k, FALSE) \/ own.up
  <2>1. Kvkm(mods, k) # None
          => /\ Kvkm(mods, k) \in enabled /\ Kvkm(mods, k).key = k
             /\ \/ Kvkm(mods, k) \in Exactly(mods, k, FALSE)
                \/ Kvkm(mods, k) \in Exactly(mods, k, TRUE)
    BY LookedUp DEF Kvkm, AnyOf
  <2>2. QED
    BY <2>1 DEF Exactly, Combos
<1>6. hotkey_up(own) # None
        => hotkey_up(own) \in enabled /\ hotkey_up(own).key = k /\ hotkey_up(own).up
  <2>1. own = None => hotkey_up(own) = None
    BY DEF hotkey_up
  <2>2. QED
    BY <1>5, <2>1, CounterpartIsUp
<1> HIDE DEF own, takes, mods
<1>7. PICK now \in enabled \cup {None} :
        /\ now = FiresNow(own, suppress, mods)
        /\ now # None => now.key = k /\ (now \in Exactly(mods, k, FALSE) \/ now.up)
  BY <1>5, <1>6, FiresNowIs
<1>8. PICK pass \in BOOLEAN : pass <=> k \in Modifiers \cup Toggles \/ ~suppress
  OBVIOUS
<1>9. now # None => UsedAsSuffix(k)
  BY <1>7 DEF UsedAsSuffix
<1>10. OwnMark(k, noted[k].was_just_used, prefix)
  <2>1. SUFFICES ASSUME SuppressedPrefixes
                 PROVE  OwnMark(k, noted[k].was_just_used, prefix)
    BY DEF OwnMark
  <2>2. ASSUME k \notin Modifiers, own # None
        PROVE  suppress
    <3>1. own \in enabled /\ own.key = k /\ own.prefix = None
      BY <1>5, <2>2
    <3>2. SuppressPrefix(k)
      BY <2>1, <2>2, <3>1, OwnIsSuppressed
    <3>3. QED
      BY <1>1, <3>2
  <2>3. k \in Modifiers /\ takes => suppress
    BY <1>1, <2>1, OwnIsSuppressed, Zenon DEF takes
  <2>4. PrefixCorrected = k => pPrefixKey = k
    BY KeysAssumption DEF PrefixCorrected
  <2>5. kvk[k].was_just_used # "passthrough" => keys[k].was_just_used # "passthrough"
    BY DEF Becomes, Using
  <2>6. ASSUME k \notin Modifiers, kvk[k].was_just_used # "passthrough"
        PROVE  noted[k].was_just_used # "passthrough"
    BY <1>3, <1>4, <2>2, <2>5, <2>6
  <2>7. ASSUME prefix = k, pPrefixKey = k => kvk[k].was_just_used # "passthrough",
               pPrefixKey = k /\ k \in Modifiers => takes
        PROVE  noted[k].was_just_used # "passthrough"
    <3>1. fresh[k].was_just_used # "passthrough"
      <4>1. CASE takes /\ PrefixCorrected # k
        BY <1>3, <4>1
      <4>2. CASE ~(takes /\ PrefixCorrected # k)
        <5>1. PrefixCorrected = k
          <6>1. ~takes => prefix = PrefixCorrected
            BY <1>2, Zenon
          <6>2. takes => PrefixCorrected = k
            BY <4>2, Zenon
          <6>3. QED
            BY <2>7, <6>1, <6>2, Zenon
        <5>2. keys[k].was_just_used # "passthrough"
          BY <2>4, <2>5, <2>7, <5>1
        <5>3. QED
          BY <1>3, <4>2, <5>2
      <4>3. QED
        BY <4>1, <4>2
    <3>2. own # None => suppress
      <4>1. CASE k \notin Modifiers
        BY <2>2, <4>1
      <4>2. CASE k \in Modifiers
        <5>1. takes
          <6>1. SUFFICES ASSUME ~takes
                         PROVE  FALSE
            OBVIOUS
          <6>2. PrefixCorrected = k
            BY <1>2, <2>7, <6>1, Zenon
          <6>3. QED
            BY <2>4, <2>7, <4>2, <6>1, <6>2
        <5>2. QED
          BY <2>3, <4>2, <5>1
      <4>3. QED
        BY <4>1, <4>2
    <3>3. QED
      BY <1>4, <3>1, <3>2
  <2>8. QED
    BY <2>6, <2>7 DEF OwnMark, takes
<1>11. CASE now # None /\ now \in Exactly(mods, k, FALSE)
  <2>1. UponRelease(k, hotkey_up(now)) /\ hotkey_up(now) \in Known \cup {None}
    BY <1>7, <1>11, CounterpartIsUp DEF UponRelease, HookTyped
  <2>2. PICK queued \in [Keys -> KeyStates] :
          /\ queued = QueuedAt(noted, k, hotkey_up(now)) /\ Begun(k, queued)
          /\ queued[k].hotkey_to_fire_upon_release = hotkey_up(now)
          /\ queued[k].was_just_used = noted[k].was_just_used
    BY <1>4, <2>1, QueuedBegun
  <2>3. PrefixDown(k, keys) = EndsDown(k, queued, prefix, now, FALSE)
    BY <1>1, <1>2, <1>3, <1>4, <1>7, <1>11, <2>2
       DEF PrefixDown, QueuedAt, MarkedAt, own, takes, mods
  <2>4. PlainPrefixes => Certain(now) # None \/ k \in Modifiers \cup Toggles
    BY <1>11, PrefixFires
  <2>5. Owed(k, queued, {Certain(now)})
    BY <1>11, <2>2, OwnIsOwed DEF mods
  <2>6. OwnMark(k, queued[k].was_just_used, prefix)
    BY <1>10, <2>2
  <2>7. QED
    BY <1>2, <1>7, <1>9, <1>11, <2>2, <2>3, <2>4, <2>5, <2>6, EndsDownWay, ZenonT(60)
<1>12. CASE ~(now # None /\ now \in Exactly(mods, k, FALSE))
  <2>1. UponRelease(k, now) /\ now \in Known \cup {None}
    BY <1>7, <1>12 DEF UponRelease, HookTyped
  <2>2. PICK passed \in BOOLEAN : passed = ~suppress /\ (passed <=> ~suppress)
    OBVIOUS
  <2>3. PICK silent \in BOOLEAN :
          /\ silent = ~(k \in Modifiers \cup Toggles \/ ~suppress)
          /\ silent <=> ~(k \in Modifiers \cup Toggles \/ ~suppress)
    OBVIOUS
  <2>4. PICK after \in [Keys -> KeyStates] :
          /\ after = AheadAt(noted, k, now, passed, silent)
          /\ Others(k, after) /\ Noted(k, after)
          /\ after[k].was_just_used = noted[k].was_just_used
          /\ State(after[k], TRUE, kvk[k].down_performed_action, now, silent,
                   kvk[k].next_up \/ passed)
    <3>1. Begun(k, noted)
      BY <1>4
    <3>2. /\ AheadAt(noted, k, now, passed, silent) \in [Keys -> KeyStates]
          /\ Ahead(k, noted, AheadAt(noted, k, now, passed, silent), now, passed, silent)
      BY <2>1, <3>1, AheadBegun
    <3>3. QED
      BY <3>2 DEF Ahead
  <2>5. WayIs(PrefixDown(k, keys), after, prefix, pass, {}, FALSE)
    <3>1. PrefixDown(k, keys)
            = Way(after, prefix, k \in Modifiers \cup Toggles \/ ~suppress)
      BY <1>1, <1>2, <1>3, <1>4, <1>7, <1>12, <2>2, <2>3, <2>4
         DEF PrefixDown, AheadAt, MarkedAt, own, takes, mods
    <3>2. WayIs(Way(after, prefix, k \in Modifiers \cup Toggles \/ ~suppress), after,
                prefix, k \in Modifiers \cup Toggles \/ ~suppress, {}, FALSE)
      BY WayFires
    <3>3. QED
      BY <1>8, <3>1, <3>2 DEF WayIs
  <2>6. DownTo(k, after, pass, {})
    <3>1. passed <=> ~suppress
      BY <2>2
    <3>2. silent <=> ~(k \in Modifiers \cup Toggles \/ ~suppress)
      BY <2>3
    <3>3. /\ after[k].is_down
          /\ after[k].hotkey_down_was_suppressed <=> ~pass
          /\ after[k].down_performed_action <=> kvk[k].down_performed_action
          /\ after[k].next_up <=> kvk[k].next_up \/ ~suppress
          /\ after[k].hotkey_to_fire_upon_release = now
      BY <1>8, <2>4, <3>1, <3>2 DEF State
    <3>4. pass => DownPasses(k, after[k].down_performed_action, now, after[k].next_up)
      BY <1>8, <3>3 DEF DownPasses, Suppressible
    <3>5. QED
      BY <2>1, <2>4, <3>3, <3>4 DEF DownTo
  <2>7. Noted(k, after) /\ OwnMark(k, after[k].was_just_used, prefix)
        /\ Owed(k, after, {})
    BY <1>10, <2>4 DEF Owed
  <2>8. QED
    BY <1>2, <2>5, <2>6, <2>7 DEF DownWay
<1>13. QED
  BY <1>11, <1>12

LEMMA PressedBegun ==
  ASSUME HookTyped, NEW k \in Keys
  PROVE  \E begun \in [Keys -> KeyStates] :
           /\ Begun(k, begun)
           /\ begun = IF pPrefixKey # k /\ k \notin Modifiers
                      THEN Used(PressedAt(kvk, k), pPrefixKey, "prefix")
                      ELSE PressedAt(kvk, k)
           /\ Becomes(kvk[k].was_just_used, begun[k].was_just_used)
<1>1. PICK old \in [Keys -> KeyStates], prefix \in Keys \cup {None} :
        old = kvk /\ prefix = pPrefixKey
  BY DEF HookTyped
<1>2. PICK t \in KeyStates :
        /\ PressedAt(old, k) = Put(old, k, t)
        /\ State(t, TRUE, old[k].down_performed_action, None, FALSE, old[k].next_up)
        /\ t.was_just_used = old[k].was_just_used
  BY PressedState
<1>3. PICK pressed \in [Keys -> KeyStates] :
        /\ pressed = PressedAt(kvk, k)
        /\ \A j \in Keys : pressed[j] = IF j = k THEN t ELSE kvk[j]
  <2>1. Put(old, k, t) \in [Keys -> KeyStates]
    BY PutTyped
  <2>2. \A j \in Keys : Put(old, k, t)[j] = IF j = k THEN t ELSE old[j]
    BY PutTyped
  <2>3. QED
    BY <1>1, <1>2, <2>1, <2>2
<1>4. PICK begun \in [Keys -> KeyStates] :
        /\ begun = IF pPrefixKey # k /\ k \notin Modifiers
                   THEN Used(pressed, pPrefixKey, "prefix") ELSE pressed
        /\ \A j \in Keys : Same(begun, pressed, j)
        /\ \A j \in Keys \ {k} :
             j = pPrefixKey /\ k \notin Modifiers
               /\ pressed[j].was_just_used # "passthrough"
             => begun[j].was_just_used = "prefix"
  <2>1. CASE pPrefixKey # k /\ k \notin Modifiers
    <3>1. PICK used \in [Keys -> KeyStates] :
            /\ used = Used(pressed, prefix, "prefix")
            /\ \A j \in Keys : Same(used, pressed, j)
            /\ prefix # None /\ pressed[prefix].was_just_used # "passthrough"
                 => used[prefix].was_just_used = "prefix"
      BY UsedSame
    <3>2. QED
      BY <1>1, <2>1, <3>1, KeysAssumption
  <2>2. CASE ~(pPrefixKey # k /\ k \notin Modifiers)
    <3>1. \A j \in Keys : Same(pressed, pressed, j)
      BY DEF Same, State, Becomes
    <3>2. QED
      BY <2>2, <3>1
  <2>3. QED
    BY <2>1, <2>2
<1>5. Others(k, begun)
  BY <1>3, <1>4 DEF Others, Same
<1>6. Noted(k, begun)
  BY <1>3, <1>4 DEF Noted, Using
<1>7. State(pressed[k], TRUE, kvk[k].down_performed_action, None, FALSE, kvk[k].next_up)
  BY <1>1, <1>2, <1>3
<1>8. State(begun[k], TRUE, kvk[k].down_performed_action, None, FALSE, kvk[k].next_up)
  BY <1>4, <1>7 DEF Same, State
<1>9. Begun(k, begun)
  BY <1>5, <1>6, <1>8 DEF Begun, State, UponRelease
<1>10. Becomes(kvk[k].was_just_used, begun[k].was_just_used)
  BY <1>1, <1>2, <1>3, <1>4 DEF Same
<1>11. QED
  BY <1>3, <1>4, <1>9, <1>10

\* Every way out of LowLevelCommon for a press.
LEMMA DownWaysAre ==
  ASSUME HookTyped, NEW k \in Keys, NEW way \in DownWays(k)
  PROVE  DownWay(k, way)
<1>1. PICK begun \in [Keys -> KeyStates] :
        /\ Begun(k, begun)
        /\ begun = IF pPrefixKey # k /\ k \notin Modifiers
                   THEN Used(PressedAt(kvk, k), pPrefixKey, "prefix")
                   ELSE PressedAt(kvk, k)
        /\ Becomes(kvk[k].was_just_used, begun[k].was_just_used)
  BY PressedBegun
<1>2. way \in IF ~UsedAsPrefix(k) /\ ~UsedAsSuffix(k) THEN {Way(begun, pPrefixKey, TRUE)}
              ELSE IF UsedAsPrefix(k)
                      /\ (PrefixCorrected \in {None, k} \/ ~UsedAsSuffix(k))
              THEN {PrefixDown(k, begun)}
              ELSE SuffixDown(k, begun, PrefixCorrected)
  BY <1>1, Zenon DEF DownWays, PressedAt
<1>3. CASE ~UsedAsPrefix(k) /\ ~UsedAsSuffix(k)
  <2>1. way = Way(begun, pPrefixKey, TRUE)
    BY <1>2, <1>3
  <2>2. WayIs(way, begun, pPrefixKey, TRUE, {}, FALSE)
    BY <2>1, WayFires
  <2>3. begun[k].hotkey_to_fire_upon_release = None
    BY <1>1, <1>3 DEF Begun, UponRelease, UsedAsSuffix
  <2>4. /\ begun[k].is_down
        /\ ~begun[k].hotkey_down_was_suppressed
        /\ begun[k].down_performed_action <=> kvk[k].down_performed_action
        /\ begun[k].next_up <=> kvk[k].next_up
    BY <1>1 DEF Begun, State
  <2>5. DownPasses(k, begun[k].down_performed_action, None, begun[k].next_up)
    BY <1>3, <2>4 DEF DownPasses
  <2>6. DownTo(k, begun, TRUE, {})
    BY <1>1, <2>3, <2>4, <2>5 DEF DownTo, Begun
  <2>7. PrefixOf(k, pPrefixKey) /\ pPrefixKey \in Keys \cup {None}
    BY DEF PrefixOf, HookTyped
  <2>8. Noted(k, begun) /\ OwnMark(k, begun[k].was_just_used, pPrefixKey)
        /\ Owed(k, begun, {})
    BY <1>1 DEF Begun, OwnMark, Becomes, Using, Owed
  <2>9. QED
    BY <2>2, <2>6, <2>7, <2>8 DEF DownWay
<1>4. CASE UsedAsPrefix(k) /\ (PrefixCorrected \in {None, k} \/ ~UsedAsSuffix(k))
  BY <1>1, <1>2, <1>4, PrefixDownWay
<1>5. CASE /\ ~(~UsedAsPrefix(k) /\ ~UsedAsSuffix(k))
           /\ ~(UsedAsPrefix(k) /\ (PrefixCorrected \in {None, k} \/ ~UsedAsSuffix(k)))
  <2>1. way \in SuffixDown(k, begun, PrefixCorrected)
    BY <1>2, <1>5
  <2>2. UsedAsSuffix(k) /\ (~UsedAsPrefix(k) \/ Seconds(k))
    BY <1>5 DEF Seconds
  <2>3. /\ PrefixCorrected \in Keys \cup {None} /\ PrefixOf(k, PrefixCorrected)
        /\ PrefixCorrected = k => pPrefixKey = k
    BY KeysAssumption DEF PrefixCorrected, PrefixOf, HookTyped
  <2>4. QED
    BY <1>1, <2>1, <2>2, <2>3, SuffixDownWay
<1>6. QED
  BY <1>3, <1>4, <1>5

----------------------------------------------------------------------------
(* A key is released *)

UpPrefix(k, prefix) ==
  /\ prefix = k => pPrefixKey = k /\ ~UsedAsPrefix(k)
  /\ \/ prefix \in {pPrefixKey, None}
     \/ /\ prefix \in Keys \ {k} /\ kvk[prefix].is_down
        /\ \E h \in Combos : h.prefix = prefix

\* The key has been used as a prefix.
MarkedUsed(k) == UsedAsPrefix(k) /\ kvk[k].was_just_used \in Using

\* A key that has been used as a prefix fires no key-down hotkey.
SilentIfUsed(k, fires) == \A h \in fires : h.up \/ (h.prefix = None /\ ~MarkedUsed(k))

\* What is to fire upon release does so.
Answers(k, fires) ==
  CertainCounterparts /\ kvk[k].hotkey_to_fire_upon_release \in enabled
  => kvk[k].hotkey_to_fire_upon_release \in fires

\* Key-up hotkeys, or a key-down hotkey of a key that has fired none.
UpFires(k, fires) ==
  /\ \A h \in fires : h.key = k /\ (h.up \/ ~kvk[k].down_performed_action)
  /\ \E d \in enabled \cup {None} : \A h \in fires : h.up \/ h = d

\* What fires is not what the press has provided for: see Deliver.
Unprepared(k, fires) ==
  \E h \in Hotkeys : fires = {h} /\ h.up /\ h # kvk[k].hotkey_to_fire_upon_release

UpPasses(k, pass, fires, again) ==
  Tracked(k) /\ k \in system => pass \/ again \/ Unprepared(k, fires)

UpWay(k, way) ==
  \E keys \in [Keys -> KeyStates], prefix \in Keys \cup {None}, pass \in BOOLEAN,
     fires \in SUBSET enabled, again \in BOOLEAN :
    /\ WayIs(way, keys, prefix, pass, fires, again)
    /\ UpPrefix(k, prefix)
    /\ Others(k, keys)
    /\ ~keys[k].is_down
    /\ keys[k].hotkey_to_fire_upon_release \in {None, kvk[k].hotkey_to_fire_upon_release}
    /\ Becomes(kvk[k].was_just_used, keys[k].was_just_used)
    /\ Tracked(k) => ~keys[k].down_performed_action /\ ~keys[k].next_up
    /\ UpFires(k, fires) /\ SilentIfUsed(k, fires) /\ Answers(k, fires)
    /\ UpPasses(k, pass, fires, again)

\* The key has been dealt with.
Ended(k, keys) ==
  /\ Others(k, keys)
  /\ State(keys[k], FALSE, FALSE, None, kvk[k].hotkey_down_was_suppressed, FALSE)
  /\ Becomes(kvk[k].was_just_used, keys[k].was_just_used)

LEMMA UsedEnded ==
  ASSUME NEW k \in Keys, NEW keys \in [Keys -> KeyStates], Ended(k, keys),
         NEW p \in Keys \cup {None}, NEW as \in {"prefix", "for_hotkey"}
  PROVE  \E used \in [Keys -> KeyStates] : used = Used(keys, p, as) /\ Ended(k, used)
<1>1. PICK used \in [Keys -> KeyStates] :
        used = Used(keys, p, as) /\ \A j \in Keys : Same(used, keys, j)
  BY UsedSame
<1>2. Ended(k, used)
  BY <1>1, ZenonT(60) DEF Ended, Others, Same, State, Becomes
<1>3. QED
  BY <1>1, <1>2

\* What makes a key-up hotkey that is queued certain to fire.
LEMMA QueuedIsCertain ==
  ASSUME HookTyped, Firing, NEW k \in Keys, CertainCounterparts,
         kvk[k].hotkey_to_fire_upon_release \in enabled
  PROVE  /\ kvk[k].hotkey_to_fire_upon_release # None
         /\ Certain(kvk[k].hotkey_to_fire_upon_release)
              = kvk[k].hotkey_to_fire_upon_release
         /\ UsedAsSuffix(k) /\ UsedAsKeyUp(k)
         /\ UsedAsPrefix(k) => k \notin Toggles
<1>1. PICK r \in enabled : r = kvk[k].hotkey_to_fire_upon_release
  OBVIOUS
<1>2. r \in Known /\ r \in Hotkeys /\ r # None
  BY HotkeysTyped DEF HookTyped
<1>3. r.key = k /\ r.up
  BY <1>1, <1>2 DEF Firing, ForRelease
<1>4. Eligible(r)
  BY <1>2, <1>3 DEF CertainCounterparts, Eligible
<1>5. Certain(r) = r
  BY <1>2, <1>4, CertainIsLike
<1>6. UsedAsSuffix(k) /\ UsedAsKeyUp(k)
  BY <1>3 DEF UsedAsSuffix, UsedAsKeyUp
<1>7. ASSUME UsedAsPrefix(k), k \in Toggles
      PROVE  FALSE
  <2>1. PICK i \in enabled : i.prefix = k
    BY <1>7, KeysAssumption DEF UsedAsPrefix, Combos
  <2>2. i \in Hotkeys
    BY HotkeysTyped DEF HookTyped
  <2>3. QED
    BY <1>2, <1>3, <1>7, <2>1, <2>2 DEF CertainCounterparts
<1>8. QED
  BY <1>1, <1>2, <1>5, <1>6, <1>7

\* A release that fires nothing.
LEMMA SilentUpWay ==
  ASSUME NEW k \in Keys, NEW keys \in [Keys -> KeyStates], Ended(k, keys),
         NEW prefix \in Keys \cup {None}, UpPrefix(k, prefix), NEW pass \in BOOLEAN,
         NEW again \in BOOLEAN, NEW way, WayIs(way, keys, prefix, pass, {}, again),
         Tracked(k) /\ k \in system => pass \/ again,
         CertainCounterparts => kvk[k].hotkey_to_fire_upon_release \notin enabled
  PROVE  UpWay(k, way)
<1>1. /\ UpFires(k, {}) /\ UpPasses(k, pass, {}, again)
      /\ SilentIfUsed(k, {}) /\ Answers(k, {})
  BY DEF UpFires, UpPasses, SilentIfUsed, Answers
<1>2. /\ ~keys[k].is_down /\ keys[k].hotkey_to_fire_upon_release = None
      /\ ~keys[k].down_performed_action /\ ~keys[k].next_up
  BY DEF Ended, State
<1>3. QED
  BY <1>1, <1>2 DEF UpWay, Ended

\* How a hotkey may come to fire upon release.
MayFireUp(k, h) ==
  LET queued == kvk[k].hotkey_to_fire_upon_release
  IN  /\ h # None /\ h.key = k
      /\ h = queued \/ queued = None
      /\ \/ h.up
         \/ /\ ~kvk[k].down_performed_action /\ h.prefix = None /\ ~MarkedUsed(k)
            /\ Tracked(k) /\ k \in system /\ Suppressible(k) => kvk[k].next_up

\* A release that fires the hotkey it was promised to is passed on if that has a tilde;
\* one that fires another hotkey is one that the press has not provided for.
LEMMA FiresUp ==
  ASSUME HookTyped, Firing, NEW k \in Keys, NEW h, MayFireUp(k, h), Certain(h) # None
  PROVE  LET fires == {Certain(h), hotkey_up(Certain(h))} \ {None}
         IN  /\ fires \in SUBSET enabled
             /\ UpFires(k, fires) /\ SilentIfUsed(k, fires) /\ Answers(k, fires)
             /\ Tracked(k) /\ k \in system /\ Suppressible(k)
                  => kvk[k].next_up \/ Certain(h).tilde \/ Unprepared(k, fires)
<1> DEFINE fires == {Certain(h), hotkey_up(Certain(h))} \ {None}
<1>1. Certain(h) \in enabled /\ Certain(h).key = k /\ Certain(h).up = h.up
  BY CertainIsLike DEF MayFireUp
<1>2. hotkey_up(Certain(h)) # None
        => /\ hotkey_up(Certain(h)) \in enabled /\ hotkey_up(Certain(h)).key = k
           /\ hotkey_up(Certain(h)).up
  BY <1>1, CounterpartIsUp
<1>3. Certain(h) \in Hotkeys
  BY <1>1, HotkeysTyped DEF HookTyped
<1>4. fires \in SUBSET enabled
  BY <1>1, <1>2
<1>5. UpFires(k, fires)
  BY <1>1, <1>2 DEF UpFires, MayFireUp
<1>6. ASSUME Tracked(k), k \in system, Suppressible(k)
      PROVE  kvk[k].next_up \/ Certain(h).tilde \/ Unprepared(k, fires)
  <2>1. CASE ~h.up
    BY <1>6, <2>1 DEF MayFireUp
  <2>2. CASE h.up
    <3>1. fires = {Certain(h)}
      BY <1>1, <1>3, <2>2, KeysAssumption DEF hotkey_up
    <3>2. CASE Certain(h) # kvk[k].hotkey_to_fire_upon_release
      BY <1>1, <1>3, <2>2, <3>1, <3>2 DEF Unprepared
    <3>3. CASE Certain(h) = kvk[k].hotkey_to_fire_upon_release
      <4>1. Eligible(Certain(h))
        <5>1. CASE Eligible(h)
          BY <5>1, CertainIsLike DEF MayFireUp
        <5>2. CASE ~Eligible(h)
          BY <5>2 DEF Certain, AnyOf, Eclipsed
        <5>3. QED
          BY <5>1, <5>2
      <4>2. QED
        BY <1>6, <3>3, <4>1 DEF Tracked
    <3>4. QED
      BY <3>2, <3>3
  <2>3. QED
    BY <2>1, <2>2
<1>7. SilentIfUsed(k, fires)
  <2>1. ~h.up => h.prefix = None /\ ~MarkedUsed(k) /\ Certain(h).prefix = None
    BY CertainIsLike DEF MayFireUp
  <2>2. QED
    BY <1>1, <1>2, <2>1 DEF SilentIfUsed
<1>8. Answers(k, fires)
  <2>1. SUFFICES ASSUME CertainCounterparts,
                        kvk[k].hotkey_to_fire_upon_release \in enabled
                 PROVE  kvk[k].hotkey_to_fire_upon_release \in fires
    BY DEF Answers
  <2>2. /\ kvk[k].hotkey_to_fire_upon_release # None
        /\ Certain(kvk[k].hotkey_to_fire_upon_release)
             = kvk[k].hotkey_to_fire_upon_release
    BY <2>1, QueuedIsCertain
  <2>3. h = kvk[k].hotkey_to_fire_upon_release
    BY <2>2 DEF MayFireUp
  <2>4. QED
    BY <2>2, <2>3
<1>9. QED
  BY <1>4, <1>5, <1>6, <1>7, <1>8

LEMMA EndsUpWay ==
  ASSUME HookTyped, Firing, NEW k \in Keys,
         NEW keys \in [Keys -> KeyStates], Ended(k, keys),
         NEW prefix \in Keys \cup {None}, UpPrefix(k, prefix), NEW h, MayFireUp(k, h),
         NEW combo \in BOOLEAN
  PROVE  UpWay(k, EndsUp(k, keys, prefix, h, combo))
<1>1. PICK unsilenced \in BOOLEAN, again \in BOOLEAN, next_up \in BOOLEAN :
        /\ unsilenced = ~keys[k].hotkey_down_was_suppressed
        /\ again = (k \in Toggles /\ UsedAsPrefix(k))
        /\ next_up = kvk[k].next_up
  BY DEF HookTyped, KeyStates
<1>2. Tracked(k) /\ k \in system => unsilenced
  BY <1>1 DEF Tracked, Ended, State
<1>3. CASE Certain(h) = None
  <2>1. EndsUp(k, keys, prefix, h, combo) = Way(keys, prefix, unsilenced)
    BY <1>1, <1>3 DEF EndsUp
  <2>2. WayIs(EndsUp(k, keys, prefix, h, combo), keys, prefix, unsilenced, {}, FALSE)
    <3>1. WayIs(Way(keys, prefix, unsilenced), keys, prefix, unsilenced, {}, FALSE)
      BY WayFires
    <3>2. QED
      BY <2>1, <3>1
  <2>3. ASSUME CertainCounterparts, kvk[k].hotkey_to_fire_upon_release \in enabled
        PROVE  FALSE
    <3>1. /\ kvk[k].hotkey_to_fire_upon_release # None
          /\ Certain(kvk[k].hotkey_to_fire_upon_release)
               = kvk[k].hotkey_to_fire_upon_release
      BY <2>3, QueuedIsCertain
    <3>2. QED
      BY <1>3, <3>1 DEF MayFireUp
  <2>4. QED
    BY <1>2, <2>2, <2>3, SilentUpWay
<1>4. CASE Certain(h) # None
  <2>1. PICK fires \in SUBSET enabled :
          /\ fires = {Certain(h), hotkey_up(Certain(h))} \ {None}
          /\ UpFires(k, fires) /\ SilentIfUsed(k, fires) /\ Answers(k, fires)
          /\ Tracked(k) /\ k \in system /\ Suppressible(k)
               => kvk[k].next_up \/ Certain(h).tilde \/ Unprepared(k, fires)
    BY <1>4, FiresUp
  <2>2. PICK tilde \in BOOLEAN : tilde = (kvk[k].next_up \/ Certain(h).tilde)
    OBVIOUS
  <2>3. PICK used \in [Keys -> KeyStates] :
          /\ Ended(k, used)
          /\ used = IF combo THEN Used(keys, prefix, "for_hotkey") ELSE keys
    BY UsedEnded
  <2>4. PICK pass \in BOOLEAN :
          pass = IF k \in Modifiers THEN unsilenced ELSE tilde /\ ~again
    OBVIOUS
  <2>5. EndsUp(k, keys, prefix, h, combo)
          = [Way(used, prefix, pass) EXCEPT !.fires = fires, !.again = again]
    BY <1>1, <1>4, <2>1, <2>2, <2>3, <2>4, Zenon DEF EndsUp
  <2>6. WayIs(EndsUp(k, keys, prefix, h, combo), used, prefix, pass, fires, again)
    <3>1. WayIs([Way(used, prefix, pass) EXCEPT !.fires = fires, !.again = again],
                used, prefix, pass, fires, again)
      BY DEF Way, WayIs
    <3>2. QED
      BY <2>5, <3>1
  <2>7. UpPasses(k, pass, fires, again)
    BY <1>1, <1>2, <2>1, <2>2, <2>4 DEF UpPasses, Suppressible
  <2>8. /\ Others(k, used) /\ ~used[k].is_down
        /\ used[k].hotkey_to_fire_upon_release = None
        /\ ~used[k].down_performed_action /\ ~used[k].next_up
        /\ Becomes(kvk[k].was_just_used, used[k].was_just_used)
    BY <2>3 DEF Ended, State
  <2>9. QED
    BY <2>1, <2>6, <2>7, <2>8 DEF UpWay
<1>5. QED
  BY <1>3, <1>4

LEMMA SuffixUpWay ==
  ASSUME HookTyped, Firing, NEW k \in Keys, NEW keys \in [Keys -> KeyStates],
         Ended(k, keys),
         NEW prefix \in Keys \cup {None}, UpPrefix(k, prefix), UsedAsSuffix(k),
         NEW fell \in BOOLEAN,
         ~fell => /\ ~kvk[k].down_performed_action
                  /\ Tracked(k) /\ k \in system /\ Suppressible(k) => kvk[k].next_up,
         MarkedUsed(k) => kvk[k].hotkey_to_fire_upon_release # None,
         NEW way \in SuffixUp(k, keys, prefix, fell)
  PROVE  UpWay(k, way)
<1> DEFINE queued == kvk[k].hotkey_to_fire_upon_release
           own == Kvkm(Corrected \ {k}, k)
           combos == IF prefix = None \/ queued # None THEN {None}
                     ELSE Either(HeldCombos(k, keys, TRUE))
           found == Found(own, fell)
<1>1. PICK h \in combos :
        way = IF h # None THEN EndsUp(k, keys, h.prefix, h, TRUE)
              ELSE IF queued # None THEN EndsUp(k, keys, prefix, queued, FALSE)
              ELSE IF found # None THEN EndsUp(k, keys, prefix, found, FALSE)
              ELSE Way(keys, prefix, PassesUp(k))
  <2> DEFINE end(h) ==
               IF h # None THEN EndsUp(k, keys, h.prefix, h, TRUE)
               ELSE IF queued # None THEN EndsUp(k, keys, prefix, queued, FALSE)
               ELSE IF found # None THEN EndsUp(k, keys, prefix, found, FALSE)
               ELSE Way(keys, prefix, PassesUp(k))
  <2>1. SuffixUp(k, keys, prefix, fell) = {end(h) : h \in combos}
    BY DEF SuffixUp
  <2> HIDE DEF end, combos
  <2>2. \E h \in combos : way = end(h)
    BY <2>1
  <2>3. QED
    BY <2>2 DEF end
<1>2. CASE h # None
  <2>1. /\ queued = None /\ h \in enabled /\ h.key = k /\ h.up = TRUE /\ h.prefix # None
        /\ keys[h.prefix].is_down
    BY <1>2 DEF Either, HeldCombos, Combos
  <2>2. h.prefix \in Keys \ {k}
    BY <2>1, HotkeysTyped DEF HookTyped
  <2>3. kvk[h.prefix].is_down
    BY <2>1, <2>2 DEF Ended, Others, Same, State
  <2>4. UpPrefix(k, h.prefix)
    BY <2>1, <2>2, <2>3 DEF UpPrefix, Combos
  <2>5. MayFireUp(k, h)
    BY <1>2, <2>1 DEF MayFireUp
  <2>6. QED
    BY <1>1, <1>2, <2>2, <2>4, <2>5, EndsUpWay
<1>3. CASE h = None /\ queued # None
  <2>1. MayFireUp(k, queued)
    BY <1>3 DEF MayFireUp, Firing, ForRelease
  <2>2. QED
    BY <1>1, <1>3, <2>1, EndsUpWay
<1>4. CASE h = None /\ queued = None /\ found # None
  <2>1. own # None => own.key = k /\ own.prefix = None
    BY LookedUp, FoundAlone
  <2>2. hotkey_up(own) # None => hotkey_up(own).key = own.key /\ hotkey_up(own).up
    BY CounterpartIsUp
  <2>3. own = None => found = None
    BY DEF Found
  <2>4. found.key = k /\ (found.up \/ (~fell /\ found.prefix = None))
    BY <1>4, <2>1, <2>2, <2>3 DEF Found
  <2>5. MayFireUp(k, found)
    BY <1>4, <2>4 DEF MayFireUp
  <2>6. QED
    BY <1>1, <1>4, <2>5, EndsUpWay
<1>5. CASE h = None /\ queued = None /\ found = None
  <2>1. PICK pass \in BOOLEAN : pass = PassesUp(k)
    BY DEF PassesUp
  <2>2. way = Way(keys, prefix, pass)
    BY <1>1, <1>5, <2>1
  <2>3. WayIs(way, keys, prefix, pass, {}, FALSE)
    <3>1. WayIs(Way(keys, prefix, pass), keys, prefix, pass, {}, FALSE)
      BY WayFires
    <3>2. QED
      BY <2>2, <3>1
  <2>4. Tracked(k) /\ k \in system => pass
    BY <2>1 DEF PassesUp, Tracked
  <2>5. queued \notin enabled
    BY <1>5, HotkeysTyped DEF HookTyped
  <2>6. QED
    BY <2>3, <2>4, <2>5, SilentUpWay
<1>6. QED
  BY <1>2, <1>3, <1>4, <1>5

LEMMA PrefixUpWay ==
  ASSUME HookTyped, Firing, NEW k \in Keys, NEW keys \in [Keys -> KeyStates],
         Ended(k, keys),
         NEW prefix \in Keys \cup {None}, UpPrefix(k, prefix), UsedAsPrefix(k),
         NEW fell \in BOOLEAN,
         ~fell /\ UsedAsSuffix(k) => ~kvk[k].down_performed_action,
         NEW way \in PrefixUp(k, keys, prefix, fell)
  PROVE  UpWay(k, way)
<1> DEFINE old == kvk[k]
           answered == CertainCounterparts => old.hotkey_to_fire_upon_release \notin enabled
<1>1. Tracked(k) /\ k \in system => k \in Modifiers \cup Toggles \/ old.next_up
  BY DEF Tracked
<1> HIDE DEF answered
<1>2. ~UsedAsSuffix(k) \/ ~UsedAsKeyUp(k) \/ k \in Toggles => answered
  BY QueuedIsCertain DEF answered
<1>3. old.hotkey_to_fire_upon_release = None => answered
  BY HotkeysTyped DEF HookTyped, answered
<1>4. \A pass \in BOOLEAN, again \in BOOLEAN :
        /\ way = [Way(keys, prefix, pass) EXCEPT !.again = again]
        /\ Tracked(k) /\ k \in system => pass \/ again
        /\ answered
        => UpWay(k, way)
  <2>1. SUFFICES ASSUME NEW pass \in BOOLEAN, NEW again \in BOOLEAN,
                        way = [Way(keys, prefix, pass) EXCEPT !.again = again],
                        Tracked(k) /\ k \in system => pass \/ again, answered
                 PROVE  UpWay(k, way)
    OBVIOUS
  <2>2. WayIs([Way(keys, prefix, pass) EXCEPT !.again = again], keys, prefix, pass, {},
              again)
    BY WayFires
  <2>3. WayIs(way, keys, prefix, pass, {}, again)
    BY <2>1, <2>2
  <2>4. QED
    BY <2>1, <2>3, SilentUpWay DEF answered
<1>5. \A pass \in BOOLEAN :
        /\ way = Way(keys, prefix, pass)
        /\ Tracked(k) /\ k \in system => pass
        /\ answered
        => UpWay(k, way)
  <2>1. SUFFICES ASSUME NEW pass \in BOOLEAN, way = Way(keys, prefix, pass),
                        Tracked(k) /\ k \in system => pass, answered
                 PROVE  UpWay(k, way)
    OBVIOUS
  <2>2. WayIs(Way(keys, prefix, pass), keys, prefix, pass, {}, FALSE)
    BY WayFires
  <2>3. WayIs(way, keys, prefix, pass, {}, FALSE)
    BY <2>1, <2>2
  <2>4. QED
    BY <2>1, <2>3, SilentUpWay DEF answered
<1>6. CASE k \in Toggles /\ old.was_just_used = "for_hotkey"
  <2>1. way = [Way(keys, prefix, FALSE) EXCEPT !.again = TRUE]
    BY <1>6 DEF PrefixUp
  <2>2. QED
    BY <1>4, <1>6, <1>2, <2>1
<1>7. CASE ~(k \in Toggles /\ old.was_just_used = "for_hotkey")
           /\ k \in Toggles /\ old.was_just_used = "prefix"
  <2>1. way = Way(keys, prefix, TRUE)
    BY <1>7 DEF PrefixUp
  <2>2. QED
    BY <1>5, <1>7, <1>2, <2>1
<1>8. CASE /\ ~(k \in Toggles /\ old.was_just_used = "for_hotkey")
           /\ ~(k \in Toggles /\ old.was_just_used = "prefix")
           /\ old.was_just_used \in {"prefix", "for_hotkey"}
           /\ old.hotkey_to_fire_upon_release = None
  <2>1. PICK pass \in BOOLEAN : pass = (k \in Modifiers \/ old.next_up)
    OBVIOUS
  <2>2. way = Way(keys, prefix, pass)
    BY <1>8, <2>1 DEF PrefixUp
  <2>3. k \notin Toggles
    BY <1>8
  <2>4. QED
    BY <1>1, <1>5, <1>8, <1>3, <2>1, <2>2, <2>3
<1>9. CASE /\ ~(k \in Toggles /\ old.was_just_used = "for_hotkey")
           /\ ~(k \in Toggles /\ old.was_just_used = "prefix")
           /\ ~(old.was_just_used \in {"prefix", "for_hotkey"}
                /\ old.hotkey_to_fire_upon_release = None)
  <2>1. CASE ~UsedAsSuffix(k)
    <3>1. PICK pass \in BOOLEAN : pass = (k \in Modifiers \cup Toggles \/ old.next_up)
      OBVIOUS
    <3>2. way = Way(keys, prefix, pass)
      BY <1>9, <2>1, <3>1 DEF PrefixUp
    <3>3. QED
      BY <1>1, <1>5, <1>2, <2>1, <3>1, <3>2
  <2>2. CASE UsedAsSuffix(k) /\ ~old.is_down /\ ~UsedAsKeyUp(k)
    <3>1. way = Way(keys, prefix, TRUE)
      BY <1>9, <2>2 DEF PrefixUp
    <3>2. QED
      BY <1>5, <1>2, <2>2, <3>1
  <2>3. CASE UsedAsSuffix(k) /\ ~(~old.is_down /\ ~UsedAsKeyUp(k))
    <3>1. way \in SuffixUp(k, keys, prefix, fell)
      BY <1>9, <2>3 DEF PrefixUp
    <3>2. Tracked(k) /\ k \in system /\ Suppressible(k) => old.next_up
      BY <1>1 DEF Suppressible
    <3>3. MarkedUsed(k) => old.hotkey_to_fire_upon_release # None
      BY <1>9 DEF MarkedUsed, Using
    <3>4. QED
      BY <2>3, <3>1, <3>2, <3>3, SuffixUpWay
  <2>4. QED
    BY <2>1, <2>2, <2>3
<1>10. QED
  BY <1>6, <1>7, <1>8, <1>9

\* The state of the keys at the start of a release, and when it has been forgotten.
LEMMA Forgotten ==
  ASSUME HookTyped, NEW k \in Keys
  PROVE  \E up \in [Keys -> KeyStates], keys \in [Keys -> KeyStates] :
           /\ up = UpAt(kvk, k) /\ Others(k, up)
           /\ State(up[k], FALSE, kvk[k].down_performed_action,
                    kvk[k].hotkey_to_fire_upon_release,
                    kvk[k].hotkey_down_was_suppressed,
                    kvk[k].next_up)
           /\ up[k].was_just_used = kvk[k].was_just_used
           /\ keys = ForgottenAt(up, k) /\ Ended(k, keys)
<1>1. PICK old \in [Keys -> KeyStates] : old = kvk
  BY DEF HookTyped
<1>2. PICK s \in KeyStates :
        /\ UpAt(old, k) = Put(old, k, s)
        /\ State(s, FALSE, old[k].down_performed_action,
                 old[k].hotkey_to_fire_upon_release,
                 old[k].hotkey_down_was_suppressed, old[k].next_up)
        /\ s.was_just_used = old[k].was_just_used
  BY UpState
<1>3. PICK up \in [Keys -> KeyStates] :
        up = UpAt(old, k) /\ \A j \in Keys : up[j] = IF j = k THEN s ELSE old[j]
  <2>1. Put(old, k, s) \in [Keys -> KeyStates]
    BY PutTyped
  <2>2. \A j \in Keys : Put(old, k, s)[j] = IF j = k THEN s ELSE old[j]
    BY PutTyped
  <2>3. QED
    BY <1>2, <2>1, <2>2
<1>4. PICK t \in KeyStates :
        /\ ForgottenAt(up, k) = Put(up, k, t)
        /\ State(t, up[k].is_down, FALSE, None, up[k].hotkey_down_was_suppressed, FALSE)
        /\ t.was_just_used = up[k].was_just_used
  BY ForgottenState
<1>5. PICK keys \in [Keys -> KeyStates] :
        keys = ForgottenAt(up, k) /\ \A j \in Keys : keys[j] = IF j = k THEN t ELSE up[j]
  <2>1. Put(up, k, t) \in [Keys -> KeyStates]
    BY PutTyped
  <2>2. \A j \in Keys : Put(up, k, t)[j] = IF j = k THEN t ELSE up[j]
    BY PutTyped
  <2>3. QED
    BY <1>4, <2>1, <2>2
<1>6. Others(k, up) /\ Others(k, keys)
  BY <1>1, <1>3, <1>5 DEF Others, Same, State, Becomes
<1>7. State(up[k], FALSE, kvk[k].down_performed_action,
            kvk[k].hotkey_to_fire_upon_release, kvk[k].hotkey_down_was_suppressed,
            kvk[k].next_up)
  BY <1>1, <1>2, <1>3
<1>8. State(keys[k], FALSE, FALSE, None, kvk[k].hotkey_down_was_suppressed, FALSE)
  BY <1>4, <1>5, <1>7 DEF State
<1>9. /\ up[k].was_just_used = kvk[k].was_just_used
      /\ keys[k].was_just_used = kvk[k].was_just_used
  BY <1>1, <1>2, <1>3, <1>4, <1>5
<1>10. Ended(k, keys)
  BY <1>6, <1>8, <1>9 DEF Ended, Becomes
<1>11. QED
  BY <1>1, <1>3, <1>5, <1>6, <1>7, <1>9, <1>10

\* Every way out of LowLevelCommon for a release.
LEMMA UpWaysAre ==
  ASSUME HookTyped, Firing, NEW k \in Keys, NEW way \in UpWays(k)
  PROVE  UpWay(k, way)
<1>1. PICK up \in [Keys -> KeyStates], keys \in [Keys -> KeyStates] :
        /\ up = UpAt(kvk, k) /\ Others(k, up)
        /\ State(up[k], FALSE, kvk[k].down_performed_action,
                 kvk[k].hotkey_to_fire_upon_release, kvk[k].hotkey_down_was_suppressed,
                 kvk[k].next_up)
        /\ up[k].was_just_used = kvk[k].was_just_used
        /\ keys = ForgottenAt(up, k) /\ Ended(k, keys)
  BY Forgotten
<1>2. PICK fell \in BOOLEAN :
        fell = (UsedAsSuffix(k) /\ (PrefixCorrected # k \/ kvk[k].down_performed_action))
  OBVIOUS
<1>3. PICK left \in Keys \cup {None} : left = LeftPrefix(k) /\ UpPrefix(k, left)
  BY KeysAssumption DEF LeftPrefix, PrefixCorrected, UpPrefix, HookTyped
<1>4. way \in IF ~UsedAsPrefix(k) /\ ~UsedAsSuffix(k) THEN {Way(up, pPrefixKey, TRUE)}
              ELSE IF fell /\ ~UsedAsKeyUp(k)
                THEN {Way(keys, left, ~kvk[k].down_performed_action \/ kvk[k].next_up)}
              ELSE IF UsedAsPrefix(k) THEN PrefixUp(k, keys, left, fell)
              ELSE SuffixUp(k, keys, IF fell THEN left ELSE PrefixCorrected, fell)
  BY <1>1, <1>2, <1>3, Zenon DEF UpWays, UpAt, ForgottenAt
<1>5. CASE ~UsedAsPrefix(k) /\ ~UsedAsSuffix(k)
  <2>1. way = Way(up, pPrefixKey, TRUE)
    BY <1>4, <1>5
  <2>2. WayIs(way, up, pPrefixKey, TRUE, {}, FALSE)
    <3>1. WayIs(Way(up, pPrefixKey, TRUE), up, pPrefixKey, TRUE, {}, FALSE)
      BY WayFires
    <3>2. QED
      BY <2>1, <3>1
  <2>3. UpPrefix(k, pPrefixKey) /\ pPrefixKey \in Keys \cup {None}
    BY <1>5 DEF UpPrefix, HookTyped
  <2>4. /\ UpFires(k, {}) /\ UpPasses(k, TRUE, {}, FALSE)
        /\ SilentIfUsed(k, {}) /\ Answers(k, {})
    BY <1>5, QueuedIsCertain DEF UpFires, UpPasses, SilentIfUsed, Answers
  <2>5. /\ ~up[k].is_down
        /\ up[k].hotkey_to_fire_upon_release = kvk[k].hotkey_to_fire_upon_release
        /\ Tracked(k) => ~up[k].down_performed_action /\ ~up[k].next_up
        /\ Becomes(kvk[k].was_just_used, up[k].was_just_used)
    BY <1>1, <1>5 DEF State, Tracked, Becomes
  <2>6. QED
    BY <1>1, <2>2, <2>3, <2>4, <2>5 DEF UpWay
<1>6. CASE ~(~UsedAsPrefix(k) /\ ~UsedAsSuffix(k)) /\ fell /\ ~UsedAsKeyUp(k)
  <2>1. PICK pass \in BOOLEAN : pass = (~kvk[k].down_performed_action \/ kvk[k].next_up)
    OBVIOUS
  <2>2. way = Way(keys, left, pass)
    BY <1>4, <1>6, <2>1
  <2>3. WayIs(way, keys, left, pass, {}, FALSE)
    <3>1. WayIs(Way(keys, left, pass), keys, left, pass, {}, FALSE)
      BY WayFires
    <3>2. QED
      BY <2>2, <3>1
  <2>4. Tracked(k) /\ k \in system => pass
    BY <2>1 DEF Tracked
  <2>5. CertainCounterparts => kvk[k].hotkey_to_fire_upon_release \notin enabled
    BY <1>6, QueuedIsCertain
  <2>6. QED
    BY <1>1, <1>3, <2>3, <2>4, <2>5, SilentUpWay
<1>7. CASE ~(fell /\ ~UsedAsKeyUp(k)) /\ UsedAsPrefix(k)
  <2>1. way \in PrefixUp(k, keys, left, fell)
    BY <1>4, <1>7
  <2>2. ~fell /\ UsedAsSuffix(k) => ~kvk[k].down_performed_action
    BY <1>2
  <2>3. QED
    BY <1>1, <1>3, <1>7, <2>1, <2>2, PrefixUpWay
<1>8. CASE UsedAsSuffix(k) /\ ~(fell /\ ~UsedAsKeyUp(k)) /\ ~UsedAsPrefix(k)
  <2>1. PICK prefix \in Keys \cup {None} : prefix = IF fell THEN left ELSE PrefixCorrected
    BY DEF PrefixCorrected, HookTyped
  <2>2. way \in SuffixUp(k, keys, prefix, fell)
    BY <1>4, <1>8, <2>1
  <2>3. UpPrefix(k, prefix)
    BY <1>3, KeysAssumption, <1>8, <2>1 DEF PrefixCorrected, UpPrefix, HookTyped
  <2>4. ~fell => /\ ~kvk[k].down_performed_action
                 /\ Tracked(k) /\ k \in system /\ Suppressible(k) => kvk[k].next_up
    <3>1. SUFFICES ASSUME ~fell
                   PROVE  ~kvk[k].down_performed_action /\ ~Tracked(k)
      OBVIOUS
    <3>2. PrefixCorrected = k /\ ~kvk[k].down_performed_action
      BY <1>2, <1>8, <3>1
    <3>3. pPrefixKey = k
      BY <3>2, KeysAssumption DEF PrefixCorrected
    <3>4. QED
      BY <1>8, <3>2, <3>3 DEF Tracked
  <2>5. ~MarkedUsed(k)
    BY <1>8 DEF MarkedUsed
  <2>6. QED
    BY <1>1, <1>8, <2>2, <2>3, <2>4, <2>5, SuffixUpWay
<1>9. QED
  BY <1>5, <1>6, <1>7, <1>8

----------------------------------------------------------------------------
(* The history of the presses *)

Count(j, fires) == Cardinality({h \in fires : Fires(j, h)})

LEMMA CountIs ==
  ASSUME NEW k, NEW fires, \A h \in fires : h.key = k,
         NEW d, \A h \in fires : h.up \/ h = d
  PROVE  /\ Count(k, fires) \in {0, 1}
         /\ \A j : j # k => Count(j, fires) = 0
         /\ (\A h \in fires : h.up) => Count(k, fires) = 0
<1>1. Cardinality({}) = 0 /\ Cardinality({d}) = 1
  BY FS_EmptySet, FS_Singleton
<1>2. {h \in fires : Fires(k, h)} \in {{}, {d}}
  BY DEF Fires
<1>3. \A j : j # k => {h \in fires : Fires(j, h)} = {}
  BY DEF Fires
<1>4. (\A h \in fires : h.up) => {h \in fires : Fires(k, h)} = {}
  BY DEF Fires
<1>5. QED
  BY <1>1, <1>2, <1>3, <1>4 DEF Count

Counted(p, n, owes, others) ==
  [p EXCEPT !.fired = @ + n, !.owes = owes, !.others = @ \/ others]

PressIs(p, fired, changed, second) ==
  p.fired = fired /\ (p.changed <=> changed) /\ (p.second <=> second)

UsesAre(p, owes, others) == (p.owes <=> owes) /\ (p.others <=> others)

LEMMA CountedIs ==
  ASSUME NEW p \in Presses, NEW n \in Nat, NEW owes \in BOOLEAN, NEW others \in BOOLEAN
  PROVE  /\ Counted(p, n, owes, others) \in Presses
         /\ PressIs(Counted(p, n, owes, others), p.fired + n, p.changed, p.second)
         /\ UsesAre(Counted(p, n, owes, others), owes, p.others \/ others)
<1>1. Counted(p, n, owes, others) = [p EXCEPT !.fired = p.fired + n, !.owes = owes,
                                              !.others = p.others \/ others]
  BY DEF Counted
<1>2. PICK m \in Nat, o \in BOOLEAN : m = p.fired + n /\ o = (p.others \/ others)
  BY DEF Presses
<1>3. Counted(p, n, owes, others) = [p EXCEPT !.fired = m, !.owes = owes, !.others = o]
  BY <1>1, <1>2
<1>4. QED
  BY <1>2, <1>3 DEF Presses, PressIs, UsesAre

\* What the history tells of the press, after n key-down hotkeys have fired.
Going(k, down, p, n, pass, fires) ==
  /\ p.fired = n + (IF down THEN 0 ELSE press[k].fired)
  /\ p.changed <=> IF ~down THEN press[k].changed \/ Unprepared(k, fires)
                   ELSE IF k \notin physical THEN ~Clean(k)
                   ELSE press[k].changed \/ ~(pass <=> k \in system)
  /\ p.second <=> IF ~down THEN press[k].second
                  ELSE (k \in physical /\ press[k].second) \/ (Seconds(k) /\ pass)

ReleasedPress(p, a) == [p EXCEPT !.changed = @ \/ a]
FreshPress(a, b) == [Unpressed EXCEPT !.second = b, !.changed = a]
RepeatedPress(p, a, b) == [p EXCEPT !.fired = 0, !.second = @ \/ b, !.changed = @ \/ a]

LEMMA GoingIs ==
  ASSUME NEW p \in Presses, NEW a \in BOOLEAN, NEW b \in BOOLEAN
  PROVE  /\ ReleasedPress(p, a) \in Presses
         /\ PressIs(ReleasedPress(p, a), p.fired, p.changed \/ a, p.second)
         /\ UsesAre(ReleasedPress(p, a), p.owes, p.others)
         /\ FreshPress(a, b) \in Presses
         /\ PressIs(FreshPress(a, b), 0, a, b)
         /\ UsesAre(FreshPress(a, b), FALSE, FALSE)
         /\ RepeatedPress(p, a, b) \in Presses
         /\ PressIs(RepeatedPress(p, a, b), 0, p.changed \/ a, p.second \/ b)
         /\ UsesAre(RepeatedPress(p, a, b), p.owes, p.others)
  BY DEF Presses, Unpressed, PressIs, UsesAre, ReleasedPress, FreshPress, RepeatedPress

\* What it tells of how the keys have been used, after k has gone down or up.
UsesAfter(k, down, fires) ==
  /\ \A j \in Keys \ {k} :
       UsesAre(press'[j], press[j].owes,
               press[j].others \/ (down /\ j = pPrefixKey /\ k \notin Modifiers))
  /\ UsesAre(press'[k], down /\ \E h \in fires : hotkey_up(h) # None,
             (down => k \in physical) /\ press[k].others)

\* n key-down hotkeys of k fire, and no other.
Counts(k, fires, n) == \A j \in Keys : Count(j, fires) = IF j = k THEN n ELSE 0

PressesAre(k, down, n, pass, fires) ==
  /\ press' \in [Keys -> Presses]
  /\ \A j \in Keys \ {k} :
       PressIs(press'[j], press[j].fired, press[j].changed, press[j].second)
  /\ Going(k, down, press'[k], n, pass, fires)
  /\ UsesAfter(k, down, fires)

\* What Deliver writes down of the press.
LEMMA PressAfter ==
  ASSUME HookTyped, NEW k \in Keys, NEW down \in BOOLEAN, NEW way,
         Deliver(k, down, way),
         NEW keys, NEW prefix, NEW pass \in BOOLEAN, NEW fires \in SUBSET enabled,
         NEW again \in BOOLEAN, WayIs(way, keys, prefix, pass, fires, again),
         NEW n \in {0, 1}, Counts(k, fires, n)
  PROVE  PressesAre(k, down, n, pass, fires)
<1> USE DEF Counts
<1> DEFINE fresh == k \notin physical
           second == /\ UsedAsPrefix(k) /\ UsedAsSuffix(k) /\ way.pass
                     /\ PrefixCorrected \notin {None, k}
           unprepared == \E h \in Hotkeys : /\ way.fires = {h} /\ h.up
                                            /\ h # kvk[k].hotkey_to_fire_upon_release
           differs == way.pass # (k \in system)
           begun == IF ~down THEN [press[k] EXCEPT !.changed = @ \/ unprepared]
                    ELSE IF fresh THEN [Unpressed EXCEPT !.second = second,
                                                         !.changed = ~Clean(k)]
                    ELSE [press[k] EXCEPT !.fired = 0, !.second = @ \/ second,
                                          !.changed = @ \/ differs]
<1> HIDE DEF fresh, second, unprepared, differs, begun
<1>1. PICK b \in Presses :
        /\ b = begun /\ Going(k, down, b, 0, pass, fires)
        /\ b.others <=> (down => k \in physical) /\ press[k].others
  <2>1. PICK p \in Presses : p = press[k]
    BY DEF HookTyped
  <2>2. way.fires = fires /\ way.pass = pass
    BY DEF WayIs
  <2>3. PICK a \in BOOLEAN : a = second /\ (a <=> Seconds(k) /\ pass)
    BY <2>2 DEF Seconds, second
  <2>4. CASE ~down
    <3>1. PICK c \in BOOLEAN : c = unprepared /\ (c <=> Unprepared(k, fires))
      BY <2>2 DEF Unprepared, unprepared
    <3>2. begun = ReleasedPress(p, c)
      BY <2>1, <2>4, <3>1, Zenon DEF ReleasedPress, begun
    <3>3. QED
      <4>1. /\ ReleasedPress(p, c) \in Presses
            /\ PressIs(ReleasedPress(p, c), p.fired, p.changed \/ c, p.second)
            /\ UsesAre(ReleasedPress(p, c), p.owes, p.others)
        BY <2>1, <2>4, GoingIs
      <4>2. QED
        BY <2>1, <2>4, <3>1, <3>2, <4>1 DEF Going, PressIs, UsesAre, Presses, fresh
  <2>5. CASE down /\ fresh
    <3>1. PICK c \in BOOLEAN : c = (~Clean(k)) /\ (c <=> ~Clean(k))
      OBVIOUS
    <3>2. begun = FreshPress(c, a)
      BY <2>3, <2>5, <3>1, Zenon DEF FreshPress, begun
    <3>3. QED
      <4>1. /\ FreshPress(c, a) \in Presses
            /\ PressIs(FreshPress(c, a), 0, c, a)
            /\ UsesAre(FreshPress(c, a), FALSE, FALSE)
        BY <2>3, <2>5, GoingIs, ZenonT(60)
      <4>2. QED
        BY <2>3, <2>5, <3>1, <3>2, <4>1 DEF Going, PressIs, UsesAre, Presses, fresh
  <2>6. CASE down /\ ~fresh
    <3>1. PICK c \in BOOLEAN :
            c = (pass # (k \in system)) /\ (c <=> ~(pass <=> k \in system))
      <4>1. CASE k \in system
        <5>1. CASE pass
          BY <4>1, <5>1
        <5>2. CASE ~pass
          BY <4>1, <5>2
        <5>3. QED
          BY <5>1, <5>2
      <4>2. CASE k \notin system
        <5>1. CASE pass
          BY <4>2, <5>1
        <5>2. CASE ~pass
          BY <4>2, <5>2
        <5>3. QED
          BY <5>1, <5>2
      <4>3. QED
        BY <4>1, <4>2
    <3>2. begun = RepeatedPress(p, c, a)
      <4>1. c = differs
        BY <2>2, <3>1 DEF differs
      <4>2. begun = [press[k] EXCEPT !.fired = 0, !.second = @ \/ second,
                                     !.changed = @ \/ differs]
        BY <2>6, Zenon DEF begun
      <4>3. begun = RepeatedPress(p, differs, second)
        BY <2>1, <4>2, Zenon DEF RepeatedPress
      <4>4. QED
        BY <2>3, <4>1, <4>3, Zenon
    <3>3. QED
      <4>1. /\ RepeatedPress(p, c, a) \in Presses
            /\ PressIs(RepeatedPress(p, c, a), 0, p.changed \/ c, p.second \/ a)
            /\ UsesAre(RepeatedPress(p, c, a), p.owes, p.others)
        BY <2>1, <2>3, <2>6, GoingIs
      <4>2. QED
        BY <2>1, <2>3, <2>6, <3>1, <3>2, <4>1 DEF Going, PressIs, UsesAre, Presses, fresh
  <2>7. QED
    BY <2>4, <2>5, <2>6
<1>2. \A j \in Keys : \E p \in Presses, owes \in BOOLEAN, others \in BOOLEAN :
        /\ p = IF j = k THEN b ELSE press[j]
        /\ owes <=> IF j # k THEN p.owes ELSE down /\ \E h \in fires : hotkey_up(h) # None
        /\ others <=> down /\ j # k /\ j = pPrefixKey /\ k \notin Modifiers
        /\ press'[j] = Counted(p, Count(j, fires), owes, others)
  <2>1. SUFFICES ASSUME NEW j \in Keys
                 PROVE  \E p \in Presses, owes \in BOOLEAN, others \in BOOLEAN :
                          /\ p = IF j = k THEN b ELSE press[j]
                          /\ owes <=> IF j # k THEN p.owes
                                      ELSE down /\ \E h \in fires : hotkey_up(h) # None
                          /\ others <=> down /\ j # k /\ j = pPrefixKey
                                        /\ k \notin Modifiers
                          /\ press'[j] = Counted(p, Count(j, fires), owes, others)
    OBVIOUS
  <2>2. PICK p \in Presses : p = IF j = k THEN b ELSE press[j]
    BY DEF HookTyped
  <2>3. PICK owes \in BOOLEAN :
          owes = IF j # k THEN p.owes
                 ELSE down /\ \E h \in way.fires : hotkey_up(h) # None
    BY DEF Presses
  <2>4. PICK others \in BOOLEAN :
          others = (down /\ j # k /\ j = pPrefixKey /\ k \notin Modifiers)
    OBVIOUS
  <2>5. press'[j] = Counted(p, Count(j, way.fires), owes, others)
    BY <1>1, <2>2, <2>3, <2>4 DEF Deliver, Counted, Count, begun, fresh, second,
       unprepared, differs
  <2>6. way.fires = fires
    BY DEF WayIs
  <2>7. owes <=> IF j # k THEN p.owes ELSE down /\ \E h \in fires : hotkey_up(h) # None
    BY <2>3, <2>6
  <2>8. press'[j] = Counted(p, Count(j, fires), owes, others)
    BY <2>5, <2>6
  <2>9. others <=> down /\ j # k /\ j = pPrefixKey /\ k \notin Modifiers
    BY <2>4
  <2> HIDE DEF Counts
  <2>10. QED
    BY ONLY <2>2, <2>7, <2>8, <2>9, p \in Presses, owes \in BOOLEAN, others \in BOOLEAN
<1>3. \A j \in Keys :
        LET p == IF j = k THEN b ELSE press[j]
        IN  /\ press'[j] \in Presses
            /\ press'[j].fired = p.fired + Count(j, fires)
            /\ press'[j].changed <=> p.changed
            /\ press'[j].second <=> p.second
            /\ press'[j].owes
                 <=> IF j # k THEN p.owes ELSE down /\ \E h \in fires : hotkey_up(h) # None
            /\ press'[j].others
                 <=> p.others \/ (down /\ j # k /\ j = pPrefixKey /\ k \notin Modifiers)
  <2>1. SUFFICES ASSUME NEW j \in Keys
                 PROVE  LET p == IF j = k THEN b ELSE press[j]
                        IN  /\ press'[j] \in Presses
                            /\ press'[j].fired = p.fired + Count(j, fires)
                            /\ press'[j].changed <=> p.changed
                            /\ press'[j].second <=> p.second
                            /\ press'[j].owes
                                 <=> IF j # k THEN p.owes
                                     ELSE down /\ \E h \in fires : hotkey_up(h) # None
                            /\ press'[j].others
                                 <=> p.others \/ (down /\ j # k /\ j = pPrefixKey
                                                  /\ k \notin Modifiers)
    OBVIOUS
  <2>2. PICK p \in Presses, owes \in BOOLEAN, others \in BOOLEAN, m \in Nat :
          /\ p = IF j = k THEN b ELSE press[j]
          /\ m = Count(j, fires)
          /\ owes <=> IF j # k THEN p.owes ELSE down /\ \E h \in fires : hotkey_up(h) # None
          /\ others <=> down /\ j # k /\ j = pPrefixKey /\ k \notin Modifiers
          /\ press'[j] = Counted(p, m, owes, others)
    BY <1>2
  <2>3. /\ Counted(p, m, owes, others) \in Presses
        /\ PressIs(Counted(p, m, owes, others), p.fired + m, p.changed, p.second)
        /\ UsesAre(Counted(p, m, owes, others), owes, p.others \/ others)
    BY CountedIs
  <2>4. QED
    BY <2>2, <2>3 DEF PressIs, UsesAre
<1>4. press' \in [Keys -> Presses]
  <2>1. press' = [j \in Keys |-> press'[j]]
    <3> DEFINE after(j) ==
                 LET p == IF j = k THEN begun ELSE press[j]
                 IN  [p EXCEPT
                        !.fired = @ + Cardinality({h \in way.fires : Fires(j, h)}),
                        !.owes = IF j # k THEN @
                                 ELSE down /\ \E h \in way.fires : hotkey_up(h) # None,
                        !.others = @ \/ (down /\ j # k /\ j = pPrefixKey
                                        /\ k \notin Modifiers)]
    <3>1. press' = [j \in Keys |-> after(j)]
      BY Zenon DEF Deliver, begun, fresh, second, unprepared, differs
    <3> HIDE DEF after
    <3>2. QED
      BY <3>1
  <2>2. QED
    BY <1>3, <2>1
<1>5. \A j \in Keys \ {k} :
        PressIs(press'[j], press[j].fired, press[j].changed, press[j].second)
  <2>1. SUFFICES ASSUME NEW j \in Keys \ {k}
                 PROVE  PressIs(press'[j], press[j].fired, press[j].changed,
                                press[j].second)
    OBVIOUS
  <2>2. press[j].fired \in Nat
    BY DEF HookTyped, Presses
  <2>3. QED
    BY <1>3, <2>2 DEF PressIs
<1>6. Going(k, down, press'[k], n, pass, fires)
  BY <1>1, <1>3 DEF Going, HookTyped, Presses
<1>7. \A j \in Keys \ {k} :
        UsesAre(press'[j], press[j].owes,
                press[j].others \/ (down /\ j = pPrefixKey /\ k \notin Modifiers))
  BY <1>3 DEF UsesAre
<1>8. UsesAre(press'[k], down /\ \E h \in fires : hotkey_up(h) # None,
              (down => k \in physical) /\ press[k].others)
  BY <1>1, <1>3 DEF UsesAre
<1>9. UsesAfter(k, down, fires)
  BY <1>7, <1>8 DEF UsesAfter
<1>10. QED
  BY <1>4, <1>5, <1>6, <1>9 DEF PressesAre

----------------------------------------------------------------------------
(* A key is delivered *)

\* What a key event does not touch of another key.
LEMMA OtherKept ==
  ASSUME HookTyped, NEW k \in Keys, NEW j \in Keys \ {k},
         NEW keys \in [Keys -> KeyStates], kvk' = keys, Same(keys, kvk, j),
         enabled' = enabled, holds' = holds,
         j \in system' <=> j \in system, j \in physical' <=> j \in physical,
         PressIs(press'[j], press[j].fired, press[j].changed, press[j].second),
         PrefixOf(k, pPrefixKey'),
         Disturbed(j) \/ IF j \in physical THEN Tracked(j) ELSE Clean(j)
  PROVE  Disturbed(j)' \/ IF j \in physical' THEN Tracked(j)' ELSE Clean(j)'
<1>1. Disturbed(j)' <=> Disturbed(j)
  BY DEF Disturbed, PressIs
<1>2. CASE Disturbed(j)
  BY <1>1, <1>2
<1>3. State(keys[j], kvk[j].is_down, kvk[j].down_performed_action,
            kvk[j].hotkey_to_fire_upon_release, kvk[j].hotkey_down_was_suppressed,
            kvk[j].next_up)
  BY DEF Same
<1>4. /\ UsedAsPrefix(j)' <=> UsedAsPrefix(j)
      /\ UsedAsSuffix(j)' <=> UsedAsSuffix(j)
      /\ Suppressible(j)' <=> Suppressible(j)
  BY DEF UsedAsPrefix, UsedAsSuffix, Suppressible, Combos
<1>5. \A h : Eligible(h)' <=> Eligible(h)
  BY DEF Eligible
<1>6. pPrefixKey' = j => pPrefixKey = j \/ (UsedAsPrefix(j) /\ kvk[j].is_down)
  BY KeysAssumption DEF PrefixOf, UsedAsPrefix, Combos
<1>7. CASE j \in physical /\ Tracked(j)
  <2>1. pPrefixKey' = j => UsedAsPrefix(j)'
    BY <1>4, <1>6, <1>7 DEF Tracked
  <2>2. Tracked(j)'
    BY <1>3, <1>4, <1>5, <1>7, <2>1 DEF Tracked, State
  <2>3. QED
    BY <1>7, <2>2
<1>8. CASE j \notin physical /\ Clean(j)
  BY <1>3, <1>6, <1>8 DEF Clean, State
<1>9. QED
  BY <1>2, <1>7, <1>8

LEMMA DownStep ==
  ASSUME HookInv, NEW k \in Keys, Down(k)
  PROVE  HookInv'
<1>1. PICK way \in DownWays(k) : Deliver(k, TRUE, way)
  BY DEF Down
<1>2. HookTyped /\ Firing /\ (PlainPrefixes => Kept)
  BY DEF HookInv
<1>3. PICK keys \in [Keys -> KeyStates], prefix \in Keys \cup {None}, pass \in BOOLEAN,
           fires \in SUBSET enabled :
        /\ WayIs(way, keys, prefix, pass, fires, FALSE)
        /\ PrefixOf(k, prefix)
        /\ DownTo(k, keys, pass, fires)
  BY <1>1, <1>2, DownWaysAre DEF DownWay
<1>4. /\ kvk' = keys /\ pPrefixKey' = prefix /\ enabled' = enabled /\ holds' = holds
      /\ physical' = physical \cup {k}
  BY <1>1, <1>3 DEF Deliver, WayIs, Down
<1>5. PICK n \in {0, 1} :
        /\ Counts(k, fires, n)
        /\ n = 1 => keys[k].down_performed_action
  <2>1. fires = {} \/ (keys[k].down_performed_action
                       /\ \E h \in enabled : fires = {h} /\ h.key = k)
    BY <1>3 DEF DownTo
  <2>2. CASE fires = {}
    BY <2>2, CountIs DEF Counts
  <2>3. CASE keys[k].down_performed_action /\ \E h \in enabled : fires = {h} /\ h.key = k
    BY <2>3, CountIs DEF Counts
  <2>4. QED
    BY <2>1, <2>2, <2>3
<1>6. /\ press' \in [Keys -> Presses]
      /\ \A j \in Keys \ {k} :
           PressIs(press'[j], press[j].fired, press[j].changed, press[j].second)
      /\ Going(k, TRUE, press'[k], n, pass, fires)
  <2>1. PressesAre(k, TRUE, n, pass, fires)
    BY <1>1, <1>2, <1>3, <1>5, PressAfter
  <2>2. QED
    BY <2>1 DEF PressesAre
<1>7. /\ \A j \in Keys \ {k} : j \in system' <=> j \in system
      /\ ~pass => (k \in system' => k \in system)
      /\ system' \subseteq system \cup {k}
  <2>1. PICK mods : system' = SystemSees(k, TRUE, way, mods)
    BY <1>1 DEF Deliver
  <2>2. QED
    BY <1>3, <2>1 DEF SystemSees, WayIs
<1>8. HookTyped'
  BY <1>2, <1>4, <1>6, <1>7 DEF HookTyped
<1>9. Firing'
  <2>1. SUFFICES ASSUME NEW j \in Keys
                 PROVE  /\ ForRelease(j, keys[j].hotkey_to_fire_upon_release)
                        /\ press'[j].fired <= 1
                        /\ press'[j].fired = 1 /\ j \in physical'
                             => keys[j].down_performed_action
    BY <1>4 DEF Firing
  <2>2. CASE j = k
    <3>1. ForRelease(k, keys[k].hotkey_to_fire_upon_release)
      BY <1>2, <1>3 DEF DownTo, UponRelease, ForRelease, HookTyped
    <3>2. press'[k].fired = n
      BY <1>6 DEF Going
    <3>3. QED
      BY <1>5, <2>2, <3>1, <3>2
  <2>3. CASE j # k
    <3>1. Same(keys, kvk, j)
      BY <1>3, <2>3 DEF DownTo, Others
    <3>2. press'[j].fired = press[j].fired
      BY <1>6, <2>3 DEF PressIs
    <3>3. QED
      BY <1>2, <1>4, <2>3, <3>1, <3>2 DEF Firing, Same, State
  <2>4. QED
    BY <2>2, <2>3
<1>10. ASSUME PlainPrefixes PROVE Kept'
  <2>1. SUFFICES ASSUME NEW j \in Keys
                 PROVE  Disturbed(j)' \/ IF j \in physical' THEN Tracked(j)' ELSE Clean(j)'
    BY DEF Kept
  <2>2. Disturbed(j) \/ IF j \in physical THEN Tracked(j) ELSE Clean(j)
    BY <1>2, <1>10 DEF Kept
  <2>3. CASE j # k
    <3>1. Same(keys, kvk, j)
      BY <1>3, <2>3 DEF DownTo, Others
    <3>2. j \in system' <=> j \in system
      BY <1>7, <2>3
    <3>3. j \in physical' <=> j \in physical
      BY <1>4, <2>3
    <3>4. PressIs(press'[j], press[j].fired, press[j].changed, press[j].second)
      BY <1>6, <2>3
    <3>5. QED
      BY <1>2, <1>3, <1>4, <2>2, <2>3, <3>1, <3>2, <3>3, <3>4, OtherKept
  <2>4. CASE j = k
    <3>1. SUFFICES ASSUME ~Disturbed(k)'
                   PROVE  Tracked(k)'
      BY <1>4, <2>4
    <3>2. /\ k \notin physical => Clean(k)
          /\ k \in physical => Tracked(k) /\ (pass <=> k \in system)
          /\ ~(Seconds(k) /\ pass)
      BY <1>6, <2>2, <2>4, <3>1 DEF Going, Disturbed
    <3>3. prefix = k => UsedAsPrefix(k)
      BY <1>3, <3>2, KeysAssumption DEF PrefixOf, Clean, Tracked
    <3>4. ~UsedAsPrefix(k) /\ ~UsedAsSuffix(k)
            => ~kvk[k].down_performed_action /\ ~kvk[k].next_up
      BY <3>2 DEF Clean, Tracked
    <3>5. k \in system' => pass /\ (kvk[k].down_performed_action => kvk[k].next_up)
      BY <1>7, <3>2 DEF Clean, Tracked
    <3>6. /\ UsedAsPrefix(k)' <=> UsedAsPrefix(k)
          /\ UsedAsSuffix(k)' <=> UsedAsSuffix(k)
          /\ Suppressible(k)' <=> Suppressible(k)
      BY <1>4 DEF UsedAsPrefix, UsedAsSuffix, Suppressible, Combos
    <3>7. \A h : Eligible(h)' <=> Eligible(h)
      BY <1>4 DEF Eligible
    <3>8. k \in system' => DownPasses(k, keys[k].down_performed_action,
                                     keys[k].hotkey_to_fire_upon_release,
                                     keys[k].next_up)
      BY <1>3, <1>10, <3>5 DEF DownTo
    <3>9. k \in system' =>
            /\ keys[k].down_performed_action => keys[k].next_up
            /\ ~keys[k].hotkey_down_was_suppressed
      BY <1>3, <3>5, <3>8 DEF DownTo, DownPasses
    <3>10. k \in system' =>
             /\ UsedAsPrefix(k) /\ k \notin Modifiers \cup Toggles => keys[k].next_up
             /\ LET release == keys[k].hotkey_to_fire_upon_release
                IN  release # None /\ Eligible(release) /\ Suppressible(k)
                      => keys[k].next_up \/ release.tilde
      BY <3>2, <3>5, <3>8 DEF DownPasses
    <3>11. /\ keys[k].is_down
           /\ keys[k].hotkey_to_fire_upon_release \in enabled \cup {None}
           /\ ~UsedAsPrefix(k) /\ ~UsedAsSuffix(k)
                => ~keys[k].down_performed_action /\ ~keys[k].next_up
      BY <1>3, <3>4 DEF DownTo, UponRelease
    <3>12. QED
      BY <1>4, <3>3, <3>6, <3>7, <3>9, <3>10, <3>11 DEF Tracked
  <2>5. QED
    BY <2>3, <2>4
<1>11. QED
  BY <1>8, <1>9, <1>10 DEF HookInv

LEMMA UpStep ==
  ASSUME HookInv, NEW k \in Keys, Up(k)
  PROVE  HookInv'
<1>1. PICK way \in UpWays(k) : Deliver(k, FALSE, way)
  BY DEF Up
<1>2. HookTyped /\ Firing /\ (PlainPrefixes => Kept)
  BY DEF HookInv
<1>3. PICK keys \in [Keys -> KeyStates], prefix \in Keys \cup {None}, pass \in BOOLEAN,
           fires \in SUBSET enabled, again \in BOOLEAN :
        /\ WayIs(way, keys, prefix, pass, fires, again)
        /\ UpPrefix(k, prefix)
        /\ Others(k, keys)
        /\ ~keys[k].is_down
        /\ keys[k].hotkey_to_fire_upon_release
             \in {None, kvk[k].hotkey_to_fire_upon_release}
        /\ Tracked(k) => ~keys[k].down_performed_action /\ ~keys[k].next_up
        /\ UpFires(k, fires)
        /\ UpPasses(k, pass, fires, again)
  BY <1>1, <1>2, UpWaysAre DEF UpWay
<1>4. /\ kvk' = keys /\ pPrefixKey' = prefix /\ enabled' = enabled /\ holds' = holds
      /\ physical' = physical \ {k} /\ k \in physical
  BY <1>1, <1>3 DEF Deliver, WayIs, Up
<1>5. PICK n \in {0, 1} :
        /\ Counts(k, fires, n)
        /\ kvk[k].down_performed_action => n = 0
  <2>1. PICK d : \A h \in fires : h.up \/ h = d
    BY <1>3 DEF UpFires
  <2>2. /\ \A h \in fires : h.key = k
        /\ kvk[k].down_performed_action => \A h \in fires : h.up
    BY <1>3 DEF UpFires
  <2>3. QED
    BY <2>1, <2>2, CountIs, SMTT(30) DEF Counts
<1>6. /\ press' \in [Keys -> Presses]
      /\ \A j \in Keys \ {k} :
           PressIs(press'[j], press[j].fired, press[j].changed, press[j].second)
      /\ Going(k, FALSE, press'[k], n, pass, fires)
  <2>1. PressesAre(k, FALSE, n, pass, fires)
    BY <1>1, <1>2, <1>3, <1>5, PressAfter
  <2>2. QED
    BY <2>1 DEF PressesAre
<1>7. /\ \A j \in Keys \ {k} : j \in system' <=> j \in system
      /\ pass \/ again => k \notin system'
      /\ system' \subseteq system
  <2>1. PICK mods : system' = SystemSees(k, FALSE, way, mods)
    BY <1>1 DEF Deliver
  <2>2. QED
    BY <1>3, <2>1 DEF SystemSees, WayIs
<1>8. HookTyped'
  BY <1>2, <1>4, <1>6, <1>7 DEF HookTyped
<1>9. Firing'
  <2>1. SUFFICES ASSUME NEW j \in Keys
                 PROVE  /\ ForRelease(j, keys[j].hotkey_to_fire_upon_release)
                        /\ press'[j].fired <= 1
                        /\ press'[j].fired = 1 /\ j \in physical'
                             => keys[j].down_performed_action
    BY <1>4 DEF Firing
  <2>2. CASE j = k
    <3>1. ForRelease(k, keys[k].hotkey_to_fire_upon_release)
      BY <1>2, <1>3 DEF Firing, ForRelease
    <3>2. press'[k].fired = n + press[k].fired
      BY <1>6 DEF Going
    <3>3. press[k].fired \in {0, 1} /\ (press[k].fired = 1 => kvk[k].down_performed_action)
      <4>1. press[k].fired \in Nat
        BY <1>2 DEF HookTyped, Presses
      <4>2. press[k].fired <= 1 /\ (press[k].fired = 1 => kvk[k].down_performed_action)
        BY <1>2, <1>4 DEF Firing
      <4>3. QED
        BY <4>1, <4>2
    <3>4. QED
      BY <1>4, <1>5, <2>2, <3>1, <3>2, <3>3
  <2>3. CASE j # k
    <3>1. Same(keys, kvk, j)
      BY <1>3, <2>3 DEF Others
    <3>2. press'[j].fired = press[j].fired
      BY <1>6, <2>3 DEF PressIs
    <3>3. QED
      BY <1>2, <1>4, <2>3, <3>1, <3>2 DEF Firing, Same, State
  <2>4. QED
    BY <2>2, <2>3
<1>10. ASSUME PlainPrefixes PROVE Kept'
  <2>1. SUFFICES ASSUME NEW j \in Keys
                 PROVE  Disturbed(j)' \/ IF j \in physical' THEN Tracked(j)' ELSE Clean(j)'
    BY DEF Kept
  <2>2. Disturbed(j) \/ IF j \in physical THEN Tracked(j) ELSE Clean(j)
    BY <1>2, <1>10 DEF Kept
  <2>3. CASE j # k
    <3>1. Same(keys, kvk, j)
      BY <1>3, <2>3 DEF Others
    <3>2. j \in system' <=> j \in system
      BY <1>7, <2>3
    <3>3. j \in physical' <=> j \in physical
      BY <1>4, <2>3
    <3>4. PressIs(press'[j], press[j].fired, press[j].changed, press[j].second)
      BY <1>6, <2>3
    <3>5. PrefixOf(k, prefix)
      BY <1>3 DEF PrefixOf, UpPrefix
    <3>6. QED
      BY <1>2, <1>4, <2>2, <2>3, <3>1, <3>2, <3>3, <3>4, <3>5, OtherKept
  <2>4. CASE j = k
    <3>1. SUFFICES ASSUME ~Disturbed(k)'
                   PROVE  Clean(k)'
      BY <1>4, <2>4
    <3>2. Tracked(k) /\ ~Unprepared(k, fires)
      BY <1>4, <1>6, <2>2, <2>4, <3>1 DEF Going, Disturbed
    <3>3. k \notin system'
      BY <1>3, <1>7, <3>2 DEF UpPasses
    <3>4. prefix # k
      BY <1>3, <3>2 DEF UpPrefix, Tracked
    <3>5. QED
      BY <1>3, <1>4, <3>2, <3>3, <3>4 DEF Clean
  <2>5. QED
    BY <2>3, <2>4
<1>11. QED
  BY <1>8, <1>9, <1>10 DEF HookInv

----------------------------------------------------------------------------
(* What else happens *)

\* What a change leaves of a key that is held is disturbed.
LEMMA ChangesStep ==
  ASSUME HookInv, Changes, enabled' \in Selections,
         UNCHANGED <<physical, system, kvk, pPrefixKey>>
  PROVE  HookInv'
<1>1. HookTyped /\ Firing /\ (PlainPrefixes => Kept)
  BY DEF HookInv
<1>2. \A k \in Keys :
        /\ press'[k] \in Presses
        /\ PressIs(press'[k], press[k].fired, press[k].changed \/ k \in physical,
                   press[k].second)
  <2>1. SUFFICES ASSUME NEW k \in Keys
                 PROVE  /\ press'[k] \in Presses
                        /\ PressIs(press'[k], press[k].fired,
                                   press[k].changed \/ k \in physical, press[k].second)
    OBVIOUS
  <2>2. PICK p \in Presses : p = press[k]
    BY <1>1 DEF HookTyped
  <2> DEFINE a == k \in physical
  <2>3. a \in BOOLEAN
    OBVIOUS
  <2>4. press'[k] = ReleasedPress(p, a)
    BY <2>2 DEF Changes, ReleasedPress
  <2> HIDE DEF a
  <2>5. /\ ReleasedPress(p, a) \in Presses
        /\ PressIs(ReleasedPress(p, a), p.fired, p.changed \/ a, p.second)
    BY <2>3, GoingIs
  <2>6. QED
    BY <2>2, <2>4, <2>5 DEF a
<1>3. press' \in [Keys -> Presses]
  BY <1>2 DEF Changes
<1>4. HookTyped'
  BY <1>1, <1>3 DEF HookTyped, Known
<1>5. Firing'
  BY <1>1, <1>2 DEF Firing, PressIs
<1>6. ASSUME PlainPrefixes PROVE Kept'
  <2>1. SUFFICES ASSUME NEW k \in Keys
                 PROVE  Disturbed(k)' \/ IF k \in physical' THEN Tracked(k)' ELSE Clean(k)'
    BY DEF Kept
  <2>2. Disturbed(k) \/ IF k \in physical THEN Tracked(k) ELSE Clean(k)
    BY <1>1, <1>6 DEF Kept
  <2>3. Disturbed(k)' <=> Disturbed(k) \/ k \in physical
    BY <1>2 DEF Disturbed, PressIs
  <2>4. k \notin physical => (Clean(k)' <=> Clean(k))
    BY DEF Clean
  <2>5. QED
    BY <2>2, <2>3, <2>4
<1>7. QED
  BY <1>4, <1>5, <1>6 DEF HookInv

LEMMA UnseenStep ==
  ASSUME HookInv, NEW k \in Keys, UnseenKey(k)
  PROVE  HookInv'
<1>1. HookTyped /\ Firing /\ (PlainPrefixes => Kept)
  BY DEF HookInv
<1>2. PICK p \in Presses :
        p = [Unpressed EXCEPT !.changed = TRUE] /\ p.fired = 0 /\ p.changed
  <2>1. [Unpressed EXCEPT !.changed = TRUE] \in Presses
    BY DEF Unpressed, Presses
  <2>2. /\ [Unpressed EXCEPT !.changed = TRUE].fired = 0
        /\ [Unpressed EXCEPT !.changed = TRUE].changed
    BY DEF Unpressed
  <2>3. QED
    BY <2>1, <2>2
<1>3. /\ press' = [press EXCEPT ![k] = p]
      /\ UNCHANGED <<enabled, holds, kvk, pPrefixKey>>
      /\ system' \subseteq system \cup {k}
      /\ \A j \in Keys \ {k} :
           (j \in physical' <=> j \in physical) /\ (j \in system' <=> j \in system)
  BY <1>2 DEF UnseenKey
<1>4. \A j \in Keys : press'[j] = IF j = k THEN p ELSE press[j]
  BY <1>1, <1>3 DEF HookTyped
<1>5. HookTyped'
  BY <1>1, <1>3 DEF HookTyped
<1>6. Firing'
  <2>1. SUFFICES ASSUME NEW j \in Keys
                 PROVE  /\ ForRelease(j, kvk[j].hotkey_to_fire_upon_release)
                        /\ press'[j].fired <= 1
                        /\ press'[j].fired = 1 /\ j \in physical'
                             => kvk[j].down_performed_action
    BY <1>3 DEF Firing
  <2>2. ForRelease(j, kvk[j].hotkey_to_fire_upon_release)
    BY <1>1 DEF Firing
  <2>3. CASE j = k
    <3>1. p.fired = 0
      BY <1>2
    <3>2. press'[j].fired = 0
      BY <1>4, <2>3, <3>1
    <3>3. QED
      BY <2>2, <3>2
  <2>4. CASE j # k
    <3>1. press'[j] = press[j] /\ (j \in physical' <=> j \in physical)
      BY <1>3, <1>4, <2>4
    <3>2. QED
      BY <1>1, <2>2, <3>1 DEF Firing
  <2>5. QED
    BY <2>3, <2>4
<1>7. ASSUME PlainPrefixes PROVE Kept'
  <2>1. SUFFICES ASSUME NEW j \in Keys
                 PROVE  Disturbed(j)' \/ IF j \in physical' THEN Tracked(j)' ELSE Clean(j)'
    BY DEF Kept
  <2>2. Disturbed(j) \/ IF j \in physical THEN Tracked(j) ELSE Clean(j)
    BY <1>1, <1>7 DEF Kept
  <2>3. CASE j = k
    BY <1>2, <1>4, <2>3 DEF Disturbed
  <2>4. CASE j # k
    <3>1. Disturbed(j)' <=> Disturbed(j)
      BY <1>4, <2>4 DEF Disturbed
    <3>2. Clean(j)' <=> Clean(j)
      BY <1>3, <2>4 DEF Clean
    <3>3. Tracked(j)' <=> Tracked(j)
      BY <1>3, <2>4
         DEF Tracked, UsedAsPrefix, UsedAsSuffix, Suppressible, Combos, Eligible
    <3>4. QED
      BY <1>3, <2>2, <2>4, <3>1, <3>2, <3>3
  <2>5. QED
    BY <2>3, <2>4
<1>8. QED
  BY <1>5, <1>6, <1>7 DEF HookInv

LEMMA QuietStep ==
  ASSUME HookInv, UNCHANGED <<enabled, holds, physical, system, kvk, pPrefixKey, press>>
  PROVE  HookInv'
  BY ZenonT(60) DEF HookInv, HookTyped, Firing, Kept, Disturbed, Tracked, Clean, UsedAsPrefix,
         UsedAsSuffix, Suppressible, Combos, Eligible

LEMMA HookInit ==
  ASSUME Init
  PROVE  HookInv
<1>1. Released \in KeyStates /\ Unpressed \in Presses
  BY DEF Released, KeyStates, Marks, Unpressed, Presses
<1>2. HookTyped
  BY <1>1 DEF Init, HookTyped, Known
<1>3. \A k \in Keys : kvk[k] = Released /\ press[k] = Unpressed
  BY DEF Init
<1>4. Firing
  BY <1>3 DEF Firing, ForRelease, Released, Unpressed
<1>5. \A k \in Keys : Clean(k)
  BY <1>3, KeysAssumption DEF Clean, Released, Init
<1>6. Kept
  BY <1>5 DEF Kept, Init
<1>7. QED
  BY <1>2, <1>4, <1>6 DEF HookInv

LEMMA HookNext ==
  ASSUME HookInv, [Next]_vars
  PROVE  HookInv'
<1>1. ASSUME NEW k \in Keys, Down(k) PROVE HookInv'
  BY <1>1, DownStep
<1>2. ASSUME NEW k \in Keys, Up(k) PROVE HookInv'
  BY <1>2, UpStep
<1>3. ASSUME NEW k \in Keys, UnseenKey(k) PROVE HookInv'
  BY <1>3, UnseenStep
<1>4. CASE ChangeHookState
  <2>1. enabled' \in Selections
    BY <1>4 DEF ChangeHookState
  <2>2. QED
    BY <1>4, <2>1, ChangesStep DEF ChangeHookState
<1>5. CASE CriterionChanges
  <2>1. enabled' \in Selections
    BY <1>5 DEF CriterionChanges, HookInv, HookTyped
  <2>2. QED
    BY <1>5, <2>1, ChangesStep DEF CriterionChanges
<1>6. CASE HookIsAbsent
  <2>1. enabled' \in Selections
    BY <1>6 DEF HookIsAbsent, HookInv, HookTyped
  <2>2. QED
    BY <1>6, <2>1, ChangesStep DEF HookIsAbsent
<1>7. CASE HookIsBack
  BY <1>7, QuietStep DEF HookIsBack
<1>8. CASE UNCHANGED vars
  BY <1>8, QuietStep DEF vars
<1>9. QED
  BY <1>1, <1>2, <1>3, <1>4, <1>5, <1>6, <1>7, <1>8 DEF Next

LEMMA HookInvHolds == Spec => []HookInv
<1>1. Init => HookInv
  BY HookInit
<1>2. HookInv /\ [Next]_vars => HookInv'
  BY HookNext
<1>3. QED
  BY <1>1, <1>2, PTL DEF Spec

----------------------------------------------------------------------------
(* How the keys have been used *)

\* A key that owes a key-up hotkey has one that is to fire upon release.
Promised(k) ==
  k \in physical /\ press[k].owes /\ ~press[k].changed
  => kvk[k].hotkey_to_fire_upon_release \in enabled

HasOwn(k) == \E h \in enabled : h.key = k /\ h.prefix = None

\* The next key that goes down will mark it, and it is not suspended by its modifiers.
Markable(k) ==
  /\ kvk[k].was_just_used # "passthrough" /\ UsedAsPrefix(k)
  /\ k \in Modifiers => EnabledSuffixes(k) # {}

\* That a key has modified another one is remembered by its mark until it is released,
\* since it does not repeat any more.
Remembered(k) ==
  /\ pPrefixKey = k => Markable(k)
  /\ press[k].others => MarkedUsed(k) /\ repeats # k

Recalled(k) ==
  /\ k \notin Modifiers => kvk[k].was_just_used # "passthrough"
  /\ k \in physical /\ HasOwn(k) /\ ~press[k].changed => Remembered(k)

\* While the hook is absent nothing is an ordinary press.
Unseen(k) == absent /\ k \in physical => press[k].changed

UseInv ==
  \A k \in Keys : /\ CertainCounterparts => Promised(k)
                  /\ SuppressedPrefixes => Recalled(k)
                  /\ Unseen(k)

\* Another key j, when k goes down or up; used: it is pPrefixKey, and k is no modifier.
LEMMA OtherUse ==
  ASSUME HookTyped, NEW k \in Keys, NEW j \in Keys \ {k},
         NEW keys \in [Keys -> KeyStates], kvk' = keys, Same(keys, kvk, j),
         enabled' = enabled, holds' = holds, j \in physical' <=> j \in physical,
         PressIs(press'[j], press[j].fired, press[j].changed, press[j].second),
         NEW used \in BOOLEAN,
         UsesAre(press'[j], press[j].owes, press[j].others \/ used),
         used => /\ j = pPrefixKey
                 /\ kvk[j].was_just_used # "passthrough"
                      => keys[j].was_just_used \in Using,
         repeats' = j => repeats = j /\ ~used,
         PrefixOf(k, pPrefixKey')
  PROVE  /\ Promised(j) => Promised(j)'
         /\ SuppressedPrefixes /\ Recalled(j) => Recalled(j)'
<1>1. /\ keys[j].hotkey_to_fire_upon_release = kvk[j].hotkey_to_fire_upon_release
      /\ Becomes(kvk[j].was_just_used, keys[j].was_just_used)
  BY DEF Same, State
<1>2. /\ press'[j].changed <=> press[j].changed
      /\ press'[j].owes <=> press[j].owes
      /\ press'[j].others <=> press[j].others \/ used
  BY DEF PressIs, UsesAre
<1>3. Promised(j) => Promised(j)'
  BY <1>1, <1>2 DEF Promised
<1>4. ASSUME SuppressedPrefixes, Recalled(j)
      PROVE  Recalled(j)'
  <2>1. UsedAsPrefix(j)' <=> UsedAsPrefix(j)
    BY DEF UsedAsPrefix, Combos
  <2>2. EnabledSuffixes(j)' = EnabledSuffixes(j)
    BY DEF EnabledSuffixes, Eligible
  <2>3. kvk[j].was_just_used # "passthrough" => keys[j].was_just_used # "passthrough"
    BY <1>1 DEF Becomes, Using
  <2>4. kvk[j].was_just_used \in Using => keys[j].was_just_used \in Using
    BY <1>1 DEF Becomes
  <2>5. j \notin Modifiers => keys[j].was_just_used # "passthrough"
    BY <1>4, <2>3 DEF Recalled
  <2>6. ASSUME (j \in physical)', HasOwn(j)', ~press'[j].changed
        PROVE  Remembered(j)'
    <3>1. HasOwn(j)
      BY <2>6 DEF HasOwn
    <3>2. Remembered(j)
      BY <1>2, <1>4, <2>6, <3>1 DEF Recalled
    <3>3. ASSUME pPrefixKey' = j
          PROVE  Markable(j)'
      <4>1. CASE pPrefixKey = j
        BY <2>1, <2>2, <2>3, <3>2, <4>1 DEF Remembered, Markable
      <4>2. CASE pPrefixKey # j
        <5>1. PICK i \in Combos : i.prefix = j
          BY <3>3, <4>2, KeysAssumption DEF PrefixOf
        <5>2. UsedAsPrefix(j)
          BY <5>1 DEF UsedAsPrefix
        <5>3. j \notin Modifiers
          <6>1. PICK h \in enabled : h.key = j /\ h.prefix = None
            BY <3>1 DEF HasOwn
          <6>2. i \in enabled
            BY <5>1 DEF Combos
          <6>3. h \in Hotkeys /\ i \in Hotkeys
            BY <6>1, <6>2, HotkeysTyped DEF HookTyped
          <6>4. QED
            BY <1>4, <5>1, <6>1, <6>3 DEF SuppressedPrefixes
        <5>4. QED
          BY <2>1, <2>5, <5>2, <5>3 DEF Markable
      <4>3. QED
        BY <4>1, <4>2
    <3>4. ASSUME press'[j].others
          PROVE  MarkedUsed(j)' /\ repeats' # j
      <4>1. CASE used
        <5>1. Markable(j)
          BY <3>2, <4>1 DEF Remembered
        <5>2. QED
          BY <2>1, <4>1, <5>1 DEF MarkedUsed, Markable
      <4>2. CASE ~used
        <5>1. MarkedUsed(j) /\ repeats # j
          BY <1>2, <3>2, <3>4, <4>2 DEF Remembered
        <5>2. QED
          BY <2>1, <2>4, <5>1 DEF MarkedUsed
      <4>3. QED
        BY <4>1, <4>2
    <3>5. QED
      BY <3>3, <3>4 DEF Remembered
  <2>7. QED
    BY <2>5, <2>6 DEF Recalled
<1>5. QED
  BY <1>3, <1>4

LEMMA DownUse ==
  ASSUME HookInv, UseInv, NEW k \in Keys, Down(k)
  PROVE  UseInv'
<1>1. PICK way \in DownWays(k) : Deliver(k, TRUE, way)
  BY DEF Down
<1>2. HookTyped
  BY DEF HookInv
<1>3. PICK keys \in [Keys -> KeyStates], prefix \in Keys \cup {None}, pass \in BOOLEAN,
           fires \in SUBSET enabled :
        /\ WayIs(way, keys, prefix, pass, fires, FALSE)
        /\ PrefixOf(k, prefix)
        /\ DownTo(k, keys, pass, fires)
        /\ Noted(k, keys) /\ OwnMark(k, keys[k].was_just_used, prefix)
        /\ Owed(k, keys, fires)
  BY <1>1, <1>2, DownWaysAre DEF DownWay
<1>4. /\ kvk' = keys /\ pPrefixKey' = prefix /\ enabled' = enabled /\ holds' = holds
      /\ physical' = physical \cup {k} /\ repeats' \in {k, None} /\ ~absent'
      /\ k \notin physical \/ k = repeats
  BY <1>1, <1>3 DEF Deliver, WayIs, Down
<1>5. PICK n \in {0, 1} : Counts(k, fires, n)
  <2>1. CASE fires = {}
    BY <2>1, CountIs DEF Counts
  <2>2. CASE \E h \in enabled : fires = {h} /\ h.key = k
    BY <2>2, CountIs DEF Counts
  <2>3. QED
    BY <1>3, <2>1, <2>2 DEF DownTo
<1>6. PressesAre(k, TRUE, n, pass, fires)
  BY <1>1, <1>2, <1>3, <1>5, PressAfter
<1>7. SUFFICES ASSUME NEW j \in Keys
               PROVE  /\ CertainCounterparts => Promised(j)'
                      /\ SuppressedPrefixes => Recalled(j)'
  BY <1>4 DEF UseInv, Unseen
<1>8. /\ CertainCounterparts => Promised(j)
      /\ SuppressedPrefixes => Recalled(j)
  BY DEF UseInv
<1>9. CASE j # k
  <2>1. PICK used \in BOOLEAN : used <=> j = pPrefixKey /\ k \notin Modifiers
    OBVIOUS
  <2>2. /\ PressIs(press'[j], press[j].fired, press[j].changed, press[j].second)
        /\ UsesAre(press'[j], press[j].owes, press[j].others \/ used)
    BY <1>6, <1>9, <2>1 DEF PressesAre, UsesAfter, UsesAre
  <2>3. used => /\ j = pPrefixKey
                /\ kvk[j].was_just_used # "passthrough"
                     => keys[j].was_just_used \in Using
    BY <1>3, <1>9, <2>1 DEF Noted
  <2>4. Same(keys, kvk, j)
    BY <1>3, <1>9 DEF DownTo, Others
  <2>5. /\ repeats' = j => repeats = j /\ ~used
        /\ j \in physical' <=> j \in physical
    BY <1>4, <1>9, KeysAssumption
  <2>6. PrefixOf(k, pPrefixKey')
    BY <1>3, <1>4
  <2>7. /\ Promised(j) => Promised(j)'
        /\ SuppressedPrefixes /\ Recalled(j) => Recalled(j)'
    BY <1>2, <1>4, <1>9, <2>2, <2>3, <2>4, <2>5, <2>6, OtherUse
  <2>8. QED
    BY <1>8, <2>7
<1>10. CASE j = k
  <2>1. /\ press'[k].owes <=> \E h \in fires : hotkey_up(h) # None
        /\ press'[k].others <=> k \in physical /\ press[k].others
        /\ press'[k].changed <=> IF k \notin physical THEN ~Clean(k)
                                 ELSE press[k].changed \/ ~(pass <=> k \in system)
    BY <1>6 DEF PressesAre, UsesAfter, UsesAre, Going
  <2>2. ASSUME CertainCounterparts
        PROVE  Promised(k)'
    <3>1. UponRelease(k, keys[k].hotkey_to_fire_upon_release)
      BY <1>3 DEF DownTo
    <3>2. press'[k].owes => keys[k].hotkey_to_fire_upon_release # None
      BY <1>3, <2>1, <2>2 DEF Owed
    <3>3. QED
      BY <1>4, <3>1, <3>2 DEF Promised, UponRelease
  <2>3. ASSUME SuppressedPrefixes
        PROVE  Recalled(k)'
    <3>1. k \notin Modifiers => keys[k].was_just_used # "passthrough"
      BY <1>3, <1>8, <1>10, <2>3 DEF OwnMark, Recalled
    <3>2. ASSUME HasOwn(k)', ~press'[k].changed
          PROVE  Remembered(k)'
      <4>1. HasOwn(k)
        BY <1>4, <3>2 DEF HasOwn
      <4>2. k \notin physical => pPrefixKey # k
        BY <2>1, <3>2 DEF Clean
      <4>3. k \in physical => Remembered(k)
        BY <1>8, <1>10, <2>1, <2>3, <3>2, <4>1 DEF Recalled
      <4>4. pPrefixKey = k => Markable(k)
        BY <4>2, <4>3 DEF Remembered
      <4>5. ~press'[k].others
        BY <1>4, <2>1, <4>3 DEF Remembered
      <4>6. ASSUME prefix = k
            PROVE  Markable(k)'
        <5>1. UsedAsPrefix(k) /\ (k \in Modifiers => EnabledSuffixes(k) # {})
          BY <1>3, <4>4, <4>6, KeysAssumption DEF PrefixOf, Markable
        <5>2. keys[k].was_just_used # "passthrough"
          BY <1>3, <2>3, <4>4, <4>6 DEF OwnMark, Markable
        <5>3. UsedAsPrefix(k)' <=> UsedAsPrefix(k)
          BY <1>4 DEF UsedAsPrefix, Combos
        <5>4. EnabledSuffixes(k)' = EnabledSuffixes(k)
          BY <1>4 DEF EnabledSuffixes, Eligible
        <5>5. QED
          BY <1>4, <5>1, <5>2, <5>3, <5>4 DEF Markable
      <4>7. QED
        BY <1>4, <4>5, <4>6 DEF Remembered
    <3>3. QED
      BY <1>4, <3>1, <3>2 DEF Recalled
  <2>4. QED
    BY <1>10, <2>2, <2>3
<1>11. QED
  BY <1>9, <1>10

\* What a release comes to.
CameUp(k, keys, prefix, pass, fires, n) ==
  /\ kvk' = keys /\ pPrefixKey' = prefix /\ posted' = fires
  /\ PrefixOf(k, prefix) /\ Others(k, keys)
  /\ Becomes(kvk[k].was_just_used, keys[k].was_just_used)
  /\ UpFires(k, fires) /\ SilentIfUsed(k, fires) /\ Answers(k, fires)
  /\ PressesAre(k, FALSE, n, pass, fires)
  /\ enabled' = enabled /\ holds' = holds
  /\ physical' = physical \ {k} /\ k \in physical
  /\ repeats' \in {repeats, None} /\ ~absent'

LEMMA UpBecomes ==
  ASSUME HookInv, NEW k \in Keys, Up(k)
  PROVE  \E keys \in [Keys -> KeyStates], prefix \in Keys \cup {None}, pass \in BOOLEAN,
            fires \in SUBSET enabled, n \in {0, 1} :
           CameUp(k, keys, prefix, pass, fires, n)
<1>1. PICK way \in UpWays(k) : Deliver(k, FALSE, way)
  BY DEF Up
<1>2. HookTyped /\ Firing
  BY DEF HookInv
<1>3. PICK keys \in [Keys -> KeyStates], prefix \in Keys \cup {None}, pass \in BOOLEAN,
           fires \in SUBSET enabled, again \in BOOLEAN :
        /\ WayIs(way, keys, prefix, pass, fires, again)
        /\ UpPrefix(k, prefix) /\ Others(k, keys)
        /\ Becomes(kvk[k].was_just_used, keys[k].was_just_used)
        /\ UpFires(k, fires) /\ SilentIfUsed(k, fires) /\ Answers(k, fires)
  BY <1>1, <1>2, UpWaysAre DEF UpWay
<1>4. PICK n \in {0, 1} : Counts(k, fires, n)
  <2>1. PICK d : \A h \in fires : h.up \/ h = d
    BY <1>3 DEF UpFires
  <2>2. \A h \in fires : h.key = k
    BY <1>3 DEF UpFires
  <2>3. QED
    BY <2>1, <2>2, CountIs DEF Counts
<1>5. PressesAre(k, FALSE, n, pass, fires)
  BY <1>1, <1>2, <1>3, <1>4, PressAfter
<1>6. PrefixOf(k, prefix)
  BY <1>3 DEF PrefixOf, UpPrefix
<1>7. /\ kvk' = keys /\ pPrefixKey' = prefix /\ posted' = fires
      /\ enabled' = enabled /\ holds' = holds
      /\ physical' = physical \ {k} /\ k \in physical
      /\ repeats' \in {repeats, None} /\ ~absent'
  BY <1>1, <1>3 DEF Deliver, WayIs, Up
<1>8. CameUp(k, keys, prefix, pass, fires, n)
  BY <1>3, <1>5, <1>6, <1>7 DEF CameUp
<1>9. QED
  BY <1>8

LEMMA UpUse ==
  ASSUME HookInv, UseInv, NEW k \in Keys, Up(k)
  PROVE  UseInv'
<1> PICK keys \in [Keys -> KeyStates], prefix \in Keys \cup {None}, pass \in BOOLEAN,
         fires \in SUBSET enabled, n \in {0, 1} :
      CameUp(k, keys, prefix, pass, fires, n)
  BY UpBecomes
<1>1. /\ kvk' = keys /\ pPrefixKey' = prefix
      /\ PrefixOf(k, prefix) /\ Others(k, keys)
      /\ Becomes(kvk[k].was_just_used, keys[k].was_just_used)
      /\ PressesAre(k, FALSE, n, pass, fires)
      /\ enabled' = enabled /\ holds' = holds
      /\ physical' = physical \ {k} /\ k \in physical
      /\ repeats' \in {repeats, None} /\ ~absent'
  BY DEF CameUp
<1>2. HookTyped
  BY DEF HookInv
<1>3. SUFFICES ASSUME NEW j \in Keys
               PROVE  /\ CertainCounterparts => Promised(j)'
                      /\ SuppressedPrefixes => Recalled(j)'
  BY <1>1 DEF UseInv, Unseen
<1>4. /\ CertainCounterparts => Promised(j)
      /\ SuppressedPrefixes => Recalled(j)
  BY DEF UseInv
<1>5. CASE j # k
  <2>1. /\ PressIs(press'[j], press[j].fired, press[j].changed, press[j].second)
        /\ UsesAre(press'[j], press[j].owes, press[j].others \/ FALSE)
    BY <1>1, <1>5 DEF PressesAre, UsesAfter, UsesAre
  <2>2. /\ Same(keys, kvk, j)
        /\ repeats' = j => repeats = j
        /\ j \in physical' <=> j \in physical
    BY <1>1, <1>5, KeysAssumption DEF Others
  <2>3. PrefixOf(k, pPrefixKey')
    BY <1>1
  <2>4. /\ Promised(j) => Promised(j)'
        /\ SuppressedPrefixes /\ Recalled(j) => Recalled(j)'
    BY <1>1, <1>2, <1>5, <2>1, <2>2, <2>3, OtherUse
  <2>5. QED
    BY <1>4, <2>4
<1>6. CASE j = k
  <2>1. kvk[k].was_just_used # "passthrough" => keys[k].was_just_used # "passthrough"
    BY <1>1 DEF Becomes, Using
  <2>2. QED
    BY <1>1, <1>4, <1>6, <2>1 DEF Promised, Recalled
<1>7. QED
  BY <1>5, <1>6

\* After a change, the keys that are held are disturbed.
LEMMA ChangesUse ==
  ASSUME HookInv, UseInv, Changes, UNCHANGED <<physical, kvk>>
  PROVE  UseInv'
<1>1. SUFFICES ASSUME NEW k \in Keys
               PROVE  /\ SuppressedPrefixes => Recalled(k)'
                      /\ Promised(k)' /\ Unseen(k)'
  BY DEF UseInv
<1>2. k \in physical => press'[k].changed
  BY DEF Changes, HookInv, HookTyped, Presses
<1>3. SuppressedPrefixes => Recalled(k)
  BY DEF UseInv
<1>4. QED
  BY <1>2, <1>3 DEF Recalled, Promised, Unseen

LEMMA UnseenUse ==
  ASSUME HookInv, UseInv, NEW k \in Keys, UnseenKey(k)
  PROVE  UseInv'
<1>1. SUFFICES ASSUME NEW j \in Keys
               PROVE  /\ SuppressedPrefixes => Recalled(j)'
                      /\ Promised(j)' /\ Unseen(j)'
  BY DEF UseInv
<1>2. (j \in physical)' => press'[j].changed
  <2>1. press' = [press EXCEPT ![k] = [Unpressed EXCEPT !.changed = TRUE]] /\ absent
    BY DEF UnseenKey
  <2>2. CASE j = k
    BY <2>1, <2>2 DEF HookInv, HookTyped, Unpressed
  <2>3. CASE j # k
    <3>1. press'[j] = press[j]
      BY <2>1, <2>3 DEF HookInv, HookTyped
    <3>2. (j \in physical)' => j \in physical
      BY <2>3 DEF UnseenKey
    <3>3. QED
      BY <2>1, <3>1, <3>2 DEF UseInv, Unseen
  <2>4. QED
    BY <2>2, <2>3
<1>3. (SuppressedPrefixes => Recalled(j)) /\ kvk' = kvk
  BY DEF UseInv, UnseenKey
<1>4. QED
  BY <1>2, <1>3 DEF Recalled, Promised, Unseen

LEMMA QuietUse ==
  ASSUME UseInv, absent' => absent,
         UNCHANGED <<enabled, holds, physical, repeats, kvk, pPrefixKey, press>>
  PROVE  UseInv'
<1>1. SUFFICES ASSUME NEW k \in Keys
               PROVE  /\ CertainCounterparts => Promised(k)'
                      /\ SuppressedPrefixes => Recalled(k)'
                      /\ Unseen(k)'
  BY DEF UseInv
<1>2. /\ CertainCounterparts => Promised(k)
      /\ SuppressedPrefixes => Recalled(k)
      /\ Unseen(k)
  BY DEF UseInv
<1>3. Promised(k)' <=> Promised(k)
  BY DEF Promised
<1>4. Recalled(k)' <=> Recalled(k)
  BY DEF Recalled, HasOwn, Remembered, Markable, MarkedUsed, UsedAsPrefix, Combos,
         EnabledSuffixes, Eligible
<1>5. QED
  BY <1>2, <1>3, <1>4 DEF Unseen

LEMMA UseInit ==
  ASSUME Init
  PROVE  UseInv
<1>1. \A k \in Keys : kvk[k] = Released /\ k \notin physical
  BY DEF Init
<1>2. QED
  BY <1>1 DEF UseInv, Promised, Recalled, Unseen, Released

LEMMA UseNext ==
  ASSUME HookInv, UseInv, [Next]_vars
  PROVE  UseInv'
<1>1. ASSUME NEW k \in Keys, Down(k) PROVE UseInv'
  BY <1>1, DownUse
<1>2. ASSUME NEW k \in Keys, Up(k) PROVE UseInv'
  BY <1>2, UpUse
<1>3. ASSUME NEW k \in Keys, UnseenKey(k) PROVE UseInv'
  BY <1>3, UnseenUse
<1>4. CASE ChangeHookState
  BY <1>4, ChangesUse DEF ChangeHookState
<1>5. CASE CriterionChanges
  BY <1>5, ChangesUse DEF CriterionChanges
<1>6. CASE HookIsAbsent
  BY <1>6, ChangesUse DEF HookIsAbsent
<1>7. CASE HookIsBack
  BY <1>7, QuietUse DEF HookIsBack
<1>8. CASE UNCHANGED vars
  BY <1>8, QuietUse DEF vars
<1>9. QED
  BY <1>1, <1>2, <1>3, <1>4, <1>5, <1>6, <1>7, <1>8 DEF Next

\* A key comes up: the hook has seen it, or was absent.
LEMMA ComesUp ==
  ASSUME HookInv, UseInv, [Next]_vars, NEW k \in physical \ physical',
         ~press[k].changed
  PROVE  k \in Keys /\ Up(k)
<1>1. ASSUME NEW j \in Keys, Down(j) PROVE FALSE
  BY <1>1 DEF Down
<1>2. ASSUME NEW j \in Keys, Up(j) PROVE k \in Keys /\ Up(k)
  BY <1>2 DEF Up
<1>3. ASSUME NEW j \in Keys, UnseenKey(j) PROVE FALSE
  BY <1>3 DEF UnseenKey, UseInv, Unseen
<1>4. ~ChangeHookState /\ ~CriterionChanges /\ ~HookIsAbsent /\ ~HookIsBack
      /\ ~(UNCHANGED vars)
  BY DEF ChangeHookState, CriterionChanges, HookIsAbsent, HookIsBack, vars
<1>5. QED
  BY <1>1, <1>2, <1>3, <1>4 DEF Next

LEMMA SilentStep ==
  ASSUME SuppressedPrefixes, HookInv, UseInv, [Next]_vars,
         NEW k \in physical \ physical', press[k].others, ~press[k].changed,
         NEW h \in posted'
  PROVE  ~Fires(k, h)
<1>1. k \in Keys /\ Up(k)
  BY ComesUp
<1>2. PICK fires \in SUBSET enabled :
        posted' = fires /\ UpFires(k, fires) /\ SilentIfUsed(k, fires)
  BY <1>1, UpBecomes DEF CameUp
<1>3. SUFFICES ASSUME Fires(k, h)
               PROVE  FALSE
  OBVIOUS
<1>4. h \in enabled /\ h.key = k /\ h.prefix = None /\ ~MarkedUsed(k)
  BY <1>2, <1>3 DEF Fires, SilentIfUsed
<1>5. HasOwn(k)
  BY <1>4 DEF HasOwn
<1>6. Remembered(k)
  BY <1>1, <1>5 DEF UseInv, Recalled
<1>7. QED
  BY <1>4, <1>6 DEF Remembered

LEMMA AnswerStep ==
  ASSUME CertainCounterparts, HookInv, UseInv, [Next]_vars,
         NEW k \in physical \ physical', press[k].owes, ~press[k].changed
  PROVE  \E h \in posted' : h.key = k /\ h.up
<1>1. k \in Keys /\ Up(k)
  BY ComesUp
<1>2. PICK fires \in SUBSET enabled : posted' = fires /\ Answers(k, fires)
  BY <1>1, UpBecomes DEF CameUp
<1>3. PICK r \in enabled : r = kvk[k].hotkey_to_fire_upon_release
  BY <1>1 DEF UseInv, Promised
<1>4. r \in fires
  BY <1>2, <1>3 DEF Answers
<1>5. r # None
  BY HotkeysTyped DEF HookInv, HookTyped
<1>6. r.key = k /\ r.up
  BY <1>1, <1>3, <1>5 DEF HookInv, Firing, ForRelease
<1>7. QED
  BY <1>2, <1>4, <1>6

LEMMA UseInvHolds == Spec => [](HookInv /\ UseInv)
<1>1. Init => HookInv /\ UseInv
  BY HookInit, UseInit
<1>2. HookInv /\ UseInv /\ [Next]_vars => (HookInv /\ UseInv)'
  BY HookNext, UseNext
<1>3. QED
  BY <1>1, <1>2, PTL DEF Spec

----------------------------------------------------------------------------
(* What the hook guarantees *)

\* For any keys, hotkeys and changes of them: one press fires at most one key-down hotkey
\* of its key (LowLevelCommon, hook.cpp:1334).  What has fired is noted in
\* down_performed_action until the release, and Case 4 of a release only looks for a
\* key-down hotkey when that is not set.
THEOREM KeyFiresOnce == Spec => []FiredOnce
<1>1. HookInv => FiredOnce
  BY DEF HookInv, Firing, FiredOnce
<1>2. QED
  BY <1>1, HookInvHolds, PTL

\* No key is stuck down: the release of a key whose press the system has seen is passed
\* on, undone or sent by the hook (hook.cpp:1354 to 1436), whatever other keys are
\* pressed in between, unless the hotkeys, the criterion or the hook itself changed while
\* it was held, or it is both a prefix and a suffix and was passed on as the second key.
\* It does not hold without PlainPrefixes: CannotFireDown passes on the press of a prefix
\* key whose own hotkey the criterion turns off, but only sets next_up if something is
\* queued; a release that falls through from Case 2 because of another key-up hotkey is
\* then suppressed by PassesUp.
THEOREM NoKeyIsStuck ==
  ASSUME PlainPrefixes
  PROVE  Spec => []UpMatchesDown
<1>1. HookInv => UpMatchesDown
  BY PlainPrefixes DEF HookInv, HookTyped, Kept, Clean, UpMatchesDown
<1>2. QED
  BY <1>1, HookInvHolds, PTL

\* Nor is anything left of it for the next press to trip over: it is not pPrefixKey, and
\* neither is_down, down_performed_action nor NO_SUPPRESS_NEXT_UP_EVENT is set for it.
THEOREM NothingIsLeftOfAKey ==
  ASSUME PlainPrefixes
  PROVE  Spec => []NothingLeftBehind
<1>1. HookInv => NothingLeftBehind
  BY PlainPrefixes DEF HookInv, Kept, NothingLeftBehind
<1>2. QED
  BY <1>1, HookInvHolds, PTL

\* A key that has modified another key does not fire its own hotkey when it is released
\* (hook.cpp:999), if the prefix keys that have hotkeys of their own are suppressed ones:
\* the mark that says so is set as long as it is not AS_PASSTHROUGH_PREFIX, and the key
\* that was pressed last is the one that repeats, so that it is not begun anew.
THEOREM UsedKeysAreSilent ==
  ASSUME SuppressedPrefixes
  PROVE  Spec => UsedPrefixSilent
<1>1. HookInv /\ UseInv /\ [Next]_vars
        => \A k \in physical \ physical' :
             press[k].others /\ ~press[k].changed => \A h \in posted' : ~Fires(k, h)
  BY SuppressedPrefixes, SilentStep
<1>2. QED
  BY <1>1, UseInvHolds, PTL DEF Spec, UsedPrefixSilent

\* The key-up hotkey that belongs to a hotkey that has fired is queued when the key goes
\* down, and fires when it comes up (hook.cpp:1298, 1346), whatever happens in between to
\* other keys, if nothing makes it uncertain: see CertainCounterparts.
THEOREM CounterpartsFire ==
  ASSUME CertainCounterparts
  PROVE  Spec => CounterpartFires
<1>1. HookInv /\ UseInv /\ [Next]_vars
        => \A k \in physical \ physical' :
             press[k].owes /\ ~press[k].changed => \E h \in posted' : h.key = k /\ h.up
  BY CertainCounterparts, AnswerStep
<1>2. QED
  BY <1>1, UseInvHolds, PTL DEF Spec, CounterpartFires

----------------------------------------------------------------------------
(* SendKeys: the inductive invariant of SendModifiers *)

Items == {"items", "adjust", "key", "release"}
Phases == Items \cup {"idle", "restore", "array", "played", "corrected"}

Sends ==
  [pc : Phases, mode : {"event", "input"}, blind : BOOLEAN,
   orig : SUBSET Modifiers, notLogical : SUBSET Modifiers, keep : SUBSET Modifiers,
   released : SUBSET Modifiers, event : SUBSET Modifiers, touched : SUBSET Modifiers,
   count : {0, 1}, press : SUBSET Modifiers, release : SUBSET Modifiers,
   new : SUBSET Modifiers, meddled : SUBSET Modifiers]

SendTyped ==
  /\ physical \subseteq Modifiers /\ system \subseteq Modifiers
  /\ hidden \subseteq Modifiers
  /\ g_modifiersLR_physical \subseteq Modifiers /\ g_modifiersLR_logical \subseteq Modifiers
  /\ sModifiersLR_persistent \subseteq Modifiers
  /\ sModifiersLR_remapped \subseteq Modifiers
  /\ asked \subseteq Modifiers /\ lasting \subseteq Modifiers
  /\ letGo \subseteq Modifiers /\ raced \subseteq Modifiers
  /\ absent \in BOOLEAN /\ send \in Sends

\* How far the Send has come, and what SetModifierLRState still has to do.
Stages ==
  /\ absent => send.pc \in {"array", "played", "corrected"}
  /\ send.pc \in {"played", "corrected"} => absent
  /\ send.pc \in {"adjust", "key", "release", "restore"} => send.mode = "event"
  /\ send.pc \in {"array", "played", "corrected"} => send.mode = "input" /\ send.count = 1
  /\ send.mode = "event" => send.event = {} /\ send.touched = {} /\ send.meddled = {}
  /\ send.press # {} => send.pc \in {"adjust", "restore"} /\ send.press \subseteq send.new
  /\ send.release # {} => /\ send.pc \in {"adjust", "release", "restore"}
                          /\ send.release \cap send.new = {}

SendBase == SendTyped /\ Stages

\* What is to last, at each stage: what will put it down, or down again.
LastingItems ==
  IF send.mode = "event"
  THEN IF send.blind
       THEN /\ lasting \subseteq send.keep \cup send.released
            /\ lasting \cap send.orig \subseteq g_modifiersLR_physical \cup sModifiersLR_remapped
       ELSE lasting \subseteq send.keep
              \cup ((g_modifiersLR_physical \cup sModifiersLR_remapped) \ send.notLogical)
  ELSE /\ lasting \subseteq send.keep \cup sModifiersLR_remapped
             \cup (IF send.blind THEN send.released ELSE send.orig \ send.notLogical)
       /\ lasting \ send.touched \subseteq system
       /\ send.count = 0 => send.touched = {} /\ lasting \subseteq g_modifiersLR_logical

Lasting ==
  /\ lasting \subseteq sModifiersLR_persistent \cup sModifiersLR_remapped
                         \cup g_modifiersLR_physical
  /\ ~absent /\ send.pc # "idle" => g_modifiersLR_logical \subseteq system
  /\ send.pc = "idle" => lasting \subseteq system \cap g_modifiersLR_logical
  /\ send.pc \in Items => LastingItems
  /\ send.pc = "restore" =>
       lasting \subseteq send.press \cup (g_modifiersLR_logical \ send.release)
  /\ send.pc = "array" => lasting \subseteq send.event \cap (send.touched \cup system)
  /\ send.pc \in {"played", "corrected"} => lasting \subseteq system
  /\ send.pc = "corrected" => lasting \subseteq g_modifiersLR_logical

\* What is said of m when S is what is, or is going to be, down for the system: the
\* user holds it and it is not hidden, or it was asked for; if it is up although the
\* user holds it, it is hidden or was let go.
Settled(m, S) ==
  /\ m \in S /\ (m \in hidden \/ m \notin physical) => m \in asked
  /\ m \in physical /\ m \notin S => m \in hidden \cup letGo

\* The user holds m, but what SendKeys knows will not put it down.
Missing(m) ==
  IF send.blind THEN m \in send.orig \ (send.keep \cup send.released)
                ELSE m \in send.notLogical

HeldItems(m) ==
  /\ ~send.blind /\ m \in send.keep => m \in asked
  /\ m \notin send.meddled =>
       /\ Missing(m) => m \in letGo \/ (m \in Suffixes /\ (m \in physical => m \in hidden))
       /\ send.blind /\ m \in send.keep \cup send.released /\ (m \notin send.orig \/ m \in hidden)
            => m \in asked
       /\ m \in hidden => m \in send.orig /\ (send.blind \/ m \in send.notLogical \cup asked)

\* While an array is built, nothing has changed since the start of the Send.
HeldInput(m) ==
  m \notin send.meddled =>
    /\ m \in g_modifiersLR_physical <=> m \in physical
    /\ m \in g_modifiersLR_logical <=> m \in system
    /\ m \in send.orig <=> m \in physical
    /\ m \in send.notLogical <=> m \in physical \ system
    /\ m \in send.touched \/ (m \in send.event <=> m \in system)
    /\ send.pc = "array" => Settled(m, send.event)

\* Once it is played, the user may press and release m.
HeldPlayed(m) ==
  IF m \in system <=> m \in send.event
  THEN m \in physical <=> m \in g_modifiersLR_physical
  ELSE /\ m \in physical <=> m \in system
       /\ m \in g_modifiersLR_physical <=> m \in send.event

Held(m) ==
  /\ ~absent \/ send.pc = "corrected" =>
       /\ m \in g_modifiersLR_physical <=> m \in physical
       /\ m \in g_modifiersLR_logical <=> m \in system
  /\ m \in hidden => m \in physical
  /\ send.pc \in {"idle", "played", "corrected"} => Settled(m, system)
  /\ send.pc = "items" /\ send.mode = "input" /\ send.count = 0 => Settled(m, system)
  /\ send.pc \in Items => HeldItems(m)
  /\ send.pc = "restore" => Settled(m, (system \ send.release) \cup send.press)
  /\ send.pc \in {"items", "array"} /\ send.mode = "input" => HeldInput(m)
  /\ send.pc = "played" => HeldPlayed(m)

HeldAll ==
  /\ hidden \subseteq Suffixes /\ sModifiersLR_remapped \subseteq asked
  /\ \A m \in Modifiers \ raced : Held(m)

SendInv == SendBase /\ Lasting /\ HeldAll

----------------------------------------------------------------------------
(* The user *)

\* A change that TooLate names puts m among the modifiers of which nothing more is said;
\* when no Send is under way, the next change takes it from there if all agree on it.

LEMMA PressKeeps ==
  ASSUME SendInv, NEW m \in Keyboard, NEW suppressed \in BOOLEAN, Press(m, suppressed)
  PROVE  SendInv'
<1>1. SendBase'
  BY ModifiersAssumption, ZenonT(60) DEF SendInv, SendBase, SendTyped, Sends, Stages, Press,
     Noticed, script
<1>2. Lasting'
  BY DEF SendInv, Lasting, LastingItems, Press, Noticed, script
<1>3. HeldAll'
  BY DEF SendInv, SendBase, Items, Stages, HeldAll, Held, HeldItems, HeldInput,
     HeldPlayed, Missing, Settled, Press, Noticed, TooLate, Agree, script
<1>4. QED
  BY <1>1, <1>2, <1>3 DEF SendInv

LEMMA ReleaseKeeps ==
  ASSUME SendInv, NEW m \in Keyboard, Release(m)
  PROVE  SendInv'
<1>1. SendBase'
  BY ZenonT(60) DEF SendInv, SendBase, SendTyped, Sends, Stages, Release, Noticed, script
<1>2. Lasting'
  BY DEF SendInv, Lasting, LastingItems, Release, Noticed, script
<1>3. HeldAll'
  BY DEF SendInv, SendBase, Items, Stages, HeldAll, Held, HeldItems, HeldInput,
     HeldPlayed, Missing, Settled, Release, Noticed, TooLate, Agree, script
<1>4. QED
  BY <1>1, <1>2, <1>3 DEF SendInv

----------------------------------------------------------------------------
(* The start of SendKeys *)

\* What GetModifierLRState finds is what it was: of a modifier that the user has not
\* changed too late, the hook has missed nothing.

LEMMA BeginSendKeeps ==
  ASSUME SendInv, NEW mode \in {"event", "input"}, NEW blind \in BOOLEAN,
         NEW excluded \in SUBSET Modifiers, BeginSend(mode, blind, excluded)
  PROVE  SendInv'
<1>1. PICK orig \in SUBSET Modifiers, notLogical \in SUBSET Modifiers,
           keep \in SUBSET Modifiers, released \in SUBSET Modifiers,
           event \in SUBSET Modifiers :
        send' = [NoSend EXCEPT
          !.pc = "items", !.mode = mode, !.blind = blind, !.orig = orig,
          !.notLogical = notLogical, !.keep = keep, !.released = released,
          !.event = event]
  BY ZenonT(60) DEF SendInv, SendBase, SendTyped, BeginSend
<1>2. send' \in Sends
  BY <1>1 DEF Sends, Items, Phases, NoSend
<1>3. SendBase'
  BY <1>2 DEF SendInv, SendBase, SendTyped, Stages, BeginSend, NoSend
<1>4. Lasting'
  BY DEF SendInv, Lasting, LastingItems, BeginSend, NoSend
<1>5. HeldAll'
  BY DEF SendInv, SendBase, Stages, HeldAll, Held, HeldItems, HeldInput, Missing,
     Settled, BeginSend
<1>6. QED
  BY <1>3, <1>4, <1>5 DEF SendInv

----------------------------------------------------------------------------
(* SetModifierLRState *)

\* Each keystroke takes system nearer to send.new, and so to what was settled.

LEMMA SendsPressKeeps ==
  ASSUME SendInv, NEW m \in Modifiers, SendsPress(m)
  PROVE  SendInv'
<1>1. SendBase'
  BY DEF SendInv, SendBase, SendTyped, Sends, Stages, SendsPress, script, history
<1>2. Lasting'
  BY DEF SendInv, SendBase, Stages, Lasting, LastingItems, SendsPress, script, history
<1>3. HeldAll'
  BY DEF SendInv, SendBase, Stages, HeldAll, Held, HeldItems, Missing, Settled,
     SendsPress, script, history
<1>4. QED
  BY <1>1, <1>2, <1>3 DEF SendInv

LEMMA SendsReleaseKeeps ==
  ASSUME SendInv, NEW m \in Modifiers, SendsRelease(m)
  PROVE  SendInv'
<1>1. SendBase'
  BY DEF SendInv, SendBase, SendTyped, Sends, Stages, SendsRelease, script, history
<1>2. Lasting'
  BY DEF SendInv, SendBase, Stages, Lasting, LastingItems, SendsRelease, script, history
<1>3. HeldAll'
  BY DEF SendInv, SendBase, Stages, HeldAll, Held, HeldItems, Missing, Settled,
     SendsRelease, script, history
<1>4. QED
  BY <1>1, <1>2, <1>3 DEF SendInv

----------------------------------------------------------------------------
(* The items of a Send *)

LEMMA KeyKeeps ==
  ASSUME SendInv, NEW mods \in SUBSET (Modifiers \ send.keep), Key(mods)
  PROVE  SendInv'
<1>1. SendBase'
  BY ZenonT(60) DEF SendInv, SendBase, SendTyped, Sends, Items, Phases, Stages, Key, Sets,
     Appended, Differ, user, script, history
<1>2. Lasting'
  BY DEF SendInv, Items, Lasting, LastingItems, Key, Sets, Appended, user, script,
     history
<1>3. HeldAll'
  BY DEF SendInv, Items, HeldAll, Held, HeldItems, HeldInput, Missing, Key, Sets,
     Appended, Differ, user, script, history
<1>4. QED
  BY <1>1, <1>2, <1>3 DEF SendInv

LEMMA AdjustedKeeps ==
  ASSUME SendInv, Adjusted
  PROVE  SendInv'
<1>1. SendBase'
  BY DEF SendInv, SendBase, SendTyped, Sends, Items, Phases, Stages, Adjusted, AllSet,
     user, script, history
<1>2. Lasting'
  BY DEF SendInv, Items, Lasting, LastingItems, Adjusted, user, script, history
<1>3. HeldAll'
  BY DEF SendInv, Items, HeldAll, Held, HeldItems, Missing, Adjusted, user, script,
     history
<1>4. QED
  BY <1>1, <1>2, <1>3 DEF SendInv

LEMMA KeyAgainKeeps ==
  ASSUME SendInv, KeyAgain
  PROVE  SendInv'
<1>1. SendBase'
  BY DEF SendInv, SendBase, SendTyped, Sends, Items, Phases, Stages, KeyAgain, Sets,
     user, script, history
<1>2. Lasting'
  BY DEF SendInv, Items, Lasting, LastingItems, KeyAgain, Sets, user, script, history
<1>3. HeldAll'
  BY DEF SendInv, Items, HeldAll, Held, HeldItems, Missing, KeyAgain, Sets, user,
     script, history
<1>4. QED
  BY <1>1, <1>2, <1>3 DEF SendInv

LEMMA KeyDoneKeeps ==
  ASSUME SendInv, KeyDone
  PROVE  SendInv'
<1>1. SendBase'
  BY DEF SendInv, SendBase, SendTyped, Sends, Items, Phases, Stages, KeyDone, Sets,
     user, script, history
<1>2. Lasting'
  BY DEF SendInv, Items, Lasting, LastingItems, KeyDone, Sets, user, script, history
<1>3. HeldAll'
  BY DEF SendInv, Items, HeldAll, Held, HeldItems, Missing, KeyDone, Sets, user, script,
     history
<1>4. QED
  BY <1>1, <1>2, <1>3 DEF SendInv

LEMMA EasedKeeps ==
  ASSUME SendInv, Eased
  PROVE  SendInv'
<1>1. SendBase'
  BY DEF SendInv, SendBase, SendTyped, Sends, Items, Phases, Stages, Eased, AllSet,
     user, script, history
<1>2. Lasting'
  BY DEF SendInv, Items, Lasting, LastingItems, Eased, user, script, history
<1>3. HeldAll'
  BY DEF SendInv, SendBase, Items, Stages, HeldAll, Held, HeldItems, Missing, Eased,
     user, script, history
<1>4. QED
  BY <1>1, <1>2, <1>3 DEF SendInv

LEMMA ModifierDownKeeps ==
  ASSUME SendInv, NEW m \in Modifiers, NEW type \in {"persistent", "temp", "remap"},
         ModifierDown(m, type)
  PROVE  SendInv'
<1>1. CASE send.mode = "event"
  <2>1. /\ send' = [send EXCEPT !.keep = @ \cup {m}]
        /\ system' = system \cup {m}
        /\ g_modifiersLR_logical' = g_modifiersLR_logical \cup {m}
    BY <1>1 DEF ModifierDown, Sent
  <2>2. SendBase'
    BY <2>1 DEF SendInv, SendBase, SendTyped, Sends, Stages, ModifierDown
  <2>3. Lasting'
    BY <2>1 DEF SendInv, Lasting, LastingItems, ModifierDown, Lasts
  <2>4. HeldAll'
    BY <1>1, <2>1 DEF SendInv, HeldAll, Held, HeldItems, Missing, ModifierDown
  <2>5. QED
    BY <2>2, <2>3, <2>4 DEF SendInv
<1>2. CASE send.mode = "input"
  <2>1. /\ send' = [send EXCEPT !.keep = @ \cup {m}, !.event = @ \cup {m},
                                !.touched = @ \cup {m}, !.count = 1]
        /\ UNCHANGED <<system, g_modifiersLR_logical>>
    BY <1>2 DEF ModifierDown, Sent
  <2>2. SendBase'
    BY <1>2, <2>1 DEF SendInv, SendBase, SendTyped, Sends, Stages, ModifierDown
  <2>3. Lasting'
    BY <2>1 DEF SendInv, Lasting, LastingItems, ModifierDown, Lasts
  <2>4. HeldAll'
    BY <2>1 DEF SendInv, HeldAll, Held, HeldItems, HeldInput, Missing, ModifierDown
  <2>5. QED
    BY <2>2, <2>3, <2>4 DEF SendInv
<1>3. QED
  BY <1>1, <1>2 DEF SendInv, SendBase, SendTyped, Sends

LEMMA ModifierUpKeeps ==
  ASSUME SendInv, NEW m \in Modifiers, ModifierUp(m)
  PROVE  SendInv'
<1>1. CASE send.mode = "event"
  <2>1. /\ send' = [send EXCEPT !.keep = @ \ {m}]
        /\ system' = system \ {m}
        /\ g_modifiersLR_logical' = g_modifiersLR_logical \ {m}
    BY <1>1 DEF ModifierUp, Sent
  <2>2. SendBase'
    BY <2>1 DEF SendInv, SendBase, SendTyped, Sends, Stages, ModifierUp
  <2>3. Lasting'
    BY <2>1 DEF SendInv, Lasting, LastingItems, ModifierUp
  <2>4. HeldAll'
    BY <1>1, <2>1 DEF SendInv, HeldAll, Held, HeldItems, Missing, ModifierUp
  <2>5. QED
    BY <2>2, <2>3, <2>4 DEF SendInv
<1>2. CASE send.mode = "input"
  <2>1. /\ send' = [send EXCEPT !.keep = @ \ {m}, !.event = @ \ {m},
                                !.touched = @ \cup {m}, !.count = 1]
        /\ UNCHANGED <<system, g_modifiersLR_logical>>
    BY <1>2 DEF ModifierUp, Sent
  <2>2. SendBase'
    BY <1>2, <2>1 DEF SendInv, SendBase, SendTyped, Sends, Stages, ModifierUp
  <2>3. Lasting'
    BY <2>1 DEF SendInv, Lasting, LastingItems, ModifierUp
  <2>4. HeldAll'
    BY <2>1 DEF SendInv, HeldAll, Held, HeldItems, HeldInput, Missing, ModifierUp
  <2>5. QED
    BY <2>2, <2>3, <2>4 DEF SendInv
<1>3. QED
  BY <1>1, <1>2 DEF SendInv, SendBase, SendTyped, Sends

LEMMA ModifierTapKeeps ==
  ASSUME SendInv, NEW m \in Modifiers, ModifierTap(m)
  PROVE  SendInv'
<1>1. CASE send.mode = "event"
  <2>1. /\ send' = send
        /\ system' = system \ {m}
        /\ g_modifiersLR_logical' = g_modifiersLR_logical \ {m}
    BY <1>1 DEF ModifierTap, Sent, SendInv, SendBase, SendTyped, Sends
  <2>2. SendBase'
    BY <2>1 DEF SendInv, SendBase, SendTyped, Stages, ModifierTap, script, history
  <2>3. Lasting'
    BY <1>1, <2>1 DEF SendInv, Lasting, LastingItems, ModifierTap, script, history
  <2>4. HeldAll'
    BY <1>1, <2>1 DEF SendInv, HeldAll, Held, HeldItems, Missing, ModifierTap, script,
       history
  <2>5. QED
    BY <2>2, <2>3, <2>4 DEF SendInv
<1>2. CASE send.mode = "input"
  <2>1. /\ send' = [send EXCEPT !.event = @ \ {m},
                                !.touched = @ \cup {m}, !.count = 1]
        /\ UNCHANGED <<system, g_modifiersLR_logical>>
    BY <1>2 DEF ModifierTap, Sent
  <2>2. SendBase'
    BY <1>2, <2>1 DEF SendInv, SendBase, SendTyped, Sends, Stages, ModifierTap, script,
       history
  <2>3. Lasting'
    BY <2>1 DEF SendInv, Lasting, LastingItems, ModifierTap, script, history
  <2>4. HeldAll'
    BY <2>1 DEF SendInv, HeldAll, Held, HeldItems, HeldInput, Missing, ModifierTap,
       script, history
  <2>5. QED
    BY <2>2, <2>3, <2>4 DEF SendInv
<1>3. QED
  BY <1>1, <1>2 DEF SendInv, SendBase, SendTyped, Sends

----------------------------------------------------------------------------
(* The end of SendKeys *)

LEMMA EndSendEventKeeps ==
  ASSUME SendInv, EndSendEvent
  PROVE  SendInv'
<1>1. SendBase'
  BY ZenonT(60) DEF SendInv, SendBase, SendTyped, Sends, Phases, Stages, EndSendEvent, Sets,
     ToRestore, user, script, history
<1>2. Lasting'
  BY DEF SendInv, Items, Lasting, LastingItems, EndSendEvent, Sets, ToRestore, user,
     script, history
<1>3. HeldAll'
  BY DEF SendInv, SendBase, Items, Stages, HeldAll, Held, HeldItems, Missing, Settled,
     EndSendEvent, Sets, ToRestore, Differ, user, script, history
<1>4. QED
  BY <1>1, <1>2, <1>3 DEF SendInv

LEMMA RestoredKeeps ==
  ASSUME SendInv, Restored
  PROVE  SendInv'
<1>1. SendBase'
  BY DEF SendInv, SendBase, SendTyped, Sends, Phases, Stages, Restored, SendReturns,
     NoSend, user, script
<1>2. Lasting'
  BY DEF SendInv, Items, Lasting, Restored, AllSet, SendReturns, NoSend, user, script
<1>3. HeldAll'
  BY DEF SendInv, Items, HeldAll, Held, Settled, Restored, AllSet, SendReturns, NoSend,
     user, script
<1>4. QED
  BY <1>1, <1>2, <1>3 DEF SendInv

LEMMA EndSendInputKeeps ==
  ASSUME SendInv, EndSendInput
  PROVE  SendInv'
<1> DEFINE differ == Differ(ToRestoreInArray, send.event)
<1>1. ToRestoreInArray \subseteq Modifiers /\ differ \subseteq Modifiers
  BY DEF SendInv, SendBase, SendTyped, Sends, ToRestoreInArray, Differ
<1>2. send' = [send EXCEPT !.event = ToRestoreInArray, !.touched = @ \cup differ,
                           !.count = 1, !.pc = "array"]
  BY DEF EndSendInput, Appended
<1> HIDE DEF differ
<1>3. send' \in Sends
  BY <1>1, <1>2 DEF SendInv, SendBase, SendTyped, Sends, Phases
<1>4. SendBase'
  BY <1>3 DEF SendInv, SendBase, SendTyped, Stages, EndSendInput, Appended, user,
     script, history
<1>5. Lasting'
  BY DEF SendInv, Items, Lasting, LastingItems, EndSendInput, Appended,
     ToRestoreInArray, user, script, history
<1>6. HeldAll'
  BY DEF SendInv, Items, HeldAll, Held, HeldItems, HeldInput, Missing, Settled,
     EndSendInput, Appended, ToRestoreInArray, Differ, user, script, history
<1>7. QED
  BY <1>4, <1>5, <1>6 DEF SendInv

LEMMA NothingToSendKeeps ==
  ASSUME SendInv, NothingToSend
  PROVE  SendInv'
<1>1. SendBase'
  BY DEF SendInv, SendBase, SendTyped, Sends, Phases, Stages, NothingToSend,
     SendReturns, NoSend, user, script
<1>2. Lasting'
  BY DEF SendInv, Items, Lasting, LastingItems, NothingToSend, SendReturns, NoSend,
     user, script
<1>3. HeldAll'
  BY DEF SendInv, Items, HeldAll, Held, Settled, NothingToSend, SendReturns, NoSend,
     user, script
<1>4. QED
  BY <1>1, <1>2, <1>3 DEF SendInv

LEMMA HookRemovedKeeps ==
  ASSUME SendInv, HookRemoved
  PROVE  SendInv'
<1>1. SendBase'
  BY DEF SendInv, SendBase, SendTyped, Stages, HookRemoved, user, script, history
<1>2. Lasting'
  BY DEF SendInv, Lasting, LastingItems, HookRemoved, user, script, history
<1>3. HeldAll'
  BY DEF SendInv, HeldAll, Held, HeldItems, HeldInput, Missing, Settled, HookRemoved,
     user, script, history
<1>4. QED
  BY <1>1, <1>2, <1>3 DEF SendInv

LEMMA PlayedKeeps ==
  ASSUME SendInv, Played
  PROVE  SendInv'
<1>1. SendBase'
  BY DEF SendInv, SendBase, SendTyped, Sends, Phases, Stages, Played, script
<1>2. Lasting'
  BY DEF SendInv, Items, Lasting, Played, script
<1>3. hidden' \subseteq Suffixes /\ sModifiersLR_remapped' \subseteq asked'
  BY DEF SendInv, HeldAll, Played, script
<1>4. ASSUME NEW k \in Modifiers \ raced' PROVE Held(k)'
  <2>1. k \notin raced /\ Held(k)
    BY DEF SendInv, HeldAll, Played
  <2>2. QED
    BY <2>1 DEF SendInv, SendBase, Items, Stages, Held, HeldInput, HeldPlayed, Settled,
       Played
<1>5. QED
  BY <1>1, <1>2, <1>3, <1>4 DEF SendInv, HeldAll

LEMMA CorrectedKeeps ==
  ASSUME SendInv, HookCorrected
  PROVE  SendInv'
<1>1. SendBase'
  BY DEF SendInv, SendBase, SendTyped, Sends, Phases, Stages, HookCorrected, script,
     history
<1>2. Lasting'
  BY DEF SendInv, Items, Lasting, HookCorrected, script, history
<1>3. hidden' \subseteq Suffixes /\ sModifiersLR_remapped' \subseteq asked'
  BY DEF SendInv, HeldAll, HookCorrected, script, history
<1>4. ASSUME NEW k \in Modifiers \ raced' PROVE Held(k)'
  <2>1. k \notin raced /\ Held(k)
    BY DEF SendInv, HeldAll, HookCorrected, history
  <2>2. QED
    BY <2>1 DEF Items, Held, HeldPlayed, Settled, HookCorrected, history
<1>5. QED
  BY <1>1, <1>2, <1>3, <1>4 DEF SendInv, HeldAll

LEMMA HookRestoredKeeps ==
  ASSUME SendInv, HookRestored
  PROVE  SendInv'
<1>1. SendBase'
  BY DEF SendInv, SendBase, SendTyped, Sends, Phases, Stages, HookRestored, SendReturns,
     NoSend, user, script
<1>2. Lasting'
  BY DEF SendInv, Items, Lasting, HookRestored, SendReturns, NoSend, user, script
<1>3. HeldAll'
  BY DEF SendInv, Items, HeldAll, Held, Settled, HookRestored, SendReturns, NoSend,
     user, script
<1>4. QED
  BY <1>1, <1>2, <1>3 DEF SendInv

----------------------------------------------------------------------------
(* The invariant, and what follows from it *)

LEMMA SendInvInit ==
  ASSUME SendInit
  PROVE  SendInv
<1>1. send \in Sends
  BY DEF SendInit, NoSend, Sends, Phases
<1>2. SendBase
  BY <1>1 DEF SendInit, NoSend, SendBase, SendTyped, Stages
<1>3. Lasting /\ HeldAll
  BY DEF SendInit, NoSend, Lasting, HeldAll, Held, Settled, Items
<1>4. QED
  BY <1>2, <1>3 DEF SendInv

LEMMA StutterKeeps ==
  ASSUME SendInv, UNCHANGED sendVars
  PROVE  SendInv'
<1>1. SendBase'
  BY DEF SendInv, SendBase, SendTyped, Stages, sendVars, user, script, history
<1>2. Lasting'
  BY DEF SendInv, Lasting, LastingItems, sendVars, user, script, history
<1>3. HeldAll'
  BY DEF SendInv, HeldAll, Held, HeldItems, HeldInput, HeldPlayed, Missing, Settled,
     sendVars, user, script, history
<1>4. QED
  BY <1>1, <1>2, <1>3 DEF SendInv

LEMMA SendInvNext == SendInv /\ [SendNext]_sendVars => SendInv'
<1> SUFFICES ASSUME SendInv, [SendNext]_sendVars PROVE SendInv'
  OBVIOUS
<1>1. ASSUME NEW m \in Keyboard, Release(m) PROVE SendInv'
  BY <1>1, ReleaseKeeps
<1>2. ASSUME NEW m \in Keyboard, NEW suppressed \in BOOLEAN, Press(m, suppressed)
      PROVE  SendInv'
  BY <1>2, PressKeeps
<1>3. ASSUME NEW m \in Modifiers,
             SendsPress(m) \/ SendsRelease(m) \/ ModifierUp(m) \/ ModifierTap(m)
      PROVE  SendInv'
  BY <1>3, SendsPressKeeps, SendsReleaseKeeps, ModifierUpKeeps, ModifierTapKeeps
<1>4. ASSUME NEW m \in Modifiers, NEW type \in {"persistent", "temp", "remap"},
             ModifierDown(m, type)
      PROVE  SendInv'
  BY <1>4, ModifierDownKeeps
<1>5. ASSUME NEW mode \in {"event", "input"}, BeginSend(mode, FALSE, {}) PROVE SendInv'
  BY <1>5, BeginSendKeeps
<1>6. ASSUME NEW mode \in {"event", "input"}, NEW excluded \in SUBSET Modifiers,
             BeginSend(mode, TRUE, excluded)
      PROVE  SendInv'
  BY <1>6, BeginSendKeeps
<1>7. ASSUME NEW mods \in SUBSET (Modifiers \ send.keep), Key(mods) PROVE SendInv'
  BY <1>7, KeyKeeps
<1>8. ASSUME Adjusted \/ KeyAgain \/ KeyDone \/ Eased PROVE SendInv'
  BY <1>8, AdjustedKeeps, KeyAgainKeeps, KeyDoneKeeps, EasedKeeps
<1>9. ASSUME EndSendEvent \/ Restored \/ EndSendInput \/ NothingToSend
      PROVE  SendInv'
  BY <1>9, EndSendEventKeeps, RestoredKeeps, EndSendInputKeeps, NothingToSendKeeps
<1>10. ASSUME HookRemoved \/ Played \/ HookCorrected \/ HookRestored
       PROVE  SendInv'
  BY <1>10, HookRemovedKeeps, PlayedKeeps, CorrectedKeeps, HookRestoredKeeps
<1>11. QED
  BY <1>1, <1>2, <1>3, <1>4, <1>5, <1>6, <1>7, <1>8, <1>9, <1>10,
     StutterKeeps DEF SendNext

LEMMA SendInvHolds == SendSpec => []SendInv
<1>1. SendInit => SendInv
  BY SendInvInit
<1>2. QED
  BY <1>1, SendInvNext, PTL DEF SendSpec

\* Once a Send is over, whatever was sent and whatever the user did meanwhile, the
\* modifiers are as the user holds them: SetModifierLRState at the end of SendKeys
\* (keyboard_mouse.cpp) leaves down only what was asked for, and up only what is hidden
\* or was let go.  Of a modifier changed in one of the moments of TooLate it says
\* nothing.
THEOREM UserIsObeyed == SendSpec => []AsTheUserHolds
<1>1. SendInv => AsTheUserHolds
  BY DEF SendInv, SendBase, SendTyped, HeldAll, Held, Settled, AsTheUserHolds
<1>2. QED
  BY <1>1, SendInvHolds, PTL

\* What {m Down} or {m DownR} has put down is down after every later Send, although each
\* of them may have to release it: sModifiersLR_persistent and sModifiersLR_remapped
\* together remember it, through blind Sends and the arrays of SendInput too.
THEOREM ScriptIsObeyed == SendSpec => []AskedKept
<1>1. SendInv => AskedKept
  BY DEF SendInv, Lasting, AskedKept
<1>2. QED
  BY <1>1, SendInvHolds, PTL

==============================================================================
