------------------------------ MODULE KeyHook ------------------------------
(* The keyboard hook's handling of one key after the other (hook.cpp,
   LowLevelCommon): which hotkey a key event fires, at once or upon release, and
   whether the system gets to see the event.  A key can be a prefix ("a & b"), a
   suffix, a modifier, a toggle key, or several of these; the hook remembers what it
   has done with a key until the key is released.

   Hotkeys are records: the suffix key, the prefix key of a custom combination or
   None, the modifiers, whether it fires on key-up, whether it has a tilde (on the
   suffix, on the prefix), and whether it is subject to the criterion.  Left out are
   wildcards, neutral modifiers (which only multiply the modifiers that match),
   scan codes (a key is one entry of kvk and ksc), mouse events and Alt-Tab. *)
EXTENDS Integers, FiniteSets, KeyboardState

CONSTANTS
  Keys,       \* keys of the keyboard
  Toggles,    \* those with pForceToggle, neutral
  Repeating,  \* those that the user may hold until they repeat
  Hotkeys,    \* shk[]: hook hotkeys
  Selections, \* sets of hotkeys that the script or Suspend leaves enabled
  MaxChanges, \* bound: changes of the hotkeys, the criterion or the hook
  None        \* no key, no hotkey

ASSUME KeysAssumption ==
  /\ Modifiers \subseteq Keys /\ Toggles \subseteq Keys \ Modifiers
  /\ Repeating \subseteq Keys
  /\ None \notin Keys \cup Hotkeys
  /\ \A h \in Hotkeys :
       /\ h.key \in Keys /\ h.prefix \in (Keys \cup {None}) \ {h.key}
       /\ h.mods \subseteq Modifiers \ {h.key} /\ (h.prefix # None => h.mods = {})
       /\ {h.up, h.tilde, h.prefixTilde, h.criterion} \subseteq BOOLEAN
  /\ \A h, i \in Hotkeys :   \* variants of one hotkey are not modelled
       h.key = i.key /\ h.prefix = i.prefix /\ h.mods = i.mods /\ h.up = i.up => h = i
  /\ Selections \subseteq SUBSET Hotkeys

VARIABLES
  enabled,    \* hotkeys in the hook's arrays: neither turned off nor suspended
  holds,      \* the criterion (#HotIf WinActive) holds
  repeats,    \* the key that auto-repeats, or None
  kvk,
  pPrefixKey,
  logical,    \* g_modifiersLR_logical, and its non_ignored part
  posted,     \* hotkeys posted to the main thread by the last event
  changes,    \* how many there have been
  press       \* history: of the present or last press of each key

vars == <<enabled, holds, absent, physical, repeats, system, kvk, pPrefixKey, logical,
          posted, changes, press>>

\* The part of key_type that follows the user's keys.  next_up: the flag
\* NO_SUPPRESS_NEXT_UP_EVENT.
Released ==
  [is_down |-> FALSE, down_performed_action |-> FALSE,
   hotkey_to_fire_upon_release |-> None, hotkey_down_was_suppressed |-> FALSE,
   next_up |-> FALSE, was_just_used |-> "no"]

\* fired: how many of its key-down hotkeys the key has fired since it last went
\* down; owes: one of those has a key-up counterpart; others: a key that is no
\* modifier went down while this one was pPrefixKey; changed: the hotkeys, or what
\* became of the key, changed while it was held, or its press began with what such a
\* change had left; second: the key, a prefix and a suffix, was passed on while
\* another prefix was in effect.
Unpressed ==
  [fired |-> 0, owes |-> FALSE, others |-> FALSE, changed |-> FALSE, second |-> FALSE]

Init ==
  /\ enabled \in Selections /\ holds \in BOOLEAN /\ absent = FALSE
  /\ physical = {} /\ repeats = None /\ system = {}
  /\ kvk = [k \in Keys |-> Released]
  /\ pPrefixKey = None /\ logical = {} /\ posted = {} /\ changes = 0
  /\ press = [k \in Keys |-> Unpressed]

----------------------------------------------------------------------------
(* The arrays that ChangeHookState builds from the hotkeys *)

Combos == {h \in enabled : h.prefix # None}

UsedAsSuffix(k) == \E h \in enabled : h.key = k
UsedAsKeyUp(k) == \E h \in enabled : h.key = k /\ h.up
\* A modifier that is a hotkey by itself becomes a prefix, so that it fires on
\* release, if another hotkey has it as its modifier.
UsedAsPrefix(k) ==
  \/ \E h \in Combos : h.prefix = k
  \/ /\ k \in Modifiers
     /\ \E h \in enabled \ Combos : h.key = k /\ h.mods = {} /\ ~h.tilde
     /\ \E h \in Hotkeys : k \in h.mods
ComboHasTilde(k) == k \notin Modifiers /\ \E h \in Combos : h.prefix = k /\ h.prefixTilde

\* Kvkm(mods, k): the key-down hotkey, with its key-up counterpart in hotkey_up; or
\* else the key-up hotkey.
Exactly(mods, k, up) ==
  {h \in enabled \ Combos : h.key = k /\ h.mods = mods /\ h.up = up}
AnyOf(hotkeys) == IF hotkeys = {} THEN None ELSE CHOOSE h \in hotkeys : TRUE
Kvkm(mods, k) ==
  IF Exactly(mods, k, FALSE) # {} THEN AnyOf(Exactly(mods, k, FALSE))
  ELSE AnyOf(Exactly(mods, k, TRUE))
hotkey_up(h) ==
  IF h = None \/ h \in Combos THEN None
  ELSE IF h.up THEN None ELSE AnyOf(Exactly(h.mods, h.key, TRUE))

\* Which hotkeys may fire now.
Eligible(h) == h \in enabled /\ (h.criterion => holds)

\* PrefixHasNoEnabledSuffixes, and whether it leaves the prefix suppressed.
EnabledSuffixes(k) == {h \in enabled : (h.prefix = k \/ k \in h.mods) /\ Eligible(h)}
SuppressPrefix(k) ==
  /\ EnabledSuffixes(k) # {}
  /\ ComboHasTilde(k) => \A h \in EnabledSuffixes(k) : ~h.prefixTilde

\* GetModifierLRState(true): modifiers that are up for the system are up.
Corrected == logical \cap system
PrefixCorrected == IF pPrefixKey \in logical \ system THEN None ELSE pPrefixKey

\* CriterionFiringIsCertain: what fires when h is to fire: h itself, or one that it
\* eclipses, of the same suffix and with the modifiers that are down; or None.
Eclipsed(h) ==
  {e \in Exactly(Corrected, h.key, h.up) : Eligible(e) /\ e # h
      /\ (h.prefix # None \/ Cardinality(e.mods) <= Cardinality(h.mods))}
Certain(h) ==
  IF h = None THEN None ELSE IF Eligible(h) THEN h ELSE AnyOf(Eclipsed(h))

\* That it fires upon key-down, or key-up, without a tilde.
Silences(h) == Certain(h) # None /\ ~Certain(h).tilde

----------------------------------------------------------------------------
(* LowLevelCommon.  A way out of it is [kvk, prefix, pass, fires, again]: the new
   state, whether the event goes on to the system, the hotkeys it fires, and whether
   the toggle key is pressed once more to undo the user's press. *)

Way(keys, prefix, pass) ==
  [kvk |-> keys, prefix |-> prefix, pass |-> pass, fires |-> {}, again |-> FALSE]

\* (Mutant) A prefix is not marked as used.
NeverUsed(keys, k, as) == keys

\* was_just_used = AS_PREFIX or AS_PREFIX_FOR_HOTKEY, unless it is passed through.
Used(keys, k, as) ==
  IF k = None THEN keys
  ELSE [keys EXCEPT ![k].was_just_used = IF @ = "passthrough" THEN @ ELSE as]

(* A key goes down *)

\* The end of Case 4: h is to fire, combo tells whether it is a custom combination.
FiresDown(k, keys, prefix, h, combo) ==
  LET tilde == Certain(h).tilde
      used == IF combo \/ prefix \in Modifiers THEN Used(keys, prefix, "for_hotkey")
              ELSE keys
  IN  [Way([used EXCEPT ![k].down_performed_action = TRUE,
                        ![k].next_up = @ \/ tilde,
                        ![k].hotkey_down_was_suppressed = ~tilde],
           prefix, tilde) EXCEPT !.fires = {Certain(h)}]

\* h cannot fire: the event is suppressed if a hotkey will fire upon release.
CannotFireDown(k, keys, prefix) ==
  LET release == keys[k].hotkey_to_fire_upon_release
  IN  IF Silences(release)
      THEN Way([keys EXCEPT ![k].hotkey_down_was_suppressed = TRUE], prefix, FALSE)
      ELSE Way([keys EXCEPT ![k].next_up = @ \/ release # None], prefix, TRUE)

EndsDown(k, keys, prefix, h, combo) ==
  IF Certain(h) # None THEN FiresDown(k, keys, prefix, h, combo)
  ELSE CannotFireDown(k, keys, prefix)

\* No hotkey has the modifiers that are down, except perhaps a key-up hotkey.
NothingDown(k, keys, prefix) ==
  LET silent == Silences(keys[k].hotkey_to_fire_upon_release)
  IN  Way([keys EXCEPT ![k].hotkey_down_was_suppressed = silent], prefix, ~silent)

\* Combinations whose prefix is down.  (The order of the hotkeys in the script
\* decides between several; here any is chosen.)
HeldCombos(k, keys, up) == {h \in Combos : h.key = k /\ h.up = up /\ keys[h.prefix].is_down}
Either(hotkeys) == IF hotkeys = {} THEN {None} ELSE hotkeys

\* What fires upon release: a key-up combination, or else the hotkey's own key-up
\* counterpart.
\* (Mutant) The counterpart is not queued.
ReleasesAlone(r, own) ==
  IF r # None \/ own = None THEN r ELSE IF own.up THEN own ELSE None

Releases(r, own) ==
  IF r # None \/ own = None THEN r ELSE IF own.up THEN own ELSE hotkey_up(own)

SuffixDown(k, keys, prefix) ==
  LET own == Kvkm(Corrected \ {k}, k)
      combos(up) == IF prefix = None THEN {None} ELSE Either(HeldCombos(k, keys, up))
      queued(r) == [keys EXCEPT ![k].hotkey_to_fire_upon_release = r]
  IN  {IF h # None THEN EndsDown(k, queued(r), h.prefix, h, TRUE)
       ELSE IF own = None \/ own \in Exactly(Corrected \ {k}, k, TRUE)
         THEN NothingDown(k, queued(Releases(r, own)), prefix)
         ELSE EndsDown(k, queued(Releases(r, own)), prefix, own, FALSE) :
       h \in combos(FALSE), r \in combos(TRUE)}

\* Case 1: a prefix key.  Its own hotkey fires now if modifiers are down or the key
\* is not suppressed; without modifiers, a tilde (its own or of its key-up
\* counterpart) is needed, or else it waits for the release.
FiresNow(own, suppress, mods) ==
  IF own = None \/ ~suppress \/ mods # {} THEN own
  ELSE IF Certain(own) # None /\ (~Silences(own) \/ (Certain(hotkey_up(own)) # None
                                                     /\ ~Silences(hotkey_up(own)))) THEN own
  ELSE IF Certain(hotkey_up(own)) # None /\ ~Silences(hotkey_up(own)) THEN hotkey_up(own)
  ELSE None

PrefixDown(k, keys) ==
  LET suppress == SuppressPrefix(k)
      takes == EnabledSuffixes(k) # {}
      prefix == IF takes THEN k ELSE PrefixCorrected
      mods == Corrected \ {k}
      own == IF UsedAsSuffix(k) THEN Kvkm(mods, k) ELSE None
      now == FiresNow(own, suppress, mods)
      fresh == IF takes /\ PrefixCorrected # k
               THEN [keys EXCEPT ![k].was_just_used = "no"] ELSE keys
      noted == IF own # None /\ ~suppress
               THEN [fresh EXCEPT ![k].was_just_used = "passthrough"] ELSE fresh
      pass == k \in Modifiers \cup Toggles \/ ~suppress
  IN  IF now # None /\ now \in Exactly(mods, k, FALSE)
      THEN EndsDown(k, [noted EXCEPT ![k].hotkey_to_fire_upon_release = hotkey_up(now)],
                    prefix, now, FALSE)
      ELSE Way([noted EXCEPT ![k].hotkey_to_fire_upon_release = now,
                             ![k].next_up = @ \/ ~suppress,
                             ![k].hotkey_down_was_suppressed = ~pass], prefix, pass)

DownWays(k) ==
  LET pressed == [kvk EXCEPT ![k].is_down = TRUE,
                             ![k].hotkey_down_was_suppressed = FALSE,
                             ![k].hotkey_to_fire_upon_release = None]
      begun == IF pPrefixKey # k /\ k \notin Modifiers
               THEN Used(pressed, pPrefixKey, "prefix") ELSE pressed
  IN  IF ~UsedAsPrefix(k) /\ ~UsedAsSuffix(k) THEN {Way(begun, pPrefixKey, TRUE)}
      ELSE IF UsedAsPrefix(k)
              /\ (PrefixCorrected \in {None, k} \/ ~UsedAsSuffix(k))
      THEN {PrefixDown(k, begun)}
      ELSE SuffixDown(k, begun, PrefixCorrected)

(* A key is released *)

EndsUp(k, keys, prefix, h, combo) ==
  LET tilde == kvk[k].next_up \/ Certain(h).tilde
      used == IF combo THEN Used(keys, prefix, "for_hotkey") ELSE keys
      again == k \in Toggles /\ UsedAsPrefix(k)
      unsilenced == ~keys[k].hotkey_down_was_suppressed
  IN  IF Certain(h) = None THEN Way(keys, prefix, unsilenced)
      ELSE [Way(used, prefix, IF k \in Modifiers THEN unsilenced ELSE tilde /\ ~again)
              EXCEPT !.fires = {Certain(h), hotkey_up(Certain(h))} \ {None},
                     !.again = again]

\* What the modifiers that are down make of a release: a key-up hotkey, or a key-down
\* hotkey, unless the key fell through from Case 2 and has fired already.
\* (Mutant) A hotkey without a counterpart fires again.
FoundAgain(own, fell) ==
  IF own = None \/ own.up \/ hotkey_up(own) = None THEN own
  ELSE IF fell \/ Certain(own) = None THEN hotkey_up(own) ELSE own

Found(own, fell) ==
  IF own = None \/ own.up THEN own
  ELSE IF fell \/ (Certain(own) = None /\ hotkey_up(own) # None) THEN hotkey_up(own)
  ELSE own

\* Nothing fires upon release.
\* (Mutant) The release of a suffix is suppressed.
PassesUpIfUnsuppressed(k) == k \in Modifiers \cup Toggles \/ kvk[k].next_up

PassesUp(k) == k \in Modifiers \cup Toggles \/ ~UsedAsPrefix(k) \/ kvk[k].next_up

\* Case 4, for a key that fell through from Case 2 (fell) or 3.
SuffixUp(k, keys, prefix, fell) ==
  LET queued == kvk[k].hotkey_to_fire_upon_release
      own == Kvkm(Corrected \ {k}, k)
      combos == IF prefix = None \/ queued # None THEN {None}
                ELSE Either(HeldCombos(k, keys, TRUE))
      found == Found(own, fell)
  IN  {IF h # None THEN EndsUp(k, keys, h.prefix, h, TRUE)
       ELSE IF queued # None THEN EndsUp(k, keys, prefix, queued, FALSE)
       ELSE IF found # None THEN EndsUp(k, keys, prefix, found, FALSE)
       ELSE Way(keys, prefix, PassesUp(k)) :
       h \in combos}

\* Case 3: a prefix key, prefix being what is left in effect.
PrefixUp(k, keys, prefix, fell) ==
  LET old == kvk[k]
  IN  IF k \in Toggles /\ old.was_just_used = "for_hotkey"
        THEN {[Way(keys, prefix, FALSE) EXCEPT !.again = TRUE]}
      ELSE IF k \in Toggles /\ old.was_just_used = "prefix"
        THEN {Way(keys, prefix, TRUE)}
      ELSE IF /\ old.was_just_used \in {"prefix", "for_hotkey"}
              /\ old.hotkey_to_fire_upon_release = None
        THEN {Way(keys, prefix, k \in Modifiers \/ old.next_up)}
      ELSE IF ~UsedAsSuffix(k)
        THEN {Way(keys, prefix, k \in Modifiers \cup Toggles \/ old.next_up)}
      ELSE IF ~old.is_down /\ ~UsedAsKeyUp(k) THEN {Way(keys, prefix, TRUE)}
      ELSE SuffixUp(k, keys, prefix, fell)

\* pPrefixKey after the release.
\* (Mutant) A prefix that has fired as a suffix stays in effect.
LeftUnlessFired(k) ==
  IF PrefixCorrected = k /\ ~kvk[k].down_performed_action THEN None ELSE PrefixCorrected

LeftPrefix(k) == IF PrefixCorrected = k THEN None ELSE PrefixCorrected

UpWays(k) ==
  LET old == kvk[k]
      up == [kvk EXCEPT ![k].is_down = FALSE]
      keys == [up EXCEPT ![k].down_performed_action = FALSE, ![k].next_up = FALSE,
                         ![k].hotkey_to_fire_upon_release = None]
      left == LeftPrefix(k)
      \* Case 2: a suffix has been released.
      fell == UsedAsSuffix(k) /\ (PrefixCorrected # k \/ old.down_performed_action)
  IN  IF ~UsedAsPrefix(k) /\ ~UsedAsSuffix(k) THEN {Way(up, pPrefixKey, TRUE)}
      ELSE IF fell /\ ~UsedAsKeyUp(k)
        THEN {Way(keys, left, ~old.down_performed_action \/ old.next_up)}
      ELSE IF UsedAsPrefix(k) THEN PrefixUp(k, keys, left, fell)
      ELSE SuffixUp(k, keys, IF fell THEN left ELSE PrefixCorrected, fell)

(* What becomes of the event *)

Fires(k, h) == h.key = k /\ ~h.up
\* The event goes on to the system, or is replaced by a release and another press.
\* The release of a suppressed modifier is sent at once.
SystemSees(k, down, way, mods) ==
  IF way.again THEN system \ {k}
  ELSE IF ~way.pass
    THEN IF down /\ way.fires # {} /\ k \in Modifiers \ mods THEN system \ {k} ELSE system
  ELSE IF down THEN system \cup {k} ELSE system \ {k}

\* The hook is done with a key that is not held.
Clean(k) ==
  /\ k \notin system /\ pPrefixKey # k
  /\ ~kvk[k].is_down /\ ~kvk[k].down_performed_action /\ ~kvk[k].next_up

\* Both UpdateKeybdState and the callers of LowLevelCommon.
Deliver(k, down, way) ==
  LET tracked == UsedAsPrefix(k) \/ UsedAsSuffix(k)
      mods == IF tracked THEN Corrected ELSE logical
      fresh == k \notin physical
      second == /\ UsedAsPrefix(k) /\ UsedAsSuffix(k) /\ way.pass
                /\ PrefixCorrected \notin {None, k}
      unprepared == \E h \in Hotkeys : /\ way.fires = {h} /\ h.up
                                       /\ h # kvk[k].hotkey_to_fire_upon_release
      begun == IF ~down THEN [press[k] EXCEPT !.changed = @ \/ unprepared]
               ELSE IF fresh THEN [Unpressed EXCEPT !.second = second,
                                                    !.changed = ~Clean(k)]
               ELSE [press[k] EXCEPT !.fired = 0, !.second = @ \/ second,
                                     !.changed = @ \/ way.pass # (k \in system)]
  IN  /\ kvk' = way.kvk /\ pPrefixKey' = way.prefix /\ posted' = way.fires
      /\ system' = SystemSees(k, down, way, mods)
      /\ logical' = IF k \notin Modifiers \/ ~way.pass THEN mods
                    ELSE IF down THEN mods \cup {k} ELSE mods \ {k}
      /\ press' = [j \in Keys |->
           LET p == IF j = k THEN begun ELSE press[j]
           IN  [p EXCEPT
                  !.fired = @ + Cardinality({h \in way.fires : Fires(j, h)}),
                  !.owes = IF j # k THEN @
                           ELSE down /\ \E h \in way.fires : hotkey_up(h) # None,
                  !.others = @ \/ (down /\ j # k /\ j = pPrefixKey /\ k \notin Modifiers)]]
      /\ UNCHANGED <<enabled, holds, absent, changes>>

\* The user presses a key, or holds it until it repeats.
Down(k) ==
  /\ ~absent /\ (k \notin physical \/ k = repeats)
  /\ \E way \in DownWays(k) : Deliver(k, TRUE, way)
  /\ physical' = physical \cup {k}
  /\ repeats' = IF k \in Repeating THEN k ELSE None

Up(k) ==
  /\ ~absent /\ k \in physical
  /\ \E way \in UpWays(k) : Deliver(k, FALSE, way)
  /\ physical' = physical \ {k}
  /\ repeats' = IF repeats = k THEN None ELSE repeats

----------------------------------------------------------------------------
(* What else happens *)

\* What a change does to the history of the keys that are held.
Changes ==
  /\ changes < MaxChanges /\ changes' = changes + 1
  /\ press' = [k \in Keys |-> [press[k] EXCEPT !.changed = @ \/ k \in physical]]

\* ChangeHookState builds the arrays anew and leaves the state of the keys alone.
ChangeHookState ==
  /\ ~absent
  /\ enabled' \in Selections \ {enabled}
  /\ Changes
  /\ posted' = {}
  /\ UNCHANGED <<holds, absent, physical, repeats, system, kvk, pPrefixKey, logical>>

\* Another window becomes active.
CriterionChanges ==
  /\ ~absent
  /\ holds' = ~holds
  /\ Changes
  /\ posted' = {}
  /\ UNCHANGED <<enabled, absent, physical, repeats, system, kvk, pPrefixKey, logical>>

HookIsAbsent ==
  /\ ~absent /\ absent' = TRUE
  /\ Changes
  /\ posted' = {}
  /\ UNCHANGED <<enabled, holds, physical, repeats, system, kvk, pPrefixKey, logical>>

\* A key goes down or up meanwhile.
UnseenKey(k) ==
  /\ absent
  /\ LET down == k \notin physical
     IN  /\ physical' = IF down THEN physical \cup {k} ELSE physical \ {k}
         /\ system' = IF down THEN system \cup {k} ELSE system \ {k}
         /\ repeats' = IF down \/ repeats = k THEN None ELSE repeats
         /\ press' = [press EXCEPT ![k] = [Unpressed EXCEPT !.changed = TRUE]]
  /\ UNCHANGED <<enabled, holds, absent, kvk, pPrefixKey, logical, posted, changes>>

\* The keys are seen again; after SendInput, the modifiers are taken from the system.
HookIsBack ==
  /\ absent /\ absent' = FALSE
  /\ logical' \in {logical, system \cap Modifiers}
  /\ UNCHANGED <<enabled, holds, physical, repeats, system, kvk, pPrefixKey,
                 posted, changes, press>>

Next ==
  \/ \E k \in Keys : Down(k) \/ Up(k) \/ UnseenKey(k)
  \/ ChangeHookState \/ CriterionChanges \/ HookIsAbsent \/ HookIsBack

Spec == Init /\ [][Next]_vars

----------------------------------------------------------------------------
(* Properties *)

\* The press is no ordinary one: see Unpressed.
Disturbed(k) == press[k].changed \/ press[k].second

\* A key that is a prefix, and no modifier or toggle key, has no key-down hotkey of its
\* own that is subject to the criterion.  Otherwise, if the criterion turns off that
\* hotkey and the key's combinations, and it has a key-up hotkey with other modifiers,
\* its press is passed on while its release is suppressed (hook.cpp:1373).
PlainPrefixes ==
  \A h, i \in Hotkeys :
    /\ h.criterion /\ ~h.up /\ h.prefix = None
    /\ i.prefix = h.key
    => h.key \in Modifiers \cup Toggles

\* Nothing keeps a key-up hotkey that is queued from firing: neither it nor a
\* combination with the same suffix is subject to the criterion, and the key is no
\* toggle key that is also a prefix, whose release is taken up with its state
\* (hook.cpp:980).
CertainCounterparts ==
  /\ \A h, i \in Hotkeys :
       h.up /\ i.key = h.key /\ i.criterion => ~i.up /\ i.prefix = None
  /\ \A h, i \in Hotkeys : h.up /\ i.prefix = h.key => h.key \notin Toggles

\* A prefix that has hotkeys of its own is suppressed: its combinations have no tilde
\* and are not subject to the criterion, and it is no modifier.  Otherwise its press may
\* be marked as AS_PASSTHROUGH_PREFIX, a mark that lasts (hook.cpp:805, 999).
SuppressedPrefixes ==
  /\ \A S \in Selections : \A h, i \in S :
       h.prefix = None /\ i.prefix = h.key => ~i.prefixTilde /\ ~i.criterion
  /\ \A h, i \in Hotkeys : h.prefix = None /\ i.prefix = h.key => h.key \notin Modifiers

\* No key is stuck down: if the system was shown a key going down it is shown the
\* release, unless what the hook goes by changed in between.  The decision is made
\* anew upon release, by other branches, from the flags that the press has left.
UpMatchesDown == \A k \in system \ physical : Disturbed(k)

\* When a key has been released, the hook is done with it: it is no longer
\* pPrefixKey, and nothing of it is left that would misguide the next press.
NothingLeftBehind == \A k \in Keys \ physical : Clean(k) \/ Disturbed(k)

\* One press fires at most one key-down hotkey of the key: what fired when the key
\* went down does not fire again when it comes up (hook.cpp:1334, "firing TWICE").
FiredOnce == \A k \in Keys : press[k].fired <= 1

\* A key that modified another one, as a prefix or natively, does not fire its own
\* key-down hotkey when it is released (hook.cpp:999).
UsedPrefixSilent ==
  [][\A k \in physical \ physical' :
       press[k].others /\ ~press[k].changed => \A h \in posted' : ~Fires(k, h)]_vars

\* If a key fires a hotkey that has a key-up counterpart, its release fires a key-up
\* hotkey: the two halves of a remapped key belong together, whatever other keys
\* are pressed and released in between (hook.cpp:1298, 1346).
CounterpartFires ==
  [][\A k \in physical \ physical' :
       press[k].owes /\ ~press[k].changed => \E h \in posted' : h.key = k /\ h.up]_vars
============================================================================
