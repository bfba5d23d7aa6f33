-------------------------- MODULE SendModifiers --------------------------
(* What SendKeys (keyboard_mouse.cpp) does with the modifier keys: it puts them into
   the state that each key needs, whatever the user holds, and at the end restores
   those the user still holds and those the script has asked to stay down.  The user
   presses and releases modifiers meanwhile; the keyboard hook tells the two apart,
   but is absent while the system plays an array of events (SendInput).

   The hook is installed otherwise.  AltGr, the keystrokes that disguise Win and Alt,
   SendPlay, ControlSend and Sleep items are left out. *)
EXTENDS Naturals, KeyboardState

CONSTANTS
  Keyboard,  \* those that the user's keyboard has
  WinAlt,    \* those that SendKey releases at once after a key
  Suffixes   \* those that are hotkeys by themselves: the hook may suppress them

ASSUME ModifiersAssumption ==
  Keyboard \subseteq Modifiers /\ WinAlt \subseteq Modifiers /\ Suffixes \subseteq Keyboard

VARIABLES
  hidden,     \* modifiers whose press the hook has suppressed, as it will the release
  g_modifiersLR_physical,
  g_modifiersLR_logical,
  sModifiersLR_persistent,
  sModifiersLR_remapped,
  send,       \* the Send that is under way
  asked,      \* history: put down by {m Down}, {m DownTemp} or {m DownR}, and still so;
              \* or to be put down again by the next Send, because of {m DownR}
  lasting,    \* history: put down by {m Down} or {m DownR}, since then neither sent up
              \* nor released by the user
  letGo,      \* history: sent up in blind mode while the user may hold them
  raced       \* history: changed by the user when SendKeys no longer looked

user == <<physical, system, hidden, g_modifiersLR_physical, g_modifiersLR_logical>>
script == <<sModifiersLR_persistent, sModifiersLR_remapped>>
history == <<asked, lasting, letGo, raced>>
sendVars == <<user, script, history, absent, send>>

\* The locals of SendKeys: mods_down_physically_orig, ..._but_not_logically_orig,
\* persistent_modifiers_for_this_SendKeys, mods_released_for_selective_blind.
\* sEventModifiersLR and the modifiers that have an event in the array; what
\* SetModifierLRState still has to press and to release, and what it is to reach.
\* meddled (history): changed by the user while an array is being built.
NoSend ==
  [pc |-> "idle", mode |-> "event", blind |-> FALSE, orig |-> {}, notLogical |-> {},
   keep |-> {}, released |-> {}, event |-> {}, touched |-> {}, count |-> 0,
   press |-> {}, release |-> {}, new |-> {}, meddled |-> {}]

SendInit ==
  /\ physical = {} /\ system = {} /\ hidden = {} /\ absent = FALSE
  /\ g_modifiersLR_physical = {} /\ g_modifiersLR_logical = {}
  /\ sModifiersLR_persistent = {} /\ sModifiersLR_remapped = {}
  /\ send = NoSend
  /\ asked = {} /\ lasting = {} /\ letGo = {} /\ raced = {}

Differ(S, T) == (S \ T) \cup (T \ S)

----------------------------------------------------------------------------
(* The user, and what the hook makes of it (UpdateKeybdState) *)

\* The user's change escapes SendKeys: it has decided what to do with m, or what the
\* hook is to believe of it; or the hook, absent, misses a change that the system has
\* nothing to show for (a press of what is down, a release of what is up); or the hook
\* hides a press from the system during a SendEvent, which takes it for one that the
\* system has seen.
TooLate(m, up) ==
  \/ send.pc = "restore" /\ m \in send.press \cup send.release
  \/ send.pc = "corrected"
  \/ absent /\ (m \in hidden \/ up = (m \notin system))
  \/ ~absent /\ ~up /\ m \in Suffixes /\ send.mode = "event" /\ send.pc # "idle"

Agree(m) ==
  /\ (m \in physical \ hidden) = (m \in system)
  /\ (m \in physical) = (m \in g_modifiersLR_physical)
  /\ (m \in system) = (m \in g_modifiersLR_logical)
Noticed(m, up) ==
  /\ raced' = IF TooLate(m, up) THEN raced \cup {m}
              ELSE IF send.pc = "idle" /\ Agree(m)' THEN raced \ {m} ELSE raced
  /\ send' = IF send.mode = "event" THEN send ELSE [send EXCEPT !.meddled = @ \cup {m}]

Press(m, suppressed) ==
  /\ m \notin physical
  /\ suppressed => ~absent /\ m \in Suffixes
  /\ physical' = physical \cup {m}
  /\ hidden' = IF suppressed THEN hidden \cup {m} ELSE hidden
  /\ system' = IF suppressed THEN system ELSE system \cup {m}
  /\ g_modifiersLR_physical' =
       IF absent THEN g_modifiersLR_physical ELSE g_modifiersLR_physical \cup {m}
  /\ g_modifiersLR_logical' =
       IF absent \/ suppressed THEN g_modifiersLR_logical ELSE g_modifiersLR_logical \cup {m}
  /\ Noticed(m, FALSE)
  /\ UNCHANGED <<absent, script, asked, lasting, letGo>>

Release(m) ==
  LET suppressed == ~absent /\ m \in hidden
  IN  /\ m \in physical
      /\ physical' = physical \ {m}
      /\ hidden' = IF absent THEN hidden ELSE hidden \ {m}
      /\ system' = IF suppressed THEN system ELSE system \ {m}
      /\ g_modifiersLR_physical' =
           IF absent THEN g_modifiersLR_physical ELSE g_modifiersLR_physical \ {m}
      /\ g_modifiersLR_logical' = IF absent \/ suppressed THEN g_modifiersLR_logical
                                  ELSE g_modifiersLR_logical \ {m}
      /\ Noticed(m, TRUE)
      /\ lasting' = lasting \ {m}
      /\ asked' = IF suppressed \/ send.pc \notin {"idle", "played", "corrected"}
                  THEN asked ELSE asked \ ({m} \ sModifiersLR_remapped)
      /\ letGo' = IF send.pc = "idle" THEN letGo \ {m} ELSE letGo
      /\ UNCHANGED <<absent, script>>

----------------------------------------------------------------------------
(* The start of SendKeys *)

\* GetModifierLRState(true): the modifiers that are down, and the correction of the
\* hook's, which may have missed a release.
BeginSend(mode, blind, excluded) ==
  LET wronglyDown == g_modifiersLR_logical \ system
      hookPhysical == g_modifiersLR_physical \ wronglyDown
      hookLogical == g_modifiersLR_logical \ wronglyDown
      persistent == (sModifiersLR_persistent \cap system) \ (hookPhysical \cap hookLogical)
  IN  /\ send.pc = "idle"
      /\ g_modifiersLR_physical' = hookPhysical
      /\ g_modifiersLR_logical' = hookLogical
      /\ sModifiersLR_remapped' = sModifiersLR_remapped \cap system
      /\ sModifiersLR_persistent' = persistent
      /\ send' = [NoSend EXCEPT
           !.pc = "items", !.mode = mode, !.blind = blind,
           !.orig = hookPhysical, !.notLogical = hookPhysical \ hookLogical,
           !.keep = IF blind THEN system \ excluded ELSE persistent,
           !.released = IF blind THEN system \cap excluded ELSE {},
           !.event = IF mode = "input" THEN system ELSE {}]
      /\ asked' = asked \cap system
      /\ UNCHANGED <<physical, system, hidden, absent, lasting, letGo, raced>>

----------------------------------------------------------------------------
(* SetModifierLRState.  Its keystrokes go out one by one; the order, which is chosen
   so as not to activate menus, is left open.  When an array is built, they are
   appended to it. *)

Sets(new, now, pc) ==
  [send EXCEPT !.pc = pc, !.new = new, !.press = new \ now, !.release = now \ new]

\* The array after m has been made to be down or up, or several of them.
Appended(new) ==
  [send EXCEPT !.event = new, !.touched = @ \cup Differ(new, send.event), !.count = 1]

SendsPress(m) ==
  /\ m \in send.press
  /\ send' = [send EXCEPT !.press = @ \ {m}]
  /\ system' = system \cup {m}
  /\ g_modifiersLR_logical' = g_modifiersLR_logical \cup {m}
  /\ UNCHANGED <<physical, hidden, g_modifiersLR_physical, absent, script, history>>

SendsRelease(m) ==
  /\ m \in send.release
  /\ send' = [send EXCEPT !.release = @ \ {m}]
  /\ system' = system \ {m}
  /\ g_modifiersLR_logical' = g_modifiersLR_logical \ {m}
  /\ UNCHANGED <<physical, hidden, g_modifiersLR_physical, absent, script, history>>

AllSet == send.press = {} /\ send.release = {}

----------------------------------------------------------------------------
(* SendKey *)

\* A key, with the modifiers written before it (those that are kept are not added).
Key(mods) ==
  LET specified == mods \cup send.keep
  IN  /\ send.pc = "items"
      /\ send' = IF send.mode = "event" THEN Sets(specified, g_modifiersLR_logical, "adjust")
                 ELSE [Appended(specified) EXCEPT
                         !.event = specified \ (mods \cap WinAlt),
                         !.touched = @ \cup (mods \cap WinAlt)]
      /\ UNCHANGED <<user, script, history, absent>>

Adjusted ==
  /\ send.pc = "adjust" /\ AllSet
  /\ send' = [send EXCEPT !.pc = "key"]
  /\ UNCHANGED <<user, script, history, absent>>

\* The key goes out, and again if it has a repeat count.
KeyAgain ==
  /\ send.pc = "key"
  /\ send' = Sets(send.new, g_modifiersLR_logical, "adjust")
  /\ UNCHANGED <<user, script, history, absent>>

\* Win and Alt are released, Ctrl and Shift left for the next key to decide.
KeyDone ==
  /\ send.pc = "key"
  /\ send' = Sets({}, (g_modifiersLR_logical \ send.keep) \cap WinAlt, "release")
  /\ UNCHANGED <<user, script, history, absent>>

Eased ==
  /\ send.pc = "release" /\ AllSet
  /\ send' = [send EXCEPT !.pc = "items", !.new = {}]
  /\ UNCHANGED <<user, script, history, absent>>

\* A modifier by itself: nothing else is adjusted.
Sent(m, down, keep) ==
  LET After(S) == IF down THEN S \cup {m} ELSE S \ {m}
      kept == [send EXCEPT !.keep = keep]
  IN  IF send.mode = "event"
      THEN /\ send' = kept
           /\ system' = After(system)
           /\ g_modifiersLR_logical' = After(g_modifiersLR_logical)
      ELSE /\ send' = [kept EXCEPT !.event = After(@), !.touched = @ \cup {m}, !.count = 1]
           /\ UNCHANGED <<system, g_modifiersLR_logical>>

\* {m Down} is to last, but in a blind SendEvent the user's release of a modifier that
\* was held at its start undoes it, if it comes before it or after it.
Lasts(m, type) ==
  \/ type = "remap"
  \/ type = "persistent" /\ ~(send.blind /\ send.mode = "event" /\ m \in send.orig)

\* {m Down}, {m DownTemp}, {m DownR}.
ModifierDown(m, type) ==
  /\ send.pc = "items"
  /\ sModifiersLR_persistent' =
       IF type = "persistent" THEN sModifiersLR_persistent \cup {m} ELSE sModifiersLR_persistent
  /\ sModifiersLR_remapped' =
       IF type = "remap" THEN sModifiersLR_remapped \cup {m} ELSE sModifiersLR_remapped
  /\ Sent(m, TRUE, send.keep \cup {m})
  /\ asked' = asked \cup {m}
  /\ lasting' = IF Lasts(m, type) THEN lasting \cup {m} ELSE lasting
  /\ UNCHANGED <<physical, hidden, g_modifiersLR_physical, absent, letGo, raced>>

\* {m Up}.  A modifier that {Blind} was told to release comes back all the same, and so
\* does one that the hook hides, since its user seems to hold it.
ModifierUp(m) ==
  /\ send.pc = "items"
  /\ sModifiersLR_persistent' = sModifiersLR_persistent \ {m}
  /\ sModifiersLR_remapped' = sModifiersLR_remapped \ {m}
  /\ Sent(m, FALSE, send.keep \ {m})
  /\ asked' = asked \ ({m} \ (send.released \cup hidden))
  /\ lasting' = lasting \ {m}
  /\ letGo' = IF send.blind THEN letGo \cup {m} ELSE letGo
  /\ UNCHANGED <<physical, hidden, g_modifiersLR_physical, absent, raced>>

\* {m}: pressed and released.
ModifierTap(m) ==
  /\ send.pc = "items"
  /\ Sent(m, FALSE, send.keep)
  /\ UNCHANGED <<physical, hidden, g_modifiersLR_physical, absent, script, history>>

----------------------------------------------------------------------------
(* The end of SendKeys *)

\* (Mutant) What was held down at the start is put down again.
RestoresTheStart ==
  IF send.blind THEN send.keep \cup send.released
  ELSE send.keep \cup sModifiersLR_remapped \cup (send.orig \ send.notLogical)

\* What is to be down after SendEvent, given what is held down now.
ToRestore ==
  LET down == g_modifiersLR_physical \cup sModifiersLR_remapped
      changed == Differ(send.orig, down)
  IN  IF send.blind
      THEN ((send.keep \cup send.released) \ (changed \cap send.orig)) \cup (changed \cap down)
      ELSE send.keep \cup (down \ send.notLogical)

EndSendEvent ==
  /\ send.pc = "items" /\ send.mode = "event"
  /\ send' = Sets(ToRestore, g_modifiersLR_logical, "restore")
  /\ UNCHANGED <<user, script, history, absent>>

SendReturns ==
  /\ send' = NoSend
  /\ asked' = asked \cap (system \cup sModifiersLR_remapped)
  /\ UNCHANGED <<user, script, lasting, letGo, raced>>

Restored ==
  /\ send.pc = "restore" /\ AllSet
  /\ SendReturns
  /\ UNCHANGED absent

\* (Mutant) {m DownR} holds for the Send it is in only.
ForgetsRemapped ==
  send.keep \cup (IF send.blind THEN send.released ELSE send.orig \ send.notLogical)

\* What is to be down after SendInput, given what was held down at its start.
ToRestoreInArray ==
  send.keep \cup sModifiersLR_remapped
    \cup (IF send.blind THEN send.released ELSE send.orig \ send.notLogical)

EndSendInput ==
  /\ send.pc = "items" /\ send.mode = "input" /\ send.count > 0
  /\ send' = [Appended(ToRestoreInArray) EXCEPT !.pc = "array"]
  /\ UNCHANGED <<user, script, history, absent>>

NothingToSend ==
  /\ send.pc = "items" /\ send.mode = "input" /\ send.count = 0
  /\ SendReturns
  /\ UNCHANGED absent

\* SendEventArray: the hook is removed, the array is played without interruption, the
\* hook's state is corrected, and the hook is installed again.
HookRemoved ==
  /\ send.pc = "array" /\ ~absent
  /\ absent' = TRUE
  /\ UNCHANGED <<user, script, history, send>>

Played ==
  /\ send.pc = "array" /\ absent
  /\ system' = (system \ send.touched) \cup (send.event \cap send.touched)
  /\ send' = [send EXCEPT !.pc = "played"]
  /\ raced' = raced \cup send.meddled
  /\ UNCHANGED <<physical, hidden, g_modifiersLR_physical, g_modifiersLR_logical, absent,
                 script, asked, lasting, letGo>>

HookCorrected ==
  /\ send.pc = "played"
  /\ g_modifiersLR_physical' =
       (g_modifiersLR_physical \ (send.event \ system)) \cup (system \ send.event)
  /\ g_modifiersLR_logical' = system
  /\ send' = [send EXCEPT !.pc = "corrected"]
  /\ UNCHANGED <<physical, system, hidden, script, history, absent>>

HookRestored ==
  /\ send.pc = "corrected"
  /\ absent' = FALSE
  /\ SendReturns

----------------------------------------------------------------------------
SendNext ==
  \/ \E m \in Keyboard : Release(m) \/ \E suppressed \in BOOLEAN : Press(m, suppressed)
  \/ \E m \in Modifiers : \/ SendsPress(m) \/ SendsRelease(m)
                          \/ ModifierUp(m) \/ ModifierTap(m)
                          \/ \E type \in {"persistent", "temp", "remap"} : ModifierDown(m, type)
  \/ \E mode \in {"event", "input"} :
       \/ BeginSend(mode, FALSE, {})
       \/ \E excluded \in SUBSET Modifiers : BeginSend(mode, TRUE, excluded)
  \/ \E mods \in SUBSET (Modifiers \ send.keep) : Key(mods)
  \/ Adjusted \/ KeyAgain \/ KeyDone \/ Eased \/ EndSendEvent \/ Restored
  \/ EndSendInput \/ NothingToSend \/ HookRemoved \/ Played \/ HookCorrected \/ HookRestored

SendSpec == SendInit /\ [][SendNext]_sendVars

----------------------------------------------------------------------------
(* Properties *)

\* After a Send, and from then on, what is down for the system is what the user holds,
\* with two exceptions: what the script has asked to be down, and what the hook hides
\* or the script has let go in blind mode ("the key would basically get stuck down even
\* after the send was over").  Not so for a modifier that the user changes in one of
\* the moments that TooLate names, or while an array is being built.
AsTheUserHolds ==
  send.pc = "idle" => /\ system \ physical \subseteq asked \cup raced
                      /\ physical \ system \subseteq hidden \cup letGo \cup raced

\* What the script has put down stays down after each Send, until it is sent up or the
\* user releases it, however many Sends have needed it up meanwhile and whatever the
\* user has pressed.
AskedKept == send.pc = "idle" => lasting \subseteq system
============================================================================
