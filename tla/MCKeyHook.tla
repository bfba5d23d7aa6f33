----------------------------- MODULE MCKeyHook -----------------------------
(* Small instances of KeyHook for TLC. *)
EXTENDS KeyHook

CONSTANTS b, ctrl, caps

Hotkey(prefix, mods, key) ==
  [key |-> key, prefix |-> prefix, mods |-> mods, up |-> FALSE,
   tilde |-> FALSE, prefixTilde |-> FALSE, criterion |-> FALSE]
UpHotkey(prefix, mods, key) == [Hotkey(prefix, mods, key) EXCEPT !.up = TRUE]
HotIf(h) == [h EXCEPT !.criterion = TRUE]
PrefixTilde(h) == [h EXCEPT !.prefixTilde = TRUE]

\* CapsLock & b, CapsLock, ^CapsLock, ^b, b (#HotIf) and b up; ~CapsLock & b up,
\* b (#HotIf), b up and LCtrl.
OnPress ==
  {Hotkey(caps, {}, b), Hotkey(None, {}, caps), Hotkey(None, {ctrl}, caps),
   Hotkey(None, {ctrl}, b), HotIf(Hotkey(None, {}, b)), UpHotkey(None, {}, b)}
OnRelease ==
  {PrefixTilde(UpHotkey(caps, {}, b)), HotIf(Hotkey(None, {}, b)), UpHotkey(None, {}, b),
   Hotkey(None, {}, ctrl)}
MCHotkeys == OnPress \cup OnRelease
MCSelections == {OnPress, OnRelease}

ASSUME HotkeysArePlain == PlainPrefixes
ASSUME CounterpartsAreCertain == CertainCounterparts
ASSUME PrefixesAreSuppressed == SuppressedPrefixes
============================================================================
