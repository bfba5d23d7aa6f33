--------------------------- MODULE KeyboardState ---------------------------
(* What the user, the keyboard hook (hook.cpp) and SendKeys (keyboard_mouse.cpp) share:
   the keys themselves.  KeyHook says what the hook makes of them, SendModifiers what
   SendKeys does to those that are modifiers. *)

CONSTANT
  Modifiers  \* keys with as_modifiersLR

VARIABLES
  physical,  \* keys the user holds down
  system,    \* keys that are down for the system: what GetAsyncKeyState says
  absent     \* the hook does not see the keys: it is temporarily removed (SendInput),
             \* or they go to a window of higher integrity
============================================================================
