--------------------------- MODULE MCInputHooks ---------------------------
(* Small instances of InputHooks for TLC. *)
EXTENDS InputHooks

CONSTANTS i1, i2

\* What follows an end by both threads at once is not explored.
EndedOnce == ~twice
============================================================================
