--------------------------- MODULE MCHookThread ---------------------------
(* Small instances of HookThread for TLC. *)
EXTENDS HookThread

\* What follows a call that ran out of time is not explored.
InTime == ~late
============================================================================
