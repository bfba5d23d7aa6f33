-------------------------- MODULE MCSendModifiers --------------------------
(* Small instances of SendModifiers for TLC. *)
EXTENDS SendModifiers

CONSTANTS win, rctrl
============================================================================
