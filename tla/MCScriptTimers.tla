--------------------------- MODULE MCScriptTimers ---------------------------
(* Small instances of ScriptTimers for TLC. *)
EXTENDS ScriptTimers, TLC

\* Addresses and callbacks are only compared.
Symmetry == Permutations(Timers) \cup Permutations(Callbacks)

============================================================================
