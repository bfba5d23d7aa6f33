-------------------------- MODULE MCPseudoThreads --------------------------
(* Small instances of PseudoThreads for TLC. *)
EXTENDS PseudoThreads

\* Two priorities, and the idle thread's below both.
MCPriorities == {0, 1}
MCPriorityMinimum == -1

============================================================================
