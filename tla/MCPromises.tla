---------------------------- MODULE MCPromises ----------------------------
(* Small instances of Promises for TLC. *)
EXTENDS Promises

CONSTANTS main, worker, p1, p2

\* main calls worker, and meanwhile calls itself, or is called by worker.
Call(other) == [p \in Promises |-> IF p = p1 THEN <<main, worker>> ELSE other]
MCParties == {Call(<<main, main>>), Call(<<worker, main>>)}
============================================================================
