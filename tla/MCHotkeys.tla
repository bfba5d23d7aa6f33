----------------------------- MODULE MCHotkeys -----------------------------
(* Small instances of Hotkeys for TLC. *)
EXTENDS Hotkeys

CONSTANTS k1, k2, v1, v2, v3

\* A hook hotkey with two variants, and a registered one with one.
MCVariantsOf == [hk \in {k1, k2} |-> IF hk = k1 THEN <<v1, v2>> ELSE <<v3>>]

\* The variants that have no criterion are global; the list is in the order in
\* which the script creates them, so the global one may come first or last.
MCCriterion(v, c) == [u \in {v1, v2, v3} |-> IF u = v THEN c ELSE "none"]
MCCriteria == {MCCriterion(v1, "window"), MCCriterion(v1, "hotif"),
               MCCriterion(v2, "hotif")}

============================================================================
