---------------------------- MODULE MCPolicyNotes ----------------------------
(* Instances of PolicyNotes for TLC. *)
EXTENDS PolicyNotes, TLC

CONSTANTS c1, c2, t1, t2

Callers == {c1, c2}
Texts == {t1, t2}

\* The text of an idle caller is a CHOOSE, so only the callers are interchangeable.
SymmetryCallers == Permutations(Callers)
=============================================================================
