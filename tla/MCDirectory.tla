----------------------------- MODULE MCDirectory -----------------------------
(* Instances of Directory for TLC. *)
EXTENDS Directory, TLC

CONSTANTS c1, c2, p1, p2, a1, a2

Callers == {c1, c2}
People == {p1, p2}
Accounts == {a1, a2}

Symmetries == Permutations(Callers) \cup Permutations(People) \cup Permutations(Accounts)
=============================================================================
