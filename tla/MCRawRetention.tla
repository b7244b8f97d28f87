---------------------------- MODULE MCRawRetention ----------------------------
(* Instances of RawRetention for TLC. *)
EXTENDS RawRetention, TLC

CONSTANTS a1, a2, e1

Agents2 == {a1, a2}
Events1 == {e1}

SymmetryAgents == Permutations(Agents2)
=============================================================================
