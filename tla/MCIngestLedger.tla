---------------------------- MODULE MCIngestLedger ----------------------------
(* Instances of IngestLedger for TLC. *)
EXTENDS IngestLedger, TLC

CONSTANTS c1, c2

Crawlers == {c1, c2}

\* A unit may change and change back, with or without a native hash that tells.
Versions == {[content |-> "a", native |-> "n1"], [content |-> "b", native |-> "n2"],
             [content |-> "a", native |-> "n3"]}

SymmetryCrawlers == Permutations(Crawlers)
=============================================================================
