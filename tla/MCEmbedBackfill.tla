--------------------------- MODULE MCEmbedBackfill ---------------------------
(* Instances of EmbedBackfill for TLC. *)
EXTENDS EmbedBackfill

CONSTANT w1

Writers1 == {w1}
Refused3 == {3}
=============================================================================
