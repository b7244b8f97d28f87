----------------------------- MODULE MCFactStore -----------------------------
(* Instances of FactStore for TLC. *)
EXTENDS FactStore, TLC

CONSTANTS c1, c2, k1, k2, e1, e2

Clients2 == {c1, c2}
Keys1 == {k1}
Keys2 == {k1, k2}
NoEvents == {}
Events2 == {e1, e2}

\* No source cites a raw event; or two do, in either order.
Uncited == {<<>>}
CitedBothWays == {<<>>, <<e1, e2>>, <<e2, e1>>}

\* Contents that fit in sanitize_max_len.
ShownWhole(v) == v

\* Contents of which sanitize_max_len shows the truth of one client.
ShownCut(v) == IF v = {} THEN {} ELSE {CHOOSE c \in v : TRUE}

Symmetry2 == Permutations(Clients2) \cup Permutations(Keys2)

\* Batches that take the same two rows in opposite orders, writes of one fact, and nothing
\* else: what EveryCallEnds is about, on a state space small enough for a temporal property.
OpposedCalls ==
  {<<[key |-> p[1], create |-> new], [key |-> p[2], create |-> new]>> :
     p \in {<<k1, k2>>, <<k2, k1>>}, new \in BOOLEAN}
  \cup {<<[key |-> k, create |-> TRUE]>> : k \in Key}

OpposedNext ==
  \E c \in Client :
    \/ \E sent \in OpposedCalls : Call(c, sent)
    \/ Work(c) \/ Refuse(c) \/ Fail(c) \/ DeadlockVictim(c)

OpposedSpec == Init /\ [][OpposedNext]_vars /\ Fairness
=============================================================================
