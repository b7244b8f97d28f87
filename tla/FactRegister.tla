---------------------------- MODULE FactRegister ----------------------------
(***************************************************************************)
(* What the fact memory promises its agents: every key is a register with  *)
(* an append-only history, and an agent can append to it only after it has *)
(* been shown the value it is about to supersede.  One call may append to  *)
(* several keys at once; either all of those entries appear or none does.  *)
(*                                                                         *)
(* A value is the set of clients whose truth has been merged into it.      *)
(* Shown(v) is the part of a value a reader is given.                      *)
(***************************************************************************)
EXTENDS Naturals, Sequences

CONSTANTS Client, Key, Shown(_)

VARIABLES history,   \* history[k]: the entries ever made under k, oldest first
          known      \* known[c][k]: the number of the entry client c was last shown

Latest(k) == IF history[k] = <<>> THEN {} ELSE history[k][Len(history[k])].value

\* The entry client c makes under k: what it had been shown, plus its own truth.
Entry(c, k) == [by    |-> c,
                read  |-> Shown(Latest(k)),
                value |-> Shown(Latest(k)) \cup {c}]

Init ==
  /\ history = [k \in Key |-> <<>>]
  /\ known = [c \in Client |-> [k \in Key |-> 0]]

Numbers == UNION {0..Len(history[k]) : k \in Key}

\* The answer to a call shows the client later entries than the ones it knew.
Learns(c) ==
  \E seen \in [Key -> Numbers'] :
    /\ \A k \in Key : known[c][k] <= seen[k] /\ seen[k] <= Len(history'[k])
    /\ known' = [known EXCEPT ![c] = seen]

Learn(c) == UNCHANGED history /\ Learns(c)

\* A compare-and-set on every key of K at once.
Contribute(c, K) ==
  /\ \A k \in K : known[c][k] = Len(history[k])
  /\ history' = [k \in Key |-> IF k \in K THEN Append(history[k], Entry(c, k))
                                          ELSE history[k]]
  /\ Learns(c)

Next == \E c \in Client : Learn(c) \/ \E K \in SUBSET Key : Contribute(c, K)

Spec == Init /\ [][Next]_<<history, known>>
=============================================================================
