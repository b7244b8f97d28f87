--------------------------- MODULE FactStoreProofs ---------------------------
(***************************************************************************)
(* Proofs about FactStore, for every set of clients and keys, every batch  *)
(* size, all citations and every way of cutting what a reader is shown.    *)
(***************************************************************************)
EXTENDS FactStore, SequenceTheorems, TLAPS

ClientInv(c) == SavepointInv(c) /\ ItemInv(c) /\ AnswerInv(c)

\* What fact_to_dict gives is a row, and nothing is shown of nothing.
LEMMA ShownLemma ==
  /\ \A v \in SUBSET Client : Shown(v) \in SUBSET Client
  /\ \A row \in Row : AsShown(row) \in Row
  /\ AsShown(NoRow) = NoRow
  /\ NoRow \in Row
<1>1. \A v \in SUBSET Client : Shown(v) \in SUBSET Client
  BY ShownAssumption
<1>2. \A row \in Row : AsShown(row) \in Row
  BY <1>1 DEF Row, AsShown
<1>3. Shown({}) = {}
  BY ShownAssumption
<1>4. QED
  BY <1>1, <1>2, <1>3 DEF AsShown, NoRow, Row

\* The item a call is at names a key.
LEMMA AtLemma ==
  ASSUME IInv, NEW c \in Client, pc[c] \in {"lock", "flush", "revise", "touch"}
  PROVE  /\ At(c) \in Key /\ At(c) \in Lockable
         /\ items[c] # <<>>
         /\ Tail(items[c]) \in Seq(Item)
         /\ Len(items[c]) # 1 => Tail(items[c]) # <<>>
<1>1. items[c] \in Seq(Item) /\ items[c] # <<>>
  BY DEF IInv, TypeOK, ItemInv
<1>2. items[c][1] \in Item
  BY <1>1
<1>3. /\ Tail(items[c]) \in Seq(Item)
      /\ Len(Tail(items[c])) = Len(items[c]) - 1
  BY <1>1, HeadTailProperties
<1>4. Len(items[c]) # 1 => Len(Tail(items[c])) # 0
  BY <1>1, <1>3
<1>5. At(c) \in Key /\ At(c) \in Lockable
  BY <1>2 DEF At, Item, Lockable
<1>6. Len(items[c]) # 1 => Tail(items[c]) # <<>>
  BY <1>4
<1>7. QED
  BY <1>1, <1>3, <1>5, <1>6

\* A client whose view carries the newest revision number has been shown the fact row.
LEMMA CurrentLemma ==
  ASSUME IInv, NEW c \in Client, NEW k \in Key, view[c][k].revision = fact[k].revision
  PROVE  view[c][k] = AsShown(fact[k])
<1>1. view[c][k] \in Row /\ fact[k] \in Row /\ revisions[k] \in Seq(Revision)
  BY DEF IInv, TypeOK
<1>2. CASE view[c][k] = NoRow
  <2>1. fact[k] = NoRow
    BY <1>2, <1>1 DEF IInv, FactInv, NoRow
  <2>2. QED
    BY <2>1, <1>2, ShownLemma
<1>3. CASE view[c][k] # NoRow
  <2>1. Committed(view[c][k], k)
    BY <1>3 DEF IInv, AnswerInv
  <2>2. fact[k].revision # 0 /\ fact[k] # NoRow
    BY <2>1, <1>1 DEF Committed, NoRow
  <2>3. fact[k].value = revisions[k][fact[k].revision].value
    BY <2>2 DEF IInv, FactInv, HistoryExplainsFact
  <2>4. view[c][k].value = Shown(fact[k].value)
    BY <2>1, <2>3 DEF Committed
  <2>5. QED
    BY <2>4, <1>1 DEF Row, AsShown
<1>4. QED
  BY <1>2, <1>3

\* The transactions of other clients do not disturb c's part of the invariant: they leave
\* c's locks alone, change no fact that c has locked, and only append revisions.
LEMMA FrameLemma ==
  ASSUME IInv, TypeOK', NEW c \in Client,
         items'[c] = items[c], pc'[c] = pc[c], rows'[c] = rows[c], revs'[c] = revs[c],
         save'[c] = save[c], learned'[c] = learned[c], view'[c] = view[c], cites'[c] = cites[c],
         \A r \in Lockable : lock[r] = c => lock'[r] = c,
         \A k \in Key : lock[k] = c => fact'[k] = fact[k],
         \A k \in Key : /\ Len(revisions[k]) <= Len(revisions'[k])
                        /\ \A n \in 1..Len(revisions[k]) : revisions'[k][n] = revisions[k][n]
  PROVE  ClientInv(c)'
<1>0. ASSUME NEW k \in Key, lock[k] = c
      PROVE  /\ lock'[k] = c
             /\ AsShown(fact[k])' = AsShown(fact[k])
             /\ Successor(c, k)' = Successor(c, k)
             /\ NewRevision(c, k)' = NewRevision(c, k)
  BY <1>0 DEF Successor, NewRevision, AsShown, Lockable
<1>1. SavepointInv(c)'
  <2>1. SavepointInv(c)
    BY DEF IInv
  <2>2. ASSUME NEW k \in save[c].held
        PROVE  lock'[k] = c
    <3>1. save[c].held \subseteq Lockable
      BY DEF IInv, TypeOK, Savepoint
    <3>2. QED
      BY <3>1, <2>1 DEF SavepointInv
  <2>3. ASSUME NEW k \in Key
        PROVE  IF save[c].rows[k] = NoRow
               THEN save[c].revs[k] = <<>>
               ELSE /\ k \in save[c].held
                    /\ view[c][k] = AsShown(fact[k])'
                    /\ save[c].rows[k] = Successor(c, k)'
                    /\ save[c].revs[k] = <<NewRevision(c, k)'>>
    BY <2>1, <1>0 DEF SavepointInv
  <2>4. QED
    BY <2>2, <2>3 DEF SavepointInv, AsShown
<1>2. ItemInv(c)'
  <2>1. pc[c] \in {"lock", "flush", "revise", "touch"} => At(c) \in Key
    BY AtLemma
  <2>2. At(c)' = At(c) /\ Base(c)' = Base(c)
    BY DEF At, Base
  <2>3. ItemInv(c)
    BY DEF IInv
  <2>4. CASE pc[c] = "flush"
    BY <2>1, <2>2, <2>3, <2>4, <1>0 DEF ItemInv, AsShown
  <2>5. CASE pc[c] \in {"revise", "touch"}
    BY <2>1, <2>2, <2>3, <2>5, <1>0 DEF ItemInv, AsShown
  <2>6. CASE pc[c] \notin {"flush", "revise", "touch"}
    BY <2>3, <2>6 DEF ItemInv
  <2>7. QED
    BY <2>4, <2>5, <2>6
<1>3. AnswerInv(c)'
  <2> DEFINE StillCommitted(row, k) ==
               /\ row.revision \in 1..Len(revisions'[k])
               /\ row.value = Shown(revisions'[k][row.revision].value)
  <2>1. ASSUME NEW k \in Key, NEW row \in Row, Committed(row, k)
        PROVE  StillCommitted(row, k)
    <3>1. Len(revisions[k]) \in Nat /\ Len(revisions'[k]) \in Nat
      BY DEF IInv, TypeOK
    <3>2. row.revision \in 1..Len(revisions[k]) /\ row.revision \in 1..Len(revisions'[k])
      BY <2>1, <3>1 DEF Committed
    <3>3. revisions'[k][row.revision] = revisions[k][row.revision]
      BY <3>2
    <3>4. QED
      BY <2>1, <3>2, <3>3 DEF Committed
  <2>2. \A k \in Key : view[c][k] \in Row /\ learned[c][k] \in Row
    BY DEF IInv, TypeOK
  <2>3. AnswerInv(c)
    BY DEF IInv
  <2> HIDE DEF StillCommitted
  <2>4. ASSUME NEW k \in Key, view[c][k] # NoRow
        PROVE  StillCommitted(view[c][k], k)
    <3>1. Committed(view[c][k], k)
      BY <2>3, <2>4 DEF AnswerInv
    <3>2. QED
      BY <3>1, <2>1, <2>2
  <2>5. ASSUME NEW k \in Key, learned[c][k] # NoRow
        PROVE  /\ view[c][k].revision <= learned[c][k].revision
               /\ \/ StillCommitted(learned[c][k], k)
                  \/ save[c].rows[k] # NoRow /\ learned[c][k] = AsShown(save[c].rows[k])
    <3>1. /\ view[c][k].revision <= learned[c][k].revision
          /\ \/ Committed(learned[c][k], k)
             \/ save[c].rows[k] # NoRow /\ learned[c][k] = AsShown(save[c].rows[k])
      BY <2>3, <2>5 DEF AnswerInv
    <3>2. QED
      BY <3>1, <2>1, <2>2
  <2>6. ASSUME NEW k \in Key
        PROVE  /\ view'[c][k] # NoRow => Committed(view[c][k], k)'
               /\ learned'[c][k] # NoRow =>
                    /\ view'[c][k].revision <= learned'[c][k].revision
                    /\ \/ Committed(learned[c][k], k)'
                       \/ save'[c].rows[k] # NoRow /\ learned'[c][k] = AsShown(save[c].rows[k])'
    <3>1. view'[c][k] # NoRow => Committed(view[c][k], k)'
      BY <2>4 DEF StillCommitted, Committed
    <3>2. AsShown(save[c].rows[k])' = AsShown(save[c].rows[k])
      BY DEF AsShown
    <3>3. learned'[c][k] # NoRow =>
            /\ view'[c][k].revision <= learned'[c][k].revision
            /\ \/ Committed(learned[c][k], k)'
               \/ save'[c].rows[k] # NoRow /\ learned'[c][k] = AsShown(save[c].rows[k])'
      BY <2>5, <3>2 DEF StillCommitted, Committed
    <3>4. QED
      BY <3>1, <3>3
  <2>7. QED
    BY <2>6 DEF AnswerInv
<1>4. QED
  BY <1>1, <1>2, <1>3 DEF ClientInv

\* Going on to the next item leaves every other call where it is.
LEMMA NextItemLemma ==
  ASSUME IInv, NEW c \in Client, pc[c] \in {"lock", "flush", "revise", "touch"}, NextItem(c)
  PROVE  /\ items' \in [Client -> Seq(Item)]
         /\ pc' \in [Client -> {"idle", "lock", "flush", "revise", "touch", "commit"}]
         /\ pc'[c] = "commit" \/ (pc'[c] = "lock" /\ items'[c] # <<>>)
         /\ cites' \in [Client -> Seq(Event)] /\ cites'[c] = <<>>
         /\ \A d \in Client \ {c} :
              items'[d] = items[d] /\ pc'[d] = pc[d] /\ cites'[d] = cites[d]
<1>1. /\ items' \in [Client -> Seq(Item)]
      /\ pc' \in [Client -> {"idle", "lock", "flush", "revise", "touch", "commit"}]
      /\ pc'[c] = "commit" \/ (pc'[c] = "lock" /\ items'[c] # <<>>)
      /\ \A d \in Client \ {c} : items'[d] = items[d] /\ pc'[d] = pc[d]
  BY AtLemma DEF NextItem, IInv, TypeOK
<1>2. /\ cites' \in [Client -> Seq(Event)] /\ cites'[c] = <<>>
      /\ \A d \in Client \ {c} : cites'[d] = cites[d]
  BY DEF NextItem, IInv, TypeOK
<1>3. QED
  BY <1>1, <1>2

\* What _lock_fact finds is a committed row or the transaction's own, and not older than
\* what the agent has been shown.
LEMMA VisibleLemma ==
  ASSUME IInv, NEW c \in Client, pc[c] = "lock", AsShown(Visible(c)) # NoRow
  PROVE  /\ view[c][At(c)].revision <= AsShown(Visible(c)).revision
         /\ \/ Committed(AsShown(Visible(c)), At(c))
            \/ /\ save[c].rows[At(c)] # NoRow
               /\ AsShown(Visible(c)) = AsShown(save[c].rows[At(c)])
<1> DEFINE k == At(c)
<1>1. k \in Key
  BY AtLemma
<1>2. rows[c] = save[c].rows
  BY DEF IInv, ItemInv
<1>3. /\ fact[k] \in Row /\ view[c][k] \in Row /\ revisions[k] \in Seq(Revision)
      /\ Len(revisions[k]) = fact[k].revision
  BY <1>1 DEF IInv, TypeOK, FactInv, HistoryExplainsFact
<1>4. view[c][k].revision <= fact[k].revision
  <2>1. view[c][k] # NoRow => Committed(view[c][k], k)
    BY <1>1 DEF IInv, AnswerInv
  <2>2. QED
    BY <2>1, <1>3 DEF Committed, NoRow, Row
<1>5. CASE rows[c][k] # NoRow
  <2>1. Visible(c) = Successor(c, k) /\ Visible(c) = save[c].rows[k]
    BY <1>1, <1>2, <1>5 DEF IInv, SavepointInv, Visible
  <2>2. AsShown(Visible(c)).revision = fact[k].revision + 1
    BY <2>1 DEF Successor, AsShown
  <2>3. fact[k].revision \in Nat /\ view[c][k].revision \in Nat
    BY <1>3 DEF Row
  <2>4. view[c][k].revision <= AsShown(Visible(c)).revision
    BY <2>2, <2>3, <1>4
  <2>5. QED
    BY <2>1, <2>4, <1>2, <1>5
<1>6. CASE rows[c][k] = NoRow
  <2>1. Visible(c) = fact[k]
    BY <1>6 DEF Visible
  <2>2. fact[k] # NoRow
    BY <2>1, ShownLemma
  <2>3. fact[k].revision \in 1..Len(revisions[k])
        /\ fact[k].value = revisions[k][fact[k].revision].value
    BY <2>2, <1>1, <1>3 DEF IInv, FactInv, HistoryExplainsFact, Row
  <2>4. QED
    BY <2>1, <2>3, <1>4 DEF Committed, AsShown
<1>7. QED
  BY <1>5, <1>6

\* An item whose base is the visible revision has nothing of its key flushed before it:
\* an earlier item of the same call would have moved the visible revision on.
LEMMA NothingFlushedLemma ==
  ASSUME IInv, NEW c \in Client, pc[c] = "lock", Base(c) = Visible(c).revision
  PROVE  /\ rows[c] = save[c].rows
         /\ save[c].rows[At(c)] = NoRow
         /\ Visible(c) = fact[At(c)]
<1>1. At(c) \in Key
  BY AtLemma
<1>2. rows[c] = save[c].rows
  BY DEF IInv, ItemInv
<1>3. ASSUME save[c].rows[At(c)] # NoRow
      PROVE  FALSE
  <2>1. Visible(c) = Successor(c, At(c)) /\ view[c][At(c)] = AsShown(fact[At(c)])
    BY <1>1, <1>2, <1>3 DEF IInv, SavepointInv, Visible
  <2>2. fact[At(c)].revision \in Nat
    BY <1>1 DEF IInv, TypeOK, Row
  <2>3. QED
    BY <2>1, <2>2 DEF Base, AsShown, Successor
<1>4. QED
  BY <1>2, <1>3 DEF Visible

-----------------------------------------------------------------------------
(* Each kind of step preserves the invariant. *)

\* The end of a transaction that wrote nothing.
LEMMA RollbackStep ==
  ASSUME IInv, NEW c \in Client, Rollback(c)
  PROVE  IInv'
<1> USE DEF Rollback, EndTransaction
<1>1. TypeOK'
  BY ShownLemma DEF IInv, TypeOK, NoRows, NoRevs, NoSave, Savepoint
<1>2. FactInv'
  BY DEF IInv, FactInv, HistoryExplainsFact, NoLostUpdate
<1>3. ASSUME NEW d \in Client \ {c}
      PROVE  ClientInv(d)'
  <2>1. /\ items'[d] = items[d] /\ pc'[d] = pc[d] /\ rows'[d] = rows[d]
        /\ revs'[d] = revs[d] /\ save'[d] = save[d] /\ learned'[d] = learned[d]
        /\ view'[d] = view[d] /\ cites'[d] = cites[d]
    BY DEF IInv, TypeOK
  <2>2. /\ \A r \in Lockable : lock[r] = d => lock'[r] = d
        /\ \A k \in Key : lock[k] = d => fact'[k] = fact[k]
    OBVIOUS
  <2>3. \A k \in Key : /\ Len(revisions[k]) <= Len(revisions'[k])
                       /\ \A n \in 1..Len(revisions[k]) : revisions'[k][n] = revisions[k][n]
    BY DEF IInv, TypeOK
  <2>4. QED
    BY <1>1, <2>1, <2>2, <2>3, FrameLemma
<1>4. ClientInv(c)'
  <2>1. /\ pc'[c] = "idle" /\ save'[c] = NoSave /\ rows'[c] = NoRows
        /\ revs'[c] = NoRevs /\ learned'[c] = NoRows /\ cites'[c] = <<>>
    BY DEF IInv, TypeOK
  <2>2. SavepointInv(c)'
    BY <2>1 DEF SavepointInv, NoSave, NoRows, NoRevs
  <2>3. ItemInv(c)'
    BY <2>1 DEF ItemInv, NoSave
  <2>4. AnswerInv(c)'
    <3>1. ASSUME NEW k \in Key
          PROVE  view[c][k] # NoRow => Committed(view[c][k], k)
      BY DEF IInv, AnswerInv
    <3>2. view' = view /\ revisions' = revisions
      OBVIOUS
    <3>3. QED
      BY <2>1, <3>1, <3>2 DEF AnswerInv, NoRows, Committed
  <2>5. QED
    BY <2>2, <2>3, <2>4 DEF ClientInv
<1>5. QED
  BY <1>1, <1>2, <1>3, <1>4 DEF IInv, ClientInv

\* An item that is refused: the transaction is back at its savepoint, and the answer may
\* have gained the row that was visible to the item.
LEMMA RollbackToSavepointStep ==
  ASSUME IInv, NEW c \in Client, pc[c] \in {"lock", "flush", "revise", "touch"},
         RollbackToSavepoint(c),
         \/ learned' = learned
         \/ /\ pc[c] = "lock"
            /\ learned' = [learned EXCEPT ![c][At(c)] = AsShown(Visible(c))]
  PROVE  IInv'
<1> USE DEF RollbackToSavepoint
<1>0. At(c) \in Key /\ At(c) \in Lockable
  BY AtLemma
<1>1. TypeOK'
  <2>1. AsShown(Visible(c)) \in Row
    BY <1>0, ShownLemma DEF IInv, TypeOK, Visible
  <2>2. items' \in [Client -> Seq(Item)]
        /\ pc' \in [Client -> {"idle", "lock", "flush", "revise", "touch", "commit"}]
        /\ cites' \in [Client -> Seq(Event)]
    BY NextItemLemma
  <2>3. learned' \in [Client -> [Key -> Row]]
    <3>1. learned \in [Client -> [Key -> Row]]
      BY DEF IInv, TypeOK
    <3>2. CASE learned' = [learned EXCEPT ![c][At(c)] = AsShown(Visible(c))]
      BY <3>1, <3>2, <2>1, <1>0
    <3>3. QED
      BY <3>1, <3>2
  <2>4. rows' \in [Client -> [Key -> Row]] /\ revs' \in [Client -> [Key -> Seq(Revision)]]
    BY DEF IInv, TypeOK, Savepoint
  <2>5. QED
    BY <2>2, <2>3, <2>4 DEF IInv, TypeOK
<1>2. FactInv'
  BY DEF IInv, FactInv, HistoryExplainsFact, NoLostUpdate
<1>3. ASSUME NEW d \in Client \ {c}
      PROVE  ClientInv(d)'
  <2>1. /\ items'[d] = items[d] /\ pc'[d] = pc[d] /\ rows'[d] = rows[d]
        /\ revs'[d] = revs[d] /\ save'[d] = save[d] /\ learned'[d] = learned[d]
        /\ view'[d] = view[d] /\ cites'[d] = cites[d]
    <3>1. items'[d] = items[d] /\ pc'[d] = pc[d] /\ cites'[d] = cites[d]
      BY NextItemLemma
    <3>2. QED
      BY <3>1 DEF IInv, TypeOK
  <2>2. /\ \A r \in Lockable : lock[r] = d => lock'[r] = d
        /\ \A k \in Key : lock[k] = d => fact'[k] = fact[k]
    OBVIOUS
  <2>3. \A k \in Key : /\ Len(revisions[k]) <= Len(revisions'[k])
                       /\ \A n \in 1..Len(revisions[k]) : revisions'[k][n] = revisions[k][n]
    BY DEF IInv, TypeOK
  <2>4. QED
    BY <1>1, <2>1, <2>2, <2>3, FrameLemma
<1>4. ClientInv(c)'
  <2>1. /\ pc'[c] = "commit" \/ (pc'[c] = "lock" /\ items'[c] # <<>>)
        /\ cites'[c] = <<>>
        /\ save'[c] = save[c] /\ rows'[c] = save[c].rows /\ revs'[c] = save[c].revs
    <3>1. /\ pc'[c] = "commit" \/ (pc'[c] = "lock" /\ items'[c] # <<>>)
          /\ cites'[c] = <<>>
      BY NextItemLemma
    <3>2. QED
      BY <3>1 DEF IInv, TypeOK
  <2>2. SavepointInv(c)'
    <3>1. save[c].held \subseteq Lockable
      BY DEF IInv, TypeOK, Savepoint
    <3>2. \A k \in save[c].held : lock'[k] = c
      BY <3>1 DEF IInv, SavepointInv
    <3>3. QED
      BY <2>1, <3>2 DEF IInv, SavepointInv, Successor, NewRevision, AsShown
  <2>3. ItemInv(c)'
    BY <2>1 DEF ItemInv
  <2>4. AnswerInv(c)'
    <3>1. ASSUME NEW k \in Key
          PROVE  view[c][k] # NoRow => Committed(view[c][k], k)
      BY DEF IInv, AnswerInv
    <3>2. ASSUME NEW k \in Key, learned'[c][k] # NoRow
          PROVE  /\ view[c][k].revision <= learned'[c][k].revision
                 /\ \/ Committed(learned'[c][k], k)
                    \/ save[c].rows[k] # NoRow /\ learned'[c][k] = AsShown(save[c].rows[k])
      <4>1. CASE learned'[c][k] = learned[c][k]
        BY <4>1, <3>2 DEF IInv, AnswerInv
      <4>2. CASE learned'[c][k] # learned[c][k]
        <5>1. /\ k = At(c) /\ pc[c] = "lock"
              /\ learned'[c][k] = AsShown(Visible(c))
          BY <4>2, <1>0 DEF IInv, TypeOK
        <5>2. QED
          BY <5>1, VisibleLemma, <3>2
      <4>3. QED
        BY <4>1, <4>2
    <3>3. QED
      BY <3>1, <3>2, <2>1 DEF AnswerInv, Committed
  <2>5. QED
    BY <2>2, <2>3, <2>4 DEF ClientInv
<1>5. QED
  BY <1>1, <1>2, <1>3, <1>4 DEF IInv, ClientInv

\* get_fact.
LEMMA GetFactStep ==
  ASSUME IInv, NEW c \in Client, NEW key \in Key, GetFact(c, key)
  PROVE  IInv'
<1> USE DEF GetFact
<1>1. TypeOK'
  <2>1. AsShown(fact[key]) \in Row
    BY ShownLemma DEF IInv, TypeOK
  <2>2. view' \in [Client -> [Key -> Row]]
    BY <2>1 DEF IInv, TypeOK
  <2>3. QED
    BY <2>2 DEF IInv, TypeOK
<1>2. FactInv'
  BY DEF IInv, FactInv, HistoryExplainsFact, NoLostUpdate
<1>3. ASSUME NEW d \in Client \ {c}
      PROVE  ClientInv(d)'
  <2>1. /\ items'[d] = items[d] /\ pc'[d] = pc[d] /\ rows'[d] = rows[d]
        /\ revs'[d] = revs[d] /\ save'[d] = save[d] /\ learned'[d] = learned[d]
        /\ view'[d] = view[d] /\ cites'[d] = cites[d]
    BY DEF IInv, TypeOK
  <2>2. /\ \A r \in Lockable : lock[r] = d => lock'[r] = d
        /\ \A k \in Key : lock[k] = d => fact'[k] = fact[k]
    OBVIOUS
  <2>3. \A k \in Key : /\ Len(revisions[k]) <= Len(revisions'[k])
                       /\ \A n \in 1..Len(revisions[k]) : revisions'[k][n] = revisions[k][n]
    BY DEF IInv, TypeOK
  <2>4. QED
    BY <1>1, <2>1, <2>2, <2>3, FrameLemma
<1>4. ClientInv(c)'
  <2>1. save[c] = NoSave
    BY DEF IInv, ItemInv
  <2>2. SavepointInv(c)'
    BY <2>1 DEF SavepointInv, NoSave, NoRows, NoRevs
  <2>3. ItemInv(c)'
    BY DEF IInv, ItemInv
  <2>4. AnswerInv(c)'
    <3>1. /\ fact[key].revision \in 1..Len(revisions[key])
          /\ fact[key].value = revisions[key][fact[key].revision].value
      BY DEF IInv, TypeOK, FactInv, HistoryExplainsFact, Row
    <3>2. Committed(AsShown(fact[key]), key)
      BY <3>1 DEF Committed, AsShown
    <3>3. ASSUME NEW k \in Key, view'[c][k] # NoRow
          PROVE  Committed(view'[c][k], k)
      BY <3>2, <3>3 DEF IInv, TypeOK, AnswerInv
    <3>4. \A k \in Key : learned[c][k] = NoRow
      <4>1. learned[c] = NoRows
        BY DEF IInv, ItemInv
      <4>2. QED
        BY <4>1 DEF NoRows
    <3>5. QED
      BY <3>3, <3>4 DEF AnswerInv, Committed
  <2>5. QED
    BY <2>2, <2>3, <2>4 DEF ClientInv
<1>5. QED
  BY <1>1, <1>2, <1>3, <1>4 DEF IInv, ClientInv

\* A call arrives.
LEMMA CallStep ==
  ASSUME IInv, NEW c \in Client, NEW sent \in Calls, Call(c, sent)
  PROVE  IInv'
<1> USE DEF Call
<1>0. sent \in Seq(Item) /\ sent # <<>>
  BY DEF Calls
<1>1. TypeOK'
  BY <1>0 DEF IInv, TypeOK
<1>2. FactInv'
  BY DEF IInv, FactInv, HistoryExplainsFact, NoLostUpdate
<1>3. ASSUME NEW d \in Client \ {c}
      PROVE  ClientInv(d)'
  <2>1. /\ items'[d] = items[d] /\ pc'[d] = pc[d] /\ rows'[d] = rows[d]
        /\ revs'[d] = revs[d] /\ save'[d] = save[d] /\ learned'[d] = learned[d]
        /\ view'[d] = view[d] /\ cites'[d] = cites[d]
    BY DEF IInv, TypeOK
  <2>2. /\ \A r \in Lockable : lock[r] = d => lock'[r] = d
        /\ \A k \in Key : lock[k] = d => fact'[k] = fact[k]
    OBVIOUS
  <2>3. \A k \in Key : /\ Len(revisions[k]) <= Len(revisions'[k])
                       /\ \A n \in 1..Len(revisions[k]) : revisions'[k][n] = revisions[k][n]
    BY DEF IInv, TypeOK
  <2>4. QED
    BY <1>1, <2>1, <2>2, <2>3, FrameLemma
<1>4. ClientInv(c)'
  <2>1. pc'[c] = "lock" /\ items'[c] = sent
    BY DEF IInv, TypeOK
  <2>2. SavepointInv(c)'
    BY DEF IInv, SavepointInv, Successor, NewRevision, AsShown
  <2>3. ItemInv(c)'
    BY <2>1, <1>0 DEF IInv, ItemInv
  <2>4. AnswerInv(c)'
    BY DEF IInv, AnswerInv, Committed
  <2>5. QED
    BY <2>2, <2>3, <2>4 DEF ClientInv
<1>5. QED
  BY <1>1, <1>2, <1>3, <1>4 DEF IInv, ClientInv

\* The base is current: a row that exists is locked from here on.
LEMMA LockFactStep ==
  ASSUME IInv, NEW c \in Client, LockFact(c)
  PROVE  IInv'
<1> USE DEF LockFact
<1>0. At(c) \in Key /\ At(c) \in Lockable
  BY AtLemma
<1>1. TypeOK'
  BY <1>0 DEF IInv, TypeOK
<1>2. FactInv'
  BY DEF IInv, FactInv, HistoryExplainsFact, NoLostUpdate
<1>3. ASSUME NEW d \in Client \ {c}
      PROVE  ClientInv(d)'
  <2>1. /\ items'[d] = items[d] /\ pc'[d] = pc[d] /\ rows'[d] = rows[d]
        /\ revs'[d] = revs[d] /\ save'[d] = save[d] /\ learned'[d] = learned[d]
        /\ view'[d] = view[d] /\ cites'[d] = cites[d]
    BY DEF IInv, TypeOK
  <2>2. /\ \A r \in Lockable : lock[r] = d => lock'[r] = d
        /\ \A k \in Key : lock[k] = d => fact'[k] = fact[k]
    BY ClientAssumption, <1>0 DEF CanLock, IInv, TypeOK
  <2>3. \A k \in Key : /\ Len(revisions[k]) <= Len(revisions'[k])
                       /\ \A n \in 1..Len(revisions[k]) : revisions'[k][n] = revisions[k][n]
    BY DEF IInv, TypeOK
  <2>4. QED
    BY <1>1, <2>1, <2>2, <2>3, FrameLemma
<1>4. ClientInv(c)'
  <2>1. pc'[c] = "flush" /\ At(c)' = At(c) /\ Base(c)' = Base(c)
    BY DEF IInv, TypeOK, At, Base
  <2>2. /\ rows[c] = save[c].rows /\ save[c].rows[At(c)] = NoRow
        /\ Visible(c) = fact[At(c)]
    BY <1>0, NothingFlushedLemma
  <2>3. SavepointInv(c)'
    <3>1. save[c].held \subseteq Lockable
      BY DEF IInv, TypeOK, Savepoint
    <3>2. \A k \in save[c].held : lock'[k] = c
      BY <3>1, <1>0 DEF IInv, SavepointInv, TypeOK
    <3>3. QED
      BY <3>2 DEF IInv, SavepointInv, Successor, NewRevision, AsShown
  <2>4. ItemInv(c)'
    <3>1. ASSUME Base(c) # 0
          PROVE  lock'[At(c)] = c /\ view[c][At(c)] = AsShown(fact[At(c)])
      <4>1. fact[At(c)] # NoRow
        BY <3>1, <2>2 DEF NoRow
      <4>2. lock'[At(c)] = c
        BY <4>1, <2>2, <1>0 DEF IInv, TypeOK
      <4>3. view[c][At(c)] = AsShown(fact[At(c)])
        BY <2>2, <1>0, CurrentLemma DEF Base
      <4>4. QED
        BY <4>2, <4>3
    <3>2. QED
      BY <2>1, <2>2, <3>1 DEF IInv, ItemInv, AsShown
  <2>5. AnswerInv(c)'
    BY DEF IInv, AnswerInv, Committed
  <2>6. QED
    BY <2>3, <2>4, <2>5 DEF ClientInv
<1>5. QED
  BY <1>1, <1>2, <1>3, <1>4 DEF IInv, ClientInv

\* The new fact row is flushed.
LEMMA FlushFactStep ==
  ASSUME IInv, NEW c \in Client, FlushFact(c)
  PROVE  IInv'
<1> USE DEF FlushFact
<1>0. At(c) \in Key /\ At(c) \in Lockable
  BY AtLemma
<1>a. /\ rows[c] = save[c].rows /\ save[c].rows[At(c)] = NoRow
      /\ Visible(c) = fact[At(c)]
  <2>1. pc[c] = "flush"
    OBVIOUS
  <2>2. rows[c] = save[c].rows /\ save[c].rows[At(c)] = NoRow
    BY <2>1 DEF IInv, ItemInv
  <2>3. QED
    BY <2>2 DEF Visible
<1>b. view[c][At(c)] = AsShown(fact[At(c)])
  <2>1. CASE Base(c) # 0
    BY <2>1 DEF IInv, ItemInv
  <2>2. CASE Base(c) = 0
    BY <2>2, <1>0, CurrentLemma DEF Base, NoRow
  <2>3. QED
    BY <2>1, <2>2
<1>c. [revision |-> Visible(c).revision + 1, value |-> Merged(c)] = Successor(c, At(c))
  BY <1>a, <1>b DEF Successor, Merged, AsShown
<1>1. TypeOK'
  <2>1. fact[At(c)] \in Row
    BY <1>0 DEF IInv, TypeOK
  <2>2. Successor(c, At(c)) \in Row
    BY <2>1, ShownLemma DEF Successor, Row
  <2>3. rows' \in [Client -> [Key -> Row]]
    BY <2>2, <1>c, <1>0 DEF IInv, TypeOK
  <2>4. QED
    BY <2>3, <1>0 DEF IInv, TypeOK
<1>2. FactInv'
  BY DEF IInv, FactInv, HistoryExplainsFact, NoLostUpdate
<1>3. ASSUME NEW d \in Client \ {c}
      PROVE  ClientInv(d)'
  <2>1. /\ items'[d] = items[d] /\ pc'[d] = pc[d] /\ rows'[d] = rows[d]
        /\ revs'[d] = revs[d] /\ save'[d] = save[d] /\ learned'[d] = learned[d]
        /\ view'[d] = view[d] /\ cites'[d] = cites[d]
    BY DEF IInv, TypeOK
  <2>2. /\ \A r \in Lockable : lock[r] = d => lock'[r] = d
        /\ \A k \in Key : lock[k] = d => fact'[k] = fact[k]
    BY ClientAssumption, <1>0 DEF IInv, TypeOK
  <2>3. \A k \in Key : /\ Len(revisions[k]) <= Len(revisions'[k])
                       /\ \A n \in 1..Len(revisions[k]) : revisions'[k][n] = revisions[k][n]
    BY DEF IInv, TypeOK
  <2>4. QED
    BY <1>1, <2>1, <2>2, <2>3, FrameLemma
<1>4. ClientInv(c)'
  <2>1. /\ pc'[c] = "revise" /\ At(c)' = At(c) /\ lock'[At(c)] = c
        /\ rows'[c] = [save[c].rows EXCEPT ![At(c)] = Successor(c, At(c))]
    BY <1>0, <1>a, <1>c DEF IInv, TypeOK, At
  <2>2. SavepointInv(c)'
    <3>1. save[c].held \subseteq Lockable
      BY DEF IInv, TypeOK, Savepoint
    <3>2. \A k \in save[c].held : lock'[k] = c
      BY <3>1, <1>0 DEF IInv, SavepointInv, TypeOK
    <3>3. QED
      BY <3>2 DEF IInv, SavepointInv, Successor, NewRevision, AsShown
  <2>3. ItemInv(c)'
    BY <2>1, <1>a, <1>b DEF IInv, ItemInv, AsShown, Successor
  <2>4. AnswerInv(c)'
    BY DEF IInv, AnswerInv, Committed
  <2>5. QED
    BY <2>2, <2>3, <2>4 DEF ClientInv
<1>5. QED
  BY <1>1, <1>2, <1>3, <1>4 DEF IInv, ClientInv

\* Nothing to write: the row stays locked, and the answer has it.
LEMMA UnchangedStep ==
  ASSUME IInv, NEW c \in Client, Unchanged(c)
  PROVE  IInv'
<1> USE DEF Unchanged
<1>0. At(c) \in Key /\ At(c) \in Lockable
  BY AtLemma
<1>1. TypeOK'
  <2>1. items' \in [Client -> Seq(Item)]
        /\ pc' \in [Client -> {"idle", "lock", "flush", "revise", "touch", "commit"}]
        /\ cites' \in [Client -> Seq(Event)]
    BY NextItemLemma DEF ReleaseSavepoint
  <2>2. learned' \in [Client -> [Key -> Row]]
    <3>1. AsShown(Visible(c)) \in Row
      BY <1>0, ShownLemma DEF IInv, TypeOK, Visible
    <3>2. QED
      BY <3>1, <1>0 DEF IInv, TypeOK
  <2>3. /\ lock' \in [Lockable -> Client \cup {Free}]
        /\ rows' \in [Client -> [Key -> Row]]
        /\ revs' \in [Client -> [Key -> Seq(Revision)]]
    BY <1>0 DEF IInv, TypeOK
  <2>4. save' \in [Client -> Savepoint]
    <3>1. /\ rows'[c] \in [Key -> Row] /\ revs'[c] \in [Key -> Seq(Revision)]
          /\ {r \in Lockable : lock'[r] = c} \in SUBSET Lockable
      BY <2>3
    <3>2. QED
      BY <3>1 DEF ReleaseSavepoint, Savepoint, IInv, TypeOK
  <2>5. QED
    BY <2>1, <2>2, <2>3, <2>4 DEF IInv, TypeOK
<1>2. FactInv'
  BY DEF IInv, FactInv, HistoryExplainsFact, NoLostUpdate
<1>3. ASSUME NEW d \in Client \ {c}
      PROVE  ClientInv(d)'
  <2>1. /\ items'[d] = items[d] /\ pc'[d] = pc[d] /\ rows'[d] = rows[d]
        /\ revs'[d] = revs[d] /\ save'[d] = save[d] /\ learned'[d] = learned[d]
        /\ view'[d] = view[d] /\ cites'[d] = cites[d]
    <3>1. items'[d] = items[d] /\ pc'[d] = pc[d] /\ cites'[d] = cites[d]
      BY NextItemLemma DEF ReleaseSavepoint
    <3>2. QED
      BY <3>1 DEF IInv, TypeOK, ReleaseSavepoint
  <2>2. /\ \A r \in Lockable : lock[r] = d => lock'[r] = d
        /\ \A k \in Key : lock[k] = d => fact'[k] = fact[k]
    BY ClientAssumption, <1>0 DEF CanLock, IInv, TypeOK
  <2>3. \A k \in Key : /\ Len(revisions[k]) <= Len(revisions'[k])
                       /\ \A n \in 1..Len(revisions[k]) : revisions'[k][n] = revisions[k][n]
    BY DEF IInv, TypeOK
  <2>4. QED
    BY <1>1, <2>1, <2>2, <2>3, FrameLemma
<1>4. ClientInv(c)'
  <2>1. /\ pc'[c] = "commit" \/ (pc'[c] = "lock" /\ items'[c] # <<>>)
        /\ cites'[c] = <<>>
        /\ save'[c] = [rows |-> rows[c], revs |-> revs[c],
                       held |-> {r \in Lockable : lock'[r] = c}]
        /\ rows[c] = save[c].rows /\ revs[c] = save[c].revs
    <3>1. /\ pc'[c] = "commit" \/ (pc'[c] = "lock" /\ items'[c] # <<>>)
          /\ cites'[c] = <<>>
      BY NextItemLemma DEF ReleaseSavepoint
    <3>2. QED
      BY <3>1 DEF IInv, TypeOK, ItemInv, ReleaseSavepoint
  <2>2. SavepointInv(c)'
    <3>1. \A k \in Key : k \in save[c].held => lock'[k] = c
      BY <1>0 DEF IInv, SavepointInv, TypeOK
    <3>2. \A k \in Key : k \in save[c].held => k \in save'[c].held
      BY <2>1, <3>1 DEF Lockable
    <3>3. SavepointInv(c)
      BY DEF IInv
    <3>4. \A r \in save'[c].held : lock'[r] = c
      BY <2>1
    <3>5. save'[c].rows = save[c].rows /\ save'[c].revs = save[c].revs
      BY <2>1
    <3>6. QED
      BY <3>2, <3>3, <3>4, <3>5 DEF SavepointInv, Successor, NewRevision, AsShown
  <2>3. ItemInv(c)'
    BY <2>1 DEF ItemInv
  <2>4. AnswerInv(c)'
    <3>1. AsShown(Visible(c)) # NoRow =>
            /\ view[c][At(c)].revision <= AsShown(Visible(c)).revision
            /\ \/ Committed(AsShown(Visible(c)), At(c))
               \/ /\ save[c].rows[At(c)] # NoRow
                  /\ AsShown(Visible(c)) = AsShown(save[c].rows[At(c)])
      BY VisibleLemma
    <3>2. \A k \in Key : learned'[c][k] = IF k = At(c) THEN AsShown(Visible(c))
                                                       ELSE learned[c][k]
      BY <1>0 DEF IInv, TypeOK
    <3>3. save'[c].rows = save[c].rows /\ view' = view /\ revisions' = revisions
      BY <2>1
    <3>4. AnswerInv(c)
      BY DEF IInv
    <3>5. ASSUME NEW k \in Key
          PROVE  view'[c][k] # NoRow => Committed(view[c][k], k)'
      BY <3>3, <3>4 DEF AnswerInv, Committed
    <3>6. ASSUME NEW k \in Key, learned'[c][k] # NoRow
          PROVE  /\ view[c][k].revision <= learned'[c][k].revision
                 /\ \/ Committed(learned'[c][k], k)
                    \/ save[c].rows[k] # NoRow /\ learned'[c][k] = AsShown(save[c].rows[k])
      <4>1. CASE k = At(c)
        BY <3>1, <3>2, <3>6, <4>1
      <4>2. CASE k # At(c)
        BY <3>2, <3>4, <3>6, <4>2 DEF AnswerInv
      <4>3. QED
        BY <4>1, <4>2
    <3>7. ASSUME NEW k \in Key, learned'[c][k] # NoRow
          PROVE  /\ view'[c][k].revision <= learned'[c][k].revision
                 /\ \/ Committed(learned[c][k], k)'
                    \/ /\ save'[c].rows[k] # NoRow
                       /\ learned'[c][k] = AsShown(save[c].rows[k])'
      BY <3>3, <3>6, <3>7 DEF Committed, AsShown
    <3>8. QED
      BY <3>5, <3>7 DEF AnswerInv
  <2>5. QED
    BY <2>2, <2>3, <2>4 DEF ClientInv
<1>5. QED
  BY <1>1, <1>2, <1>3, <1>4 DEF IInv, ClientInv

\* What a client that has flushed a row has done, and what its revision is.
LEMMA FlushedLemma ==
  ASSUME IInv, NEW c \in Client, pc[c] \in {"revise", "touch"}
  PROVE  /\ At(c) \in Key
         /\ save[c].rows[At(c)] = NoRow /\ lock[At(c)] = c
         /\ view[c][At(c)] = AsShown(fact[At(c)])
         /\ save[c].rows \in [Key -> Row] /\ save[c].revs \in [Key -> Seq(Revision)]
         /\ rows[c] = [save[c].rows EXCEPT ![At(c)] = Successor(c, At(c))]
         /\ rows[c][At(c)] = Successor(c, At(c))
         /\ NewRevision(c, At(c)) \in Revision
         /\ [save[c].revs EXCEPT ![At(c)] = <<NewRevision(c, At(c))>>] \in [Key -> Seq(Revision)]
<1>1. At(c) \in Key
  BY AtLemma
<1>2. /\ save[c].rows[At(c)] = NoRow /\ lock[At(c)] = c
      /\ view[c][At(c)] = AsShown(fact[At(c)])
      /\ rows[c] = [save[c].rows EXCEPT ![At(c)] = Successor(c, At(c))]
  BY DEF IInv, ItemInv
<1>3. save[c].rows \in [Key -> Row] /\ save[c].revs \in [Key -> Seq(Revision)]
  BY DEF IInv, TypeOK, Savepoint
<1>4. NewRevision(c, At(c)) \in Revision
  <2>1. fact[At(c)].value \in SUBSET Client
    BY <1>1 DEF IInv, TypeOK, Row
  <2>2. Shown(fact[At(c)].value) \in SUBSET Client
    BY <2>1, ShownLemma
  <2>3. QED
    BY <2>2 DEF NewRevision, Revision
<1>5. <<NewRevision(c, At(c))>> \in Seq(Revision)
  BY <1>4
<1>6. [save[c].revs EXCEPT ![At(c)] = <<NewRevision(c, At(c))>>] \in [Key -> Seq(Revision)]
  BY <1>1, <1>3, <1>5
<1>7. rows[c][At(c)] = Successor(c, At(c))
  BY <1>1, <1>2, <1>3
<1>8. QED
  BY <1>1, <1>2, <1>3, <1>4, <1>6, <1>7

\* The item is written: its row and its revision join those of the savepoint.
LEMMA WrittenStep ==
  ASSUME IInv, NEW c \in Client, pc[c] \in {"revise", "touch"}, Written(c),
         UNCHANGED <<fact, revisions, view, rows>>,
         revs' = [revs EXCEPT ![c] = [save[c].revs EXCEPT ![At(c)] = <<NewRevision(c, At(c))>>]],
         lock' \in [Lockable -> Client \cup {Free}],
         \A r \in Lockable : lock[r] # Free => lock'[r] = lock[r]
  PROVE  IInv'
<1> USE DEF Written
<1>0. At(c) \in Key
  BY AtLemma
<1>a. /\ save[c].rows[At(c)] = NoRow /\ lock[At(c)] = c
      /\ view[c][At(c)] = AsShown(fact[At(c)])
      /\ rows[c] = [save[c].rows EXCEPT ![At(c)] = Successor(c, At(c))]
  BY FlushedLemma
<1>c. save[c].rows \in [Key -> Row]
  BY FlushedLemma
<1>d. rows[c][At(c)] = Successor(c, At(c))
  BY FlushedLemma
<1>g. NewRevision(c, At(c)) \in Revision
  BY FlushedLemma
<1>1. TypeOK'
  <2>1. items' \in [Client -> Seq(Item)]
        /\ pc' \in [Client -> {"idle", "lock", "flush", "revise", "touch", "commit"}]
        /\ cites' \in [Client -> Seq(Event)]
    BY NextItemLemma DEF ReleaseSavepoint
  <2>2. learned' \in [Client -> [Key -> Row]]
    <3>1. AsShown(rows[c][At(c)]) \in Row
      BY <1>0, ShownLemma DEF IInv, TypeOK
    <3>2. QED
      BY <3>1, <1>0 DEF IInv, TypeOK
  <2>3. /\ lock' \in [Lockable -> Client \cup {Free}]
        /\ rows' \in [Client -> [Key -> Row]]
        /\ revs' \in [Client -> [Key -> Seq(Revision)]]
    <3>1. [save[c].revs EXCEPT ![At(c)] = <<NewRevision(c, At(c))>>] \in [Key -> Seq(Revision)]
      BY FlushedLemma
    <3>2. QED
      BY <3>1 DEF IInv, TypeOK
  <2>4. save' \in [Client -> Savepoint]
    <3>1. /\ rows'[c] \in [Key -> Row] /\ revs'[c] \in [Key -> Seq(Revision)]
          /\ {r \in Lockable : lock'[r] = c} \in SUBSET Lockable
      BY <2>3
    <3>2. QED
      BY <3>1 DEF ReleaseSavepoint, Savepoint, IInv, TypeOK
  <2>5. QED
    BY <2>1, <2>2, <2>3, <2>4 DEF IInv, TypeOK
<1>2. FactInv'
  BY DEF IInv, FactInv, HistoryExplainsFact, NoLostUpdate
<1>3. ASSUME NEW d \in Client \ {c}
      PROVE  ClientInv(d)'
  <2>1. /\ items'[d] = items[d] /\ pc'[d] = pc[d] /\ rows'[d] = rows[d]
        /\ revs'[d] = revs[d] /\ save'[d] = save[d] /\ learned'[d] = learned[d]
        /\ view'[d] = view[d] /\ cites'[d] = cites[d]
    <3>1. items'[d] = items[d] /\ pc'[d] = pc[d] /\ cites'[d] = cites[d]
      BY NextItemLemma DEF ReleaseSavepoint
    <3>2. QED
      BY <3>1 DEF IInv, TypeOK, ReleaseSavepoint
  <2>2. /\ \A r \in Lockable : lock[r] = d => lock'[r] = d
        /\ \A k \in Key : lock[k] = d => fact'[k] = fact[k]
    BY ClientAssumption
  <2>3. \A k \in Key : /\ Len(revisions[k]) <= Len(revisions'[k])
                       /\ \A n \in 1..Len(revisions[k]) : revisions'[k][n] = revisions[k][n]
    BY DEF IInv, TypeOK
  <2>4. QED
    BY <1>1, <2>1, <2>2, <2>3, FrameLemma
<1>4. ClientInv(c)'
  <2>1. /\ pc'[c] = "commit" \/ (pc'[c] = "lock" /\ items'[c] # <<>>)
        /\ cites'[c] = <<>>
        /\ save'[c] = [rows |-> rows[c], revs |-> revs'[c],
                       held |-> {r \in Lockable : lock'[r] = c}]
    <3>1. /\ pc'[c] = "commit" \/ (pc'[c] = "lock" /\ items'[c] # <<>>)
          /\ cites'[c] = <<>>
      BY NextItemLemma DEF ReleaseSavepoint
    <3>2. QED
      BY <3>1 DEF IInv, TypeOK, ReleaseSavepoint
  <2>2. SavepointInv(c)'
    <3>1. Successor(c, At(c)) # NoRow
      BY <1>0 DEF Successor, NoRow, IInv, TypeOK, Row
    <3>2. \A k \in Key : revs'[c][k] = IF k = At(c) THEN <<NewRevision(c, At(c))>>
                                                    ELSE save[c].revs[k]
      <4>1. revs'[c] = [save[c].revs EXCEPT ![At(c)] = <<NewRevision(c, At(c))>>]
        BY DEF IInv, TypeOK
      <4>2. save[c].revs \in [Key -> Seq(Revision)]
        BY DEF IInv, TypeOK, Savepoint
      <4>3. QED
        BY <4>1, <4>2
    <3>3. \A k \in Key : rows[c][k] = IF k = At(c) THEN Successor(c, At(c))
                                                    ELSE save[c].rows[k]
      BY <1>a, <1>c
    <3>4. \A k \in Key : k \in save[c].held => lock[k] = c
      BY DEF IInv, SavepointInv
    <3>a. \A k \in Key : lock[k] = c => k \in save'[c].held
      BY <2>1, ClientAssumption DEF Lockable
    <3>5. ASSUME NEW k \in Key
          PROVE  IF rows[c][k] = NoRow
                 THEN revs'[c][k] = <<>>
                 ELSE /\ lock[k] = c
                      /\ view[c][k] = AsShown(fact[k])
                      /\ rows[c][k] = Successor(c, k)
                      /\ revs'[c][k] = <<NewRevision(c, k)>>
      <4>1. CASE k = At(c)
        BY <4>1, <3>1, <3>2, <3>3, <1>a
      <4>2. CASE k # At(c)
        BY <4>2, <3>2, <3>3, <3>4 DEF IInv, SavepointInv
      <4>3. QED
        BY <4>1, <4>2
    <3>6. QED
      BY <2>1, <3>5, <3>a DEF SavepointInv, Successor, NewRevision, AsShown
  <2>3. ItemInv(c)'
    BY <2>1 DEF ItemInv
  <2>4. AnswerInv(c)'
    <3>1. ASSUME NEW k \in Key
          PROVE  view[c][k] # NoRow => Committed(view[c][k], k)
      BY DEF IInv, AnswerInv
    <3>2. ASSUME NEW k \in Key, learned'[c][k] # NoRow
          PROVE  /\ view[c][k].revision <= learned'[c][k].revision
                 /\ \/ Committed(learned'[c][k], k)
                    \/ rows[c][k] # NoRow /\ learned'[c][k] = AsShown(rows[c][k])
      <4>1. CASE k = At(c)
        <5>1. learned'[c][k] = AsShown(Successor(c, k))
          BY <4>1, <1>0, <1>d DEF IInv, TypeOK
        <5>2. fact[k].revision \in Nat
          BY DEF IInv, TypeOK, Row
        <5>3. view[c][k].revision <= learned'[c][k].revision
          BY <5>1, <5>2, <4>1, <1>a DEF AsShown, Successor
        <5>4. rows[c][k] # NoRow
          BY <4>1, <1>d, <5>2 DEF Successor, NoRow
        <5>5. QED
          BY <5>1, <5>3, <5>4, <4>1, <1>d
      <4>2. CASE k # At(c)
        <5>1. learned'[c][k] = learned[c][k] /\ rows[c][k] = save[c].rows[k]
          BY <4>2, <1>a, <1>c DEF IInv, TypeOK
        <5>2. QED
          BY <5>1, <3>2 DEF IInv, AnswerInv
      <4>3. QED
        BY <4>1, <4>2
    <3>3. save'[c].rows = rows[c] /\ view' = view /\ revisions' = revisions
      BY <2>1
    <3>4. ASSUME NEW k \in Key
          PROVE  view'[c][k] # NoRow => Committed(view[c][k], k)'
      BY <3>1, <3>3 DEF Committed
    <3>5. ASSUME NEW k \in Key, learned'[c][k] # NoRow
          PROVE  /\ view'[c][k].revision <= learned'[c][k].revision
                 /\ \/ Committed(learned[c][k], k)'
                    \/ /\ save'[c].rows[k] # NoRow
                       /\ learned'[c][k] = AsShown(save[c].rows[k])'
      <4>1. CASE Committed(learned'[c][k], k)
        BY <3>2, <3>3, <3>5, <4>1 DEF Committed
      <4>2. CASE rows[c][k] # NoRow /\ learned'[c][k] = AsShown(rows[c][k])
        BY <3>2, <3>3, <3>5, <4>2 DEF AsShown
      <4>3. QED
        BY <3>2, <3>5, <4>1, <4>2
    <3>6. QED
      BY <3>4, <3>5 DEF AnswerInv
  <2>5. QED
    BY <2>2, <2>3, <2>4 DEF ClientInv
<1>5. QED
  BY <1>1, <1>2, <1>3, <1>4 DEF IInv, ClientInv

\* The item has a raw event to touch: nothing else of the call changes, but for the row of
\* an event that is locked.
LEMMA TouchingStep ==
  ASSUME IInv, NEW c \in Client, pc[c] \in {"revise", "touch"}, NEW rest \in Seq(Event),
         rest # <<>>, pc' = [pc EXCEPT ![c] = "touch"], cites' = [cites EXCEPT ![c] = rest],
         UNCHANGED <<fact, revisions, view, items, rows, save, learned>>,
         revs' = [revs EXCEPT ![c] = [save[c].revs EXCEPT ![At(c)] = <<NewRevision(c, At(c))>>]],
         lock' \in [Lockable -> Client \cup {Free}],
         \A r \in Lockable : lock[r] # Free => lock'[r] = lock[r]
  PROVE  IInv'
<1>0. At(c) \in Key /\ At(c) \in Lockable
  BY AtLemma
<1>1. TypeOK'
  <2>1. [save[c].revs EXCEPT ![At(c)] = <<NewRevision(c, At(c))>>] \in [Key -> Seq(Revision)]
    BY FlushedLemma
  <2>2. revs' \in [Client -> [Key -> Seq(Revision)]]
    BY <2>1 DEF IInv, TypeOK
  <2>3. QED
    BY <2>2 DEF IInv, TypeOK
<1>2. FactInv'
  BY DEF IInv, FactInv, HistoryExplainsFact, NoLostUpdate
<1>3. ASSUME NEW d \in Client \ {c}
      PROVE  ClientInv(d)'
  <2>1. /\ items'[d] = items[d] /\ pc'[d] = pc[d] /\ rows'[d] = rows[d]
        /\ revs'[d] = revs[d] /\ save'[d] = save[d] /\ learned'[d] = learned[d]
        /\ view'[d] = view[d] /\ cites'[d] = cites[d]
    BY DEF IInv, TypeOK
  <2>2. /\ \A r \in Lockable : lock[r] = d => lock'[r] = d
        /\ \A k \in Key : lock[k] = d => fact'[k] = fact[k]
    BY ClientAssumption
  <2>3. \A k \in Key : /\ Len(revisions[k]) <= Len(revisions'[k])
                       /\ \A n \in 1..Len(revisions[k]) : revisions'[k][n] = revisions[k][n]
    BY DEF IInv, TypeOK
  <2>4. QED
    BY <1>1, <2>1, <2>2, <2>3, FrameLemma
<1>4. ClientInv(c)'
  <2>1. /\ pc'[c] = "touch" /\ cites'[c] # <<>> /\ At(c)' = At(c)
        /\ revs'[c] = [save[c].revs EXCEPT ![At(c)] = <<NewRevision(c, At(c))>>]
    BY DEF IInv, TypeOK, At
  <2>2. SavepointInv(c)'
    <3>1. save[c].held \subseteq Lockable
      BY DEF IInv, TypeOK, Savepoint
    <3>2. \A r \in save[c].held : lock'[r] = c
      BY <3>1, ClientAssumption DEF IInv, SavepointInv
    <3>3. QED
      BY <3>2 DEF IInv, SavepointInv, Successor, NewRevision, AsShown
  <2>3. ItemInv(c)'
    <3>a. lock[At(c)] = c
      BY FlushedLemma
    <3>1. lock'[At(c)] = c
      BY <1>0, <3>a, ClientAssumption
    <3>2. /\ Successor(c, At(c))' = Successor(c, At(c)) /\ AsShown(fact[At(c)])' = AsShown(fact[At(c)])
          /\ NewRevision(c, At(c))' = NewRevision(c, At(c))
      BY <2>1 DEF Successor, NewRevision, AsShown
    <3>3. items'[c] # <<>>
      BY AtLemma
    <3>4. QED
      BY <2>1, <3>1, <3>2, <3>3, FlushedLemma DEF ItemInv
  <2>4. AnswerInv(c)'
    BY DEF IInv, AnswerInv, Committed, AsShown
  <2>5. QED
    BY <2>2, <2>3, <2>4 DEF ClientInv
<1>5. QED
  BY <1>1, <1>2, <1>3, <1>4 DEF IInv, ClientInv

\* The revision is added.
LEMMA AddRevisionStep ==
  ASSUME IInv, NEW c \in Client, NEW cited \in Citations, AddRevision(c, cited)
  PROVE  IInv'
<1>1. pc[c] = "revise" /\ revs[c] = save[c].revs
  BY DEF AddRevision, IInv, ItemInv
<1>2. At(c) \in Key /\ save[c].rows[At(c)] = NoRow
  BY <1>1, FlushedLemma
<1>3. revs[c][At(c)] = <<>>
  BY <1>1, <1>2 DEF IInv, SavepointInv
<1>4. [by |-> c, read |-> view[c][At(c)].value, value |-> rows[c][At(c)].value]
        = NewRevision(c, At(c))
  <2>a. view[c][At(c)] = AsShown(fact[At(c)]) /\ rows[c][At(c)] = Successor(c, At(c))
    BY <1>1, FlushedLemma
  <2>1. view[c][At(c)].value = Shown(fact[At(c)].value)
    BY <2>a DEF AsShown
  <2>2. rows[c][At(c)].value = Shown(fact[At(c)].value) \cup {c}
    BY <2>a DEF Successor
  <2>3. QED
    BY <2>1, <2>2 DEF NewRevision
<1>5. revs' = [revs EXCEPT ![c] = [save[c].revs EXCEPT ![At(c)] = <<NewRevision(c, At(c))>>]]
  <2>1. Append(revs[c][At(c)], NewRevision(c, At(c))) = <<NewRevision(c, At(c))>>
    BY <1>3
  <2>2. revs' = [revs EXCEPT ![c] = [revs[c] EXCEPT ![At(c)] =
                                       Append(revs[c][At(c)], NewRevision(c, At(c)))]]
    BY <1>4 DEF AddRevision
  <2>3. QED
    BY <1>1, <2>1, <2>2
<1>6. lock' = lock /\ lock' \in [Lockable -> Client \cup {Free}] /\ cited \in Seq(Event)
  BY CitationsAssumption DEF AddRevision, IInv, TypeOK
<1>7. UNCHANGED <<fact, revisions, view, rows>>
  BY DEF AddRevision
<1>8. CASE Written(c)
  BY <1>1, <1>5, <1>6, <1>7, <1>8, WrittenStep
<1>9. CASE ~Written(c)
  <2>1. /\ cited # <<>> /\ cites' = [cites EXCEPT ![c] = cited]
        /\ pc' = [pc EXCEPT ![c] = "touch"] /\ UNCHANGED <<items, save, learned>>
    BY <1>9 DEF AddRevision
  <2>2. QED
    BY <1>1, <1>5, <1>6, <1>7, <2>1, TouchingStep
<1>10. QED
  BY <1>8, <1>9

\* A raw event is touched.
LEMMA TouchRawEventStep ==
  ASSUME IInv, NEW c \in Client, TouchRawEvent(c)
  PROVE  IInv'
<1>1. /\ pc[c] = "touch" /\ cites[c] \in Seq(Event) /\ cites[c] # <<>>
      /\ revs[c] = [save[c].revs EXCEPT ![At(c)] = <<NewRevision(c, At(c))>>]
  BY DEF TouchRawEvent, IInv, TypeOK, ItemInv
<1>2. Head(cites[c]) \in Event /\ Tail(cites[c]) \in Seq(Event)
  BY <1>1, HeadTailProperties
<1>3. revs' = [revs EXCEPT ![c] = [save[c].revs EXCEPT ![At(c)] = <<NewRevision(c, At(c))>>]]
  BY <1>1 DEF TouchRawEvent, IInv, TypeOK
<1>4. /\ lock' \in [Lockable -> Client \cup {Free}]
      /\ \A r \in Lockable : lock[r] # Free => lock'[r] = lock[r]
  <2>1. /\ lock \in [Lockable -> Client \cup {Free}] /\ Head(cites[c]) \in Lockable
        /\ lock[Head(cites[c])] \in {Free, c}
        /\ lock' = lock \/ lock' = [lock EXCEPT ![Head(cites[c])] = c]
    BY <1>2 DEF TouchRawEvent, IInv, TypeOK, Lockable
  <2>2. QED
    BY <2>1
<1>5. UNCHANGED <<fact, revisions, view, rows>>
  BY DEF TouchRawEvent
<1>6. CASE Written(c)
  BY <1>1, <1>3, <1>4, <1>5, <1>6, WrittenStep
<1>7. CASE ~Written(c)
  <2>1. /\ Tail(cites[c]) # <<>> /\ cites' = [cites EXCEPT ![c] = Tail(cites[c])]
        /\ UNCHANGED <<items, pc, save, learned>>
    BY <1>7 DEF TouchRawEvent, IInv, TypeOK
  <2>2. pc' = [pc EXCEPT ![c] = "touch"]
    BY <1>1, <2>1 DEF IInv, TypeOK
  <2>3. QED
    BY <1>1, <1>2, <1>3, <1>4, <1>5, <2>1, <2>2, TouchingStep
<1>8. QED
  BY <1>6, <1>7

\* What a commit does to each key: nothing, or one more revision by its lock holder, who
\* had been shown the row it replaces.
LEMMA CommitLemma ==
  ASSUME IInv, NEW c \in Client, NEW delivered \in BOOLEAN, Commit(c, delivered), NEW k \in Key
  PROVE  IF rows[c][k] = NoRow
         THEN fact'[k] = fact[k] /\ revisions'[k] = revisions[k]
         ELSE /\ lock[k] = c
              /\ view[c][k] = AsShown(fact[k])
              /\ rows[c][k] = Successor(c, k)
              /\ fact'[k] = Successor(c, k)
              /\ NewRevision(c, k) \in Revision
              /\ revisions'[k] = Append(revisions[k], NewRevision(c, k))
<1>1. rows[c] = save[c].rows /\ revs[c] = save[c].revs
  BY DEF Commit, IInv, ItemInv
<1>2. /\ fact'[k] = IF rows[c][k] # NoRow THEN rows[c][k] ELSE fact[k]
      /\ revisions'[k] = revisions[k] \o revs[c][k]
  BY DEF Commit
<1>3. revisions[k] \in Seq(Revision)
  BY DEF IInv, TypeOK
<1>4. CASE rows[c][k] = NoRow
  <2>1. revs[c][k] = <<>>
    BY <1>1, <1>4 DEF IInv, SavepointInv
  <2>2. QED
    BY <2>1, <1>2, <1>3, <1>4, ConcatEmptySeq
<1>5. CASE rows[c][k] # NoRow
  <2>1. /\ k \in save[c].held /\ view[c][k] = AsShown(fact[k])
        /\ rows[c][k] = Successor(c, k) /\ revs[c][k] = <<NewRevision(c, k)>>
    BY <1>1, <1>5 DEF IInv, SavepointInv
  <2>2. lock[k] = c
    BY <2>1 DEF IInv, SavepointInv
  <2>3. NewRevision(c, k) \in Revision
    <3>1. fact[k].value \in SUBSET Client
      BY DEF IInv, TypeOK, Row
    <3>2. Shown(fact[k].value) \in SUBSET Client
      BY <3>1, ShownLemma
    <3>3. QED
      BY <3>2 DEF NewRevision, Revision
  <2>4. revisions'[k] = Append(revisions[k], NewRevision(c, k))
    BY <2>1, <2>3, <1>2, <1>3, AppendIsConcat
  <2>5. QED
    BY <2>1, <2>2, <2>3, <2>4, <1>2, <1>5
<1>6. QED
  BY <1>4, <1>5

\* Revisions are only appended by a commit.
LEMMA CommitAppends ==
  ASSUME IInv, NEW c \in Client, NEW delivered \in BOOLEAN, Commit(c, delivered), NEW k \in Key
  PROVE  /\ revisions'[k] \in Seq(Revision)
         /\ Len(revisions[k]) <= Len(revisions'[k])
         /\ \A n \in 1..Len(revisions[k]) : revisions'[k][n] = revisions[k][n]
         /\ rows[c][k] # NoRow => /\ Len(revisions'[k]) = Len(revisions[k]) + 1
                                  /\ revisions'[k][Len(revisions[k]) + 1] = NewRevision(c, k)
<1>1. revisions[k] \in Seq(Revision) /\ Len(revisions[k]) \in Nat
  BY DEF IInv, TypeOK
<1>2. CASE rows[c][k] = NoRow
  BY <1>1, <1>2, CommitLemma
<1>3. CASE rows[c][k] # NoRow
  <2>1. /\ NewRevision(c, k) \in Revision
        /\ revisions'[k] = Append(revisions[k], NewRevision(c, k))
    BY <1>3, CommitLemma
  <2>2. QED
    BY <1>1, <2>1, AppendProperties
<1>4. QED
  BY <1>2, <1>3

\* The history of every key still explains its fact after a commit, and the new revision
\* was made by an agent who had been shown the one before it.
LEMMA CommitFactInv ==
  ASSUME IInv, NEW c \in Client, NEW delivered \in BOOLEAN, Commit(c, delivered)
  PROVE  FactInv'
<1>1. ASSUME NEW k \in Key
      PROVE  /\ fact'[k].revision = 0 => fact'[k] = NoRow
             /\ Len(revisions'[k]) = fact'[k].revision
             /\ fact'[k] # NoRow => fact'[k].value = revisions'[k][fact'[k].revision].value
             /\ \A n \in 1..Len(revisions'[k]) :
                  revisions'[k][n].read =
                    IF n = 1 THEN {} ELSE Shown(revisions'[k][n - 1].value)
  <2>0. /\ fact[k] \in Row /\ fact[k].revision \in Nat /\ revisions[k] \in Seq(Revision)
        /\ fact[k].revision = 0 => fact[k] = NoRow
        /\ Len(revisions[k]) = fact[k].revision
        /\ fact[k] # NoRow => fact[k].value = revisions[k][fact[k].revision].value
        /\ \A n \in 1..Len(revisions[k]) :
             revisions[k][n].read = IF n = 1 THEN {} ELSE Shown(revisions[k][n - 1].value)
    BY DEF IInv, TypeOK, Row, FactInv, HistoryExplainsFact, NoLostUpdate
  <2>1. CASE rows[c][k] = NoRow
    <3>1. fact'[k] = fact[k] /\ revisions'[k] = revisions[k]
      BY <2>1, CommitLemma
    <3>2. QED
      BY <2>0, <3>1
  <2>2. CASE rows[c][k] # NoRow
    <3> DEFINE n0 == Len(revisions[k])
    <3>1. /\ fact'[k].revision = n0 + 1
          /\ fact'[k].value = Shown(fact[k].value) \cup {c}
      <4>1. fact'[k] = Successor(c, k)
        BY <2>2, CommitLemma
      <4>2. QED
        BY <4>1, <2>0 DEF Successor
    <3>2. /\ Len(revisions'[k]) = n0 + 1
          /\ \A n \in 1..n0 : revisions'[k][n] = revisions[k][n]
          /\ revisions'[k][n0 + 1] = NewRevision(c, k)
      BY <2>2, CommitAppends
    <3>3. NewRevision(c, k).read = IF n0 = 0 THEN {} ELSE Shown(revisions[k][n0].value)
      <4>1. CASE n0 = 0
        BY <4>1, <2>0, ShownAssumption DEF NewRevision, NoRow
      <4>2. CASE n0 # 0
        BY <4>2, <2>0 DEF NewRevision, NoRow
      <4>3. QED
        BY <4>1, <4>2
    <3>4. NewRevision(c, k).value = Shown(fact[k].value) \cup {c}
      BY DEF NewRevision
    <3>5. n0 \in Nat
      BY <2>0
    <3>6. ASSUME NEW n \in 1..(n0 + 1)
          PROVE  revisions'[k][n].read =
                   IF n = 1 THEN {} ELSE Shown(revisions'[k][n - 1].value)
      <4>1. CASE n = n0 + 1
        <5>1. CASE n0 = 0
          BY <5>1, <4>1, <3>2, <3>3
        <5>2. CASE n0 # 0
          <6>1. revisions'[k][n - 1] = revisions[k][n0]
            BY <5>2, <4>1, <3>2, <3>5
          <6>2. QED
            BY <6>1, <5>2, <4>1, <3>2, <3>3, <3>5
        <5>3. QED
          BY <5>1, <5>2
      <4>2. CASE n # n0 + 1
        <5>1. n \in 1..n0 /\ revisions'[k][n] = revisions[k][n]
          BY <4>2, <3>2, <3>5
        <5>2. n # 1 => revisions'[k][n - 1] = revisions[k][n - 1]
          BY <5>1, <3>2, <3>5
        <5>3. QED
          BY <5>1, <5>2, <2>0
      <4>3. QED
        BY <4>1, <4>2
    <3>7. fact'[k].revision # 0 /\ Len(revisions'[k]) = fact'[k].revision
      BY <3>1, <3>2, <3>5
    <3>8. fact'[k].value = revisions'[k][fact'[k].revision].value
      BY <3>1, <3>2, <3>4
    <3>9. \A n \in 1..Len(revisions'[k]) :
            revisions'[k][n].read = IF n = 1 THEN {} ELSE Shown(revisions'[k][n - 1].value)
      BY <3>2, <3>6
    <3>10. QED
      BY <3>7, <3>8, <3>9
  <2>3. QED
    BY <2>1, <2>2
<1>2. QED
  BY <1>1 DEF FactInv, HistoryExplainsFact, NoLostUpdate

\* The commit, with the answer delivered or lost.
LEMMA CommitStep ==
  ASSUME IInv, NEW c \in Client, NEW delivered \in BOOLEAN, Commit(c, delivered)
  PROVE  IInv'
<1> USE DEF EndTransaction
<1>1. TypeOK'
  <2>1. fact' \in [Key -> Row]
    BY DEF Commit, IInv, TypeOK
  <2>2. revisions' \in [Key -> Seq(Revision)]
    <3>1. revisions' = [k \in Key |-> revisions[k] \o revs[c][k]]
      BY DEF Commit
    <3>2. \A k \in Key : revisions[k] \o revs[c][k] \in Seq(Revision)
      BY ConcatProperties DEF IInv, TypeOK
    <3>3. QED
      BY <3>1, <3>2
  <2>3. view' \in [Client -> [Key -> Row]]
    BY DEF Commit, IInv, TypeOK
  <2>4. /\ lock' \in [Lockable -> Client \cup {Free}]
        /\ items' \in [Client -> Seq(Item)] /\ cites' \in [Client -> Seq(Event)]
        /\ pc' \in [Client -> {"idle", "lock", "flush", "revise", "touch", "commit"}]
    BY DEF Commit, IInv, TypeOK
  <2>5. /\ rows' \in [Client -> [Key -> Row]]
        /\ revs' \in [Client -> [Key -> Seq(Revision)]]
        /\ save' \in [Client -> Savepoint]
        /\ learned' \in [Client -> [Key -> Row]]
    BY ShownLemma DEF Commit, IInv, TypeOK, NoRows, NoRevs, NoSave, Savepoint
  <2>6. QED
    BY <2>1, <2>2, <2>3, <2>4, <2>5 DEF TypeOK
<1>2. FactInv'
  BY CommitFactInv
<1>3. ASSUME NEW d \in Client \ {c}
      PROVE  ClientInv(d)'
  <2>1. /\ items'[d] = items[d] /\ pc'[d] = pc[d] /\ rows'[d] = rows[d]
        /\ revs'[d] = revs[d] /\ save'[d] = save[d] /\ learned'[d] = learned[d]
        /\ view'[d] = view[d] /\ cites'[d] = cites[d]
    BY DEF Commit, IInv, TypeOK
  <2>2. /\ \A r \in Lockable : lock[r] = d => lock'[r] = d
        /\ \A k \in Key : lock[k] = d => fact'[k] = fact[k]
    <3>1. ASSUME NEW k \in Key, lock[k] = d
          PROVE  rows[c][k] = NoRow
      BY <3>1, CommitLemma
    <3>2. QED
      BY <3>1, CommitLemma DEF Commit
  <2>3. \A k \in Key : /\ Len(revisions[k]) <= Len(revisions'[k])
                       /\ \A n \in 1..Len(revisions[k]) : revisions'[k][n] = revisions[k][n]
    BY CommitAppends
  <2>4. QED
    BY <1>1, <2>1, <2>2, <2>3, FrameLemma
<1>4. ClientInv(c)'
  <2>1. /\ pc'[c] = "idle" /\ save'[c] = NoSave /\ rows'[c] = NoRows
        /\ revs'[c] = NoRevs /\ learned'[c] = NoRows /\ cites'[c] = <<>>
    BY DEF Commit, IInv, TypeOK
  <2>2. SavepointInv(c)'
    BY <2>1 DEF SavepointInv, NoSave, NoRows, NoRevs
  <2>3. ItemInv(c)'
    BY <2>1 DEF ItemInv, NoSave
  <2>4. AnswerInv(c)'
    <3>1. ASSUME NEW k \in Key, view'[c][k] # NoRow
          PROVE  /\ view'[c][k].revision \in 1..Len(revisions'[k])
                 /\ view'[c][k].value = Shown(revisions'[k][view'[c][k].revision].value)
      <4>1. ASSUME NEW row \in Row, Committed(row, k)
            PROVE  /\ row.revision \in 1..Len(revisions'[k])
                   /\ row.value = Shown(revisions'[k][row.revision].value)
        <5>1. Len(revisions[k]) \in Nat /\ Len(revisions'[k]) \in Nat
          BY CommitAppends DEF IInv, TypeOK
        <5>2. QED
          BY <4>1, <5>1, CommitAppends DEF Committed
      <4>2. view[c][k] \in Row /\ learned[c][k] \in Row
        BY DEF IInv, TypeOK
      <4>3. CASE view'[c][k] = view[c][k]
        <5>1. Committed(view[c][k], k)
          BY <4>3, <3>1 DEF IInv, AnswerInv
        <5>2. QED
          BY <4>1, <4>2, <4>3, <5>1
      <4>4. CASE view'[c][k] = learned[c][k] /\ learned[c][k] # NoRow
        <5>1. CASE Committed(learned[c][k], k)
          BY <4>1, <4>2, <4>4, <5>1
        <5>2. CASE ~Committed(learned[c][k], k)
          <6>1. /\ save[c].rows[k] # NoRow /\ learned[c][k] = AsShown(save[c].rows[k])
            BY <4>4, <5>2 DEF IInv, AnswerInv
          <6>2. rows[c] = save[c].rows
            BY DEF Commit, IInv, ItemInv
          <6>3. learned[c][k] = AsShown(Successor(c, k)) /\ rows[c][k] # NoRow
            BY <6>1, <6>2, CommitLemma
          <6>4. /\ fact[k].revision = Len(revisions[k]) /\ fact[k].revision \in Nat
            BY DEF IInv, FactInv, HistoryExplainsFact, TypeOK, Row
          <6>5. /\ Len(revisions'[k]) = fact[k].revision + 1
                /\ revisions'[k][fact[k].revision + 1] = NewRevision(c, k)
            BY <6>3, <6>4, CommitAppends
          <6>6. /\ view'[c][k].revision = fact[k].revision + 1
                /\ view'[c][k].value = Shown(NewRevision(c, k).value)
            BY <4>4, <6>3 DEF AsShown, Successor, NewRevision
          <6>7. QED
            BY <6>4, <6>5, <6>6
        <5>3. QED
          BY <5>1, <5>2
      <4>5. view'[c][k] = view[c][k] \/ (view'[c][k] = learned[c][k] /\ learned[c][k] # NoRow)
        BY DEF Commit, IInv, TypeOK
      <4>6. QED
        BY <4>3, <4>4, <4>5
    <3>2. QED
      BY <3>1, <2>1 DEF AnswerInv, NoRows, Committed
  <2>5. QED
    BY <2>2, <2>3, <2>4 DEF ClientInv
<1>5. QED
  BY <1>1, <1>2, <1>3, <1>4 DEF IInv, ClientInv

-----------------------------------------------------------------------------
(* The theorems. *)

\* The invariant holds of an empty memory.
LEMMA InitInv == Init => IInv
<1> SUFFICES ASSUME Init PROVE IInv
  OBVIOUS
<1> USE DEF Init, NoRows, NoRevs, NoSave
<1>1. TypeOK
  BY ShownLemma DEF TypeOK, Savepoint
<1>2. FactInv
  BY DEF FactInv, HistoryExplainsFact, NoLostUpdate, NoRow
<1>3. ASSUME NEW c \in Client
      PROVE  SavepointInv(c) /\ ItemInv(c) /\ AnswerInv(c)
  BY DEF SavepointInv, ItemInv, AnswerInv
<1>4. QED
  BY <1>1, <1>2, <1>3 DEF IInv

\* Every step of every call keeps it.
LEMMA NextInv == IInv /\ [Next]_vars => IInv'
<1> SUFFICES ASSUME IInv, [Next]_vars PROVE IInv'
  OBVIOUS
<1>1. CASE UNCHANGED vars
  <2>1. TypeOK' /\ FactInv'
    BY <1>1 DEF vars, IInv, TypeOK, FactInv, HistoryExplainsFact, NoLostUpdate
  <2>2. ASSUME NEW c \in Client
        PROVE  ClientInv(c)'
    <3>1. /\ items'[c] = items[c] /\ pc'[c] = pc[c] /\ rows'[c] = rows[c]
          /\ revs'[c] = revs[c] /\ save'[c] = save[c] /\ learned'[c] = learned[c]
          /\ view'[c] = view[c]
          /\ cites'[c] = cites[c]
          /\ \A r \in Lockable : lock[r] = c => lock'[r] = c
          /\ \A k \in Key : lock[k] = c => fact'[k] = fact[k]
      BY <1>1 DEF vars
    <3>2. \A k \in Key : /\ Len(revisions[k]) <= Len(revisions'[k])
                         /\ \A n \in 1..Len(revisions[k]) :
                              revisions'[k][n] = revisions[k][n]
      BY <1>1 DEF vars, IInv, TypeOK
    <3>3. QED
      BY <2>1, <3>1, <3>2, FrameLemma
  <2>3. QED
    BY <2>1, <2>2 DEF IInv, ClientInv
<1>2. ASSUME NEW c \in Client, NEW k \in Key, GetFact(c, k)
      PROVE  IInv'
  BY <1>2, GetFactStep
<1>3. ASSUME NEW c \in Client, NEW sent \in Calls, Call(c, sent)
      PROVE  IInv'
  BY <1>3, CallStep
<1>4. ASSUME NEW c \in Client, Refuse(c) \/ Conflict(c) \/ WrongChange(c)
      PROVE  IInv'
  <2>1. CASE Refuse(c)
    BY <2>1, RollbackToSavepointStep DEF Refuse
  <2>2. CASE Conflict(c)
    BY <2>2, RollbackToSavepointStep DEF Conflict
  <2>3. CASE WrongChange(c)
    BY <2>3, RollbackToSavepointStep DEF WrongChange
  <2>4. QED
    BY <1>4, <2>1, <2>2, <2>3
<1>5. ASSUME NEW c \in Client, Unchanged(c) \/ LockFact(c) \/ FlushFact(c)
      PROVE  IInv'
  BY <1>5, UnchangedStep, LockFactStep, FlushFactStep
<1>9. ASSUME NEW c \in Client,
             (\E cited \in Citations : AddRevision(c, cited)) \/ TouchRawEvent(c)
      PROVE  IInv'
  BY <1>9, AddRevisionStep, TouchRawEventStep
<1>6. ASSUME NEW c \in Client, NEW delivered \in BOOLEAN, Commit(c, delivered)
      PROVE  IInv'
  BY <1>6, CommitStep
<1>7. ASSUME NEW c \in Client, UniqueViolation(c) \/ Fail(c) \/ DeadlockVictim(c)
      PROVE  IInv'
  BY <1>7, RollbackStep DEF UniqueViolation, Fail, DeadlockVictim
<1>8. QED
  BY <1>1, <1>2, <1>3, <1>4, <1>5, <1>6, <1>7, <1>9 DEF Next, Work

\* The invariant holds throughout, whatever the clients do.
THEOREM Invariance == Spec => []IInv
BY InitInv, NextInv, PTL DEF Spec

\* Every variable keeps its type.
THEOREM TypeCorrect == Spec => []TypeOK
<1>1. IInv => TypeOK
  BY DEF IInv
<1>2. QED
  BY <1>1, Invariance, PTL

\* No update is lost: the agent that made a revision had been shown the one it replaced.
THEOREM NoUpdateIsLost == Spec => []NoLostUpdate
<1>1. IInv => NoLostUpdate
  BY DEF IInv, FactInv
<1>2. QED
  BY <1>1, Invariance, PTL

\* The fact row and the revision table never disagree.
THEOREM HistoryIsComplete == Spec => []HistoryExplainsFact
<1>1. IInv => HistoryExplainsFact
  BY DEF IInv, FactInv
<1>2. QED
  BY <1>1, Invariance, PTL

\* No agent is told of a value that was not committed.
THEOREM NoUncommittedAnswer == Spec => []AnswersAreCommitted
<1>1. IInv => AnswersAreCommitted
  BY DEF IInv, AnswerInv, AnswersAreCommitted, Committed
<1>2. QED
  BY <1>1, Invariance, PTL

-----------------------------------------------------------------------------
(* A truth is recorded once, and survives every later revision, if contents fit in *)
(* sanitize_max_len: then an agent that was shown a fact was shown all of it.      *)

ShowsWhole == \A v \in SUBSET Client : Shown(v) = v

\* A call in which c's own truth is about to be added has not added it before.  What other
\* clients do cannot change that: c holds the locks of the facts in question.
LEMMA NewTruthFrame ==
  ASSUME IInv, NEW c \in Client, NewTruth(c),
         items'[c] = items[c], pc'[c] = pc[c], save'[c] = save[c], view'[c] = view[c],
         \A k \in Key : lock[k] = c => fact'[k] = fact[k]
  PROVE  NewTruth(c)'
<1>1. At(c)' = At(c) /\ Base(c)' = Base(c)
  BY DEF At, Base
<1>2. ASSUME NEW k \in Key, save[c].rows[k] # NoRow
      PROVE  lock[k] = c
  BY <1>2 DEF IInv, SavepointInv
<1>3. ASSUME pc[c] \in {"revise", "touch"} \/ (pc[c] = "flush" /\ Base(c) # 0)
      PROVE  lock[At(c)] = c /\ At(c) \in Key
  BY <1>3, AtLemma DEF IInv, ItemInv
<1>4. \A k \in Key : save[c].rows[k] # NoRow => c \notin fact'[k].value
  BY <1>2 DEF NewTruth
<1>5. pc[c] \in {"revise", "touch"} \/ (pc[c] = "flush" /\ Base(c) # 0) => c \notin fact'[At(c)].value
  BY <1>3 DEF NewTruth
<1>6. QED
  BY <1>1, <1>4, <1>5 DEF NewTruth

\* A step that commits nothing only concerns the truth of the client that takes it.
LEMMA OnceStep ==
  ASSUME IInv, OnceInv, NEW c \in Client, UNCHANGED <<fact, revisions>>,
         \A d \in Client \ {c} : /\ items'[d] = items[d] /\ pc'[d] = pc[d]
                                 /\ save'[d] = save[d] /\ view'[d] = view[d],
         NewTruth(c)'
  PROVE  OnceInv'
<1>1. TruthsKept' /\ OncePerTruth'
  BY DEF OnceInv, TruthsKept, OncePerTruth
<1>2. ASSUME NEW d \in Client \ {c}
      PROVE  NewTruth(d)'
  BY NewTruthFrame DEF OnceInv
<1>3. QED
  BY <1>1, <1>2 DEF OnceInv

\* A transaction that ends without a commit.
LEMMA OnceRollback ==
  ASSUME IInv, OnceInv, NEW c \in Client, Rollback(c)
  PROVE  OnceInv'
<1>1. pc'[c] = "idle" /\ save'[c] = NoSave
  BY DEF Rollback, EndTransaction, IInv, TypeOK
<1>2. NewTruth(c)'
  BY <1>1 DEF NewTruth, NoSave, NoRows
<1>3. \A d \in Client \ {c} : /\ items'[d] = items[d] /\ pc'[d] = pc[d]
                              /\ save'[d] = save[d] /\ view'[d] = view[d]
  BY DEF Rollback, EndTransaction, IInv, TypeOK
<1>4. QED
  BY <1>2, <1>3, OnceStep DEF Rollback

\* An item that ends: what the savepoint has of flushed rows is what it had, or what the
\* transaction has.
LEMMA OnceItem ==
  ASSUME IInv, OnceInv, NEW c \in Client, pc[c] \in {"lock", "flush", "revise", "touch"}, NextItem(c),
         UNCHANGED <<fact, revisions, view>>,
         \A d \in Client \ {c} : save'[d] = save[d],
         \A k \in Key : save'[c].rows[k] # NoRow => c \notin fact[k].value
  PROVE  OnceInv'
<1>1. pc'[c] = "commit" \/ pc'[c] = "lock"
  BY NextItemLemma
<1>2. NewTruth(c)'
  BY <1>1 DEF NewTruth
<1>3. \A d \in Client \ {c} : items'[d] = items[d] /\ pc'[d] = pc[d]
  BY NextItemLemma
<1>4. QED
  BY <1>2, <1>3, OnceStep

\* The unchanged check: an agent that goes on to flush its truth of a fact it was shown
\* the whole of was not shown that truth in it.
LEMMA OnceLock ==
  ASSUME ShowsWhole, IInv, OnceInv, NEW c \in Client, LockFact(c)
  PROVE  OnceInv'
<1>0. At(c) \in Key /\ At(c) \in Lockable
  BY AtLemma DEF LockFact
<1>1. pc'[c] = "flush" /\ At(c)' = At(c) /\ Base(c)' = Base(c)
  BY DEF LockFact, IInv, TypeOK, At, Base
<1>2. Visible(c) = fact[At(c)]
  BY NothingFlushedLemma DEF LockFact
<1>3. view[c][At(c)] = AsShown(fact[At(c)])
  BY <1>0, <1>2, CurrentLemma DEF LockFact, Base
<1>4. fact[At(c)].value \in SUBSET Client
  BY <1>0 DEF IInv, TypeOK, Row
<1>5. view[c][At(c)].value = fact[At(c)].value
  BY <1>3, <1>4 DEF AsShown, ShowsWhole
<1>6. c \notin fact[At(c)].value
  BY <1>2, <1>5 DEF LockFact, Merged
<1>7. NewTruth(c)
  BY DEF OnceInv
<1>8. NewTruth(c)'
  BY <1>1, <1>6, <1>7 DEF NewTruth, LockFact
<1>9. \A d \in Client \ {c} : /\ items'[d] = items[d] /\ pc'[d] = pc[d]
                              /\ save'[d] = save[d] /\ view'[d] = view[d]
  BY DEF LockFact, IInv, TypeOK
<1>10. QED
  BY <1>8, <1>9, OnceStep DEF LockFact

\* A row that is flushed is an UPDATE of the fact that was locked, or the first of its key.
LEMMA OnceFlush ==
  ASSUME IInv, OnceInv, NEW c \in Client, FlushFact(c)
  PROVE  OnceInv'
<1>1. pc'[c] = "revise" /\ At(c)' = At(c)
  BY DEF FlushFact, IInv, TypeOK, At
<1>2. NewTruth(c)
  BY DEF OnceInv
<1>3. c \notin fact[At(c)].value
  BY <1>2 DEF NewTruth, FlushFact, NoRow
<1>4. NewTruth(c)'
  BY <1>1, <1>2, <1>3 DEF NewTruth, FlushFact
<1>5. \A d \in Client \ {c} : /\ items'[d] = items[d] /\ pc'[d] = pc[d]
                              /\ save'[d] = save[d] /\ view'[d] = view[d]
  BY DEF FlushFact, IInv, TypeOK
<1>6. QED
  BY <1>4, <1>5, OnceStep DEF FlushFact

\* The row that was flushed joins the savepoint.
LEMMA OnceWritten ==
  ASSUME IInv, OnceInv, NEW c \in Client, pc[c] \in {"revise", "touch"}, Written(c),
         UNCHANGED <<fact, revisions, view, rows>>
  PROVE  OnceInv'
<1>1. NewTruth(c)
  BY DEF OnceInv
<1>2. save'[c].rows = rows[c] /\ \A d \in Client \ {c} : save'[d] = save[d]
  BY DEF Written, ReleaseSavepoint, IInv, TypeOK
<1>3. /\ save[c].rows \in [Key -> Row]
      /\ rows[c] = [save[c].rows EXCEPT ![At(c)] = Successor(c, At(c))]
  BY FlushedLemma
<1>4. ASSUME NEW k \in Key, save'[c].rows[k] # NoRow
      PROVE  c \notin fact[k].value
  <2>1. CASE k = At(c)
    BY <2>1, <1>1 DEF NewTruth
  <2>2. CASE k # At(c)
    BY <2>2, <1>1, <1>2, <1>3, <1>4 DEF NewTruth
  <2>3. QED
    BY <2>1, <2>2
<1>5. QED
  BY <1>2, <1>4, OnceItem DEF Written, ReleaseSavepoint

\* The revision is added, or an event touched.
LEMMA OnceRevise ==
  ASSUME IInv, OnceInv, NEW c \in Client,
         (\E cited \in Citations : AddRevision(c, cited)) \/ TouchRawEvent(c)
  PROVE  OnceInv'
<1>1. /\ pc[c] \in {"revise", "touch"} /\ UNCHANGED <<fact, revisions, view, rows>>
      /\ \/ Written(c)
         \/ /\ UNCHANGED <<items, save>>
            /\ pc' = [pc EXCEPT ![c] = "touch"] \/ (pc' = pc /\ pc[c] = "touch")
  BY DEF AddRevision, TouchRawEvent
<1>2. CASE Written(c)
  BY <1>1, <1>2, OnceWritten
<1>3. CASE ~Written(c)
  <2>1. UNCHANGED <<items, save>> /\ pc'[c] = "touch" /\ \A d \in Client \ {c} : pc'[d] = pc[d]
    BY <1>1, <1>3 DEF IInv, TypeOK
  <2>2. At(c)' = At(c) /\ NewTruth(c)
    BY <2>1 DEF At, OnceInv
  <2>3. NewTruth(c)'
    BY <1>1, <2>1, <2>2 DEF NewTruth
  <2>4. QED
    BY <1>1, <2>1, <2>3, OnceStep
<1>4. QED
  BY <1>2, <1>3

\* A commit adds to each key it writes one revision, by a client none of whose truths were
\* in the fact before.
LEMMA OnceCommit ==
  ASSUME ShowsWhole, IInv, OnceInv, NEW c \in Client, NEW delivered \in BOOLEAN,
         Commit(c, delivered)
  PROVE  OnceInv'
<1>1. ASSUME NEW k \in Key
      PROVE  /\ \A n \in 1..Len(revisions'[k]) :
                  /\ revisions'[k][n].value
                       = revisions'[k][n].read \cup {revisions'[k][n].by}
                  /\ revisions'[k][n].by \in fact'[k].value
             /\ \A m, n \in 1..Len(revisions'[k]) :
                  revisions'[k][m].by = revisions'[k][n].by => m = n
  <2> DEFINE n0 == Len(revisions[k])
  <2>1. /\ n0 \in Nat /\ fact[k].value \in SUBSET Client
        /\ \A n \in 1..n0 : /\ revisions[k][n].value
                                 = revisions[k][n].read \cup {revisions[k][n].by}
                            /\ revisions[k][n].by \in fact[k].value
        /\ \A m, n \in 1..n0 : revisions[k][m].by = revisions[k][n].by => m = n
    <3>1. revisions[k] \in Seq(Revision) /\ fact[k] \in Row
      BY DEF IInv, TypeOK
    <3>2. n0 \in Nat /\ fact[k].value \in SUBSET Client
      BY <3>1 DEF Row
    <3>3. TruthsKept /\ OncePerTruth
      BY DEF OnceInv
    <3>4. QED
      BY <3>2, <3>3 DEF TruthsKept, OncePerTruth
  <2>2. CASE rows[c][k] = NoRow
    <3>1. fact'[k] = fact[k] /\ revisions'[k] = revisions[k]
      BY <2>2, CommitLemma
    <3>2. QED
      BY <2>1, <3>1
  <2>3. CASE rows[c][k] # NoRow
    <3>1. c \notin fact[k].value
      <4>1. rows[c] = save[c].rows
        BY DEF Commit, IInv, ItemInv
      <4>2. QED
        BY <4>1, <2>3 DEF OnceInv, NewTruth
    <3>2. fact'[k].value = fact[k].value \cup {c}
      <4>1. fact'[k] = Successor(c, k)
        BY <2>3, CommitLemma
      <4>2. QED
        BY <4>1, <2>1 DEF Successor, ShowsWhole
    <3>3. /\ Len(revisions'[k]) = n0 + 1
          /\ \A n \in 1..n0 : revisions'[k][n] = revisions[k][n]
          /\ revisions'[k][n0 + 1] = NewRevision(c, k)
      BY <2>3, CommitAppends
    <3>4. /\ revisions'[k][n0 + 1].by = c
          /\ revisions'[k][n0 + 1].value = revisions'[k][n0 + 1].read \cup {c}
      BY <3>3 DEF NewRevision
    <3>5. ASSUME NEW n \in 1..(n0 + 1)
          PROVE  n = n0 + 1 \/ (n \in 1..n0 /\ revisions'[k][n] = revisions[k][n])
      BY <3>3, <2>1
    <3>6. ASSUME NEW n \in 1..(n0 + 1)
          PROVE  /\ revisions'[k][n].value
                      = revisions'[k][n].read \cup {revisions'[k][n].by}
                 /\ revisions'[k][n].by \in fact'[k].value
                 /\ revisions'[k][n].by = c => n = n0 + 1
      <4>1. CASE n = n0 + 1
        BY <4>1, <3>2, <3>4
      <4>2. CASE n \in 1..n0 /\ revisions'[k][n] = revisions[k][n]
        BY <4>2, <2>1, <3>1, <3>2
      <4>3. QED
        BY <4>1, <4>2, <3>5
    <3>7. ASSUME NEW m \in 1..(n0 + 1), NEW n \in 1..(n0 + 1),
                 revisions'[k][m].by = revisions'[k][n].by
          PROVE  m = n
      <4>1. CASE revisions'[k][m].by = c
        BY <4>1, <3>6, <3>7
      <4>2. CASE revisions'[k][m].by # c
        BY <4>2, <2>1, <3>4, <3>5, <3>7
      <4>3. QED
        BY <4>1, <4>2
    <3>8. QED
      BY <3>3, <3>6, <3>7
  <2>4. QED
    BY <2>2, <2>3
<1>2. ASSUME NEW d \in Client \ {c}
      PROVE  NewTruth(d)'
  <2>1. NewTruth(d)
    BY DEF OnceInv
  <2>2. items'[d] = items[d] /\ pc'[d] = pc[d] /\ save'[d] = save[d] /\ view'[d] = view[d]
    BY DEF Commit, EndTransaction, IInv, TypeOK
  <2>3. ASSUME NEW k \in Key, lock[k] = d
        PROVE  fact'[k] = fact[k]
    BY <2>3, CommitLemma
  <2>4. QED
    BY <2>1, <2>2, <2>3, NewTruthFrame
<1>3. NewTruth(c)'
  <2>1. pc'[c] = "idle" /\ save'[c] = NoSave
    BY DEF Commit, EndTransaction, IInv, TypeOK
  <2>2. QED
    BY <2>1 DEF NewTruth, NoSave, NoRows
<1>4. TruthsKept' /\ OncePerTruth'
  BY <1>1 DEF TruthsKept, OncePerTruth
<1>5. QED
  BY <1>2, <1>3, <1>4 DEF OnceInv

\* Every step keeps the truths and adds none twice.
LEMMA OnceNext ==
  ASSUME ShowsWhole, IInv, OnceInv, [Next]_vars
  PROVE  OnceInv'
<1>1. CASE UNCHANGED vars
  BY <1>1 DEF vars, OnceInv, TruthsKept, OncePerTruth, NewTruth, At, Base
<1>2. ASSUME NEW c \in Client,
             \/ \E k \in Key : GetFact(c, k)
             \/ \E sent \in Calls : Call(c, sent)
      PROVE  OnceInv'
  <2>1. NewTruth(c)
    BY DEF OnceInv
  <2>2. /\ pc'[c] \in {"idle", "lock"} /\ save'[c] = save[c]
        /\ UNCHANGED <<fact, revisions>>
        /\ \A d \in Client \ {c} : /\ items'[d] = items[d] /\ pc'[d] = pc[d]
                                   /\ save'[d] = save[d] /\ view'[d] = view[d]
    BY <1>2 DEF GetFact, Call, IInv, TypeOK
  <2>3. NewTruth(c)'
    BY <2>1, <2>2 DEF NewTruth
  <2>4. QED
    BY <2>2, <2>3, OnceStep
<1>3. ASSUME NEW c \in Client, Refuse(c) \/ Conflict(c) \/ WrongChange(c)
      PROVE  OnceInv'
  <2>1. pc[c] \in {"lock", "flush", "revise", "touch"} /\ RollbackToSavepoint(c)
    BY <1>3 DEF Refuse, Conflict, WrongChange
  <2>2. QED
    BY <2>1, OnceItem DEF RollbackToSavepoint, OnceInv, NewTruth
<1>4. ASSUME NEW c \in Client, Unchanged(c)
      PROVE  OnceInv'
  <2>1. /\ pc[c] = "lock" /\ NextItem(c) /\ UNCHANGED <<fact, revisions, view>>
        /\ save'[c].rows = save[c].rows /\ \A d \in Client \ {c} : save'[d] = save[d]
    BY <1>4 DEF Unchanged, ReleaseSavepoint, IInv, TypeOK, ItemInv
  <2>2. QED
    BY <2>1, OnceItem DEF OnceInv, NewTruth
<1>5. ASSUME NEW c \in Client,
             \/ LockFact(c) \/ FlushFact(c) \/ TouchRawEvent(c)
             \/ \E cited \in Citations : AddRevision(c, cited)
      PROVE  OnceInv'
  BY <1>5, OnceLock, OnceFlush, OnceRevise
<1>6. ASSUME NEW c \in Client, NEW delivered \in BOOLEAN, Commit(c, delivered)
      PROVE  OnceInv'
  BY <1>6, OnceCommit
<1>7. ASSUME NEW c \in Client, UniqueViolation(c) \/ Fail(c) \/ DeadlockVictim(c)
      PROVE  OnceInv'
  BY <1>7, OnceRollback DEF UniqueViolation, Fail, DeadlockVictim
<1>8. QED
  BY <1>1, <1>2, <1>3, <1>4, <1>5, <1>6, <1>7 DEF Next, Work

\* The invariant of a store whose readers are given whole values.
LEMMA OnceInvariance ==
  ASSUME ShowsWhole
  PROVE  Spec => []OnceInv
<1>1. Init => OnceInv
  BY DEF Init, OnceInv, TruthsKept, OncePerTruth, NewTruth, NoRevs, NoRows, NoSave
<1>2. IInv /\ OnceInv /\ [Next]_vars => OnceInv'
  BY OnceNext
<1>3. QED
  BY <1>1, <1>2, Invariance, PTL DEF Spec

\* A truth is recorded once: whoever sends a truth again, because the answer was lost, is
\* told that nothing changed, and makes no second revision of it.
THEOREM TruthsAreRecordedOnce ==
  ASSUME ShowsWhole
  PROVE  Spec => []OncePerTruth
<1>1. OnceInv => OncePerTruth
  BY DEF OnceInv
<1>2. QED
  BY <1>1, OnceInvariance, PTL

\* What the fact resource asks of agents, to merge into what they read, keeps every truth
\* as long as no value outgrows what is shown of it; MCFactMerge is what happens when one
\* does.
THEOREM WholeMergesSurvive ==
  ASSUME ShowsWhole
  PROVE  Spec => []MergesSurvive
<1>1. ASSUME IInv, OnceInv
      PROVE  MergesSurvive
  <2> SUFFICES ASSUME NEW k \in Key, NEW n \in 2..Len(revisions[k])
               PROVE  revisions[k][n - 1].value \subseteq revisions[k][n].value
    BY DEF MergesSurvive
  <2>1. /\ revisions[k] \in Seq(Revision) /\ Len(revisions[k]) \in Nat
    BY <1>1 DEF IInv, TypeOK
  <2>2. n \in 1..Len(revisions[k]) /\ n # 1 /\ n - 1 \in 1..Len(revisions[k])
    BY <2>1
  <2>3. revisions[k][n].read = Shown(revisions[k][n - 1].value)
    BY <1>1, <2>2 DEF IInv, FactInv, NoLostUpdate
  <2>4. revisions[k][n - 1].value \in SUBSET Client
    <3>1. \A m \in 1..Len(revisions[k]) : revisions[k][m] \in Revision
      BY <2>1, ElementOfSeq
    <3>2. revisions[k][n - 1] \in Revision
      BY <3>1, <2>2
    <3>3. QED
      BY <3>2 DEF Revision
  <2>5. revisions[k][n].value = revisions[k][n].read \cup {revisions[k][n].by}
    BY <1>1, <2>2 DEF OnceInv, TruthsKept
  <2>6. QED
    BY <2>3, <2>4, <2>5 DEF ShowsWhole
<1>2. QED
  BY <1>1, Invariance, OnceInvariance, PTL

-----------------------------------------------------------------------------
(* A call of a single item, whose sources cite one raw event at most, is never a victim of *)
(* the deadlock detector.                                                                  *)

\* At most one source of an item cites a raw event.
CitesOneAtMost == Citations \subseteq {<<>>} \cup {<<e>> : e \in Event}

\* What the invariant says of one call.
SingleCall(c) ==
  /\ pc[c] \in {"lock", "flush", "revise", "touch"} => Len(items[c]) = 1
  /\ pc[c] \in {"idle", "lock"} => \A k \in Key : lock[k] # c
  /\ pc[c] = "flush" /\ Base(c) = 0 => \A k \in Key : lock[k] # c
  /\ pc[c] # "commit" => \A e \in Event : lock[e] # c
  /\ pc[c] = "touch" => Tail(cites[c]) = <<>>

\* No step of another call disturbs that, as it gives c no lock.
LEMMA SingleStep ==
  ASSUME IInv, SingleInv, NEW c \in Client,
         \A d \in Client \ {c} : /\ items'[d] = items[d] /\ pc'[d] = pc[d]
                                 /\ view'[d] = view[d] /\ cites'[d] = cites[d],
         \A r \in Lockable : lock'[r] \in {lock[r], Free, c},
         SingleCall(c)'
  PROVE  SingleInv'
<1>1. ASSUME NEW d \in Client \ {c}
      PROVE  SingleCall(d)'
  <2>1. SingleCall(d) /\ At(d)' = At(d) /\ Base(d)' = Base(d)
    BY DEF SingleInv, SingleCall, At, Base
  <2>2. /\ (\A k \in Key : lock[k] # d) => (\A k \in Key : lock'[k] # d)
        /\ (\A e \in Event : lock[e] # d) => (\A e \in Event : lock'[e] # d)
    BY ClientAssumption DEF Lockable
  <2>3. QED
    BY <2>1, <2>2 DEF SingleCall
<1>2. QED
  BY <1>1 DEF SingleInv, SingleCall

\* The end of a transaction.
LEMMA SingleEnd ==
  ASSUME IInv, SingleInv, NEW c \in Client, EndTransaction(c),
         \A d \in Client \ {c} : view'[d] = view[d]
  PROVE  SingleInv'
<1>1. /\ pc'[c] = "idle"
      /\ \A k \in Key : lock'[k] # c
      /\ \A e \in Event : lock'[e] # c
  BY ClientAssumption DEF EndTransaction, IInv, TypeOK, Lockable
<1>2. SingleCall(c)'
  BY <1>1 DEF SingleCall
<1>3. \A d \in Client \ {c} :
        items'[d] = items[d] /\ pc'[d] = pc[d] /\ cites'[d] = cites[d]
  BY DEF EndTransaction, IInv, TypeOK
<1>4. \A r \in Lockable : lock'[r] \in {lock[r], Free, c}
  BY DEF EndTransaction
<1>5. QED
  BY <1>2, <1>3, <1>4, SingleStep

\* The end of the only item is the beginning of the commit.
LEMMA SingleItem ==
  ASSUME IInv, SingleInv, NEW c \in Client, pc[c] \in {"lock", "flush", "revise", "touch"},
         NextItem(c), view' = view,
         \A r \in Lockable : lock'[r] \in {lock[r], Free, c}
  PROVE  SingleInv'
<1>1. pc'[c] = "commit"
  BY DEF SingleInv, NextItem, IInv, TypeOK
<1>2. SingleCall(c)'
  BY <1>1 DEF SingleCall
<1>3. \A d \in Client \ {c} :
        items'[d] = items[d] /\ pc'[d] = pc[d] /\ cites'[d] = cites[d]
  BY NextItemLemma
<1>4. QED
  BY <1>2, <1>3, SingleStep

\* The look at the fact locks nothing if there is no row, which is when the base is 0.
LEMMA SingleLock ==
  ASSUME IInv, SingleInv, NEW c \in Client, LockFact(c)
  PROVE  SingleInv'
<1>1. At(c) \in Key /\ pc[c] = "lock"
  BY AtLemma DEF LockFact
<1>2. /\ pc'[c] = "flush" /\ items' = items /\ view' = view /\ Base(c)' = Base(c)
      /\ \A d \in Client \ {c} : pc'[d] = pc[d] /\ cites'[d] = cites[d]
  BY DEF LockFact, IInv, TypeOK, At, Base
<1>3. lock' = lock \/ (lock' = [lock EXCEPT ![At(c)] = c] /\ Visible(c) # NoRow)
  BY DEF LockFact
<1>4. ASSUME Base(c) = 0
      PROVE  \A k \in Key : lock'[k] # c
  <2>1. Visible(c) = fact[At(c)] /\ Visible(c).revision = 0
    BY <1>4, NothingFlushedLemma DEF LockFact
  <2>2. Visible(c) = NoRow
    BY <2>1, <1>1 DEF IInv, FactInv
  <2>3. lock' = lock
    BY <1>3, <2>2
  <2>4. QED
    BY <2>3, <1>1 DEF SingleInv
<1>5. Len(items[c]) = 1 /\ \A e \in Event : lock'[e] # c
  BY <1>1, <1>3, EventAssumption DEF SingleInv, IInv, TypeOK, Lockable
<1>6. SingleCall(c)'
  BY <1>2, <1>4, <1>5 DEF SingleCall
<1>7. \A r \in Lockable : lock'[r] \in {lock[r], Free, c}
  BY <1>3 DEF IInv, TypeOK
<1>8. QED
  BY <1>2, <1>6, <1>7, SingleStep

\* The flush takes the fact's row, if the call does not have it.
LEMMA SingleFlush ==
  ASSUME IInv, SingleInv, NEW c \in Client, FlushFact(c)
  PROVE  SingleInv'
<1>1. At(c) \in Key /\ pc[c] = "flush"
  BY AtLemma DEF FlushFact
<1>2. /\ pc'[c] = "revise" /\ items' = items /\ view' = view
      /\ \A d \in Client \ {c} : pc'[d] = pc[d] /\ cites'[d] = cites[d]
  BY DEF FlushFact, IInv, TypeOK
<1>3. lock' = [lock EXCEPT ![At(c)] = c]
  BY DEF FlushFact
<1>4. Len(items[c]) = 1 /\ \A e \in Event : lock'[e] # c
  BY <1>1, <1>3, EventAssumption DEF SingleInv, IInv, TypeOK, Lockable
<1>5. SingleCall(c)'
  BY <1>2, <1>4 DEF SingleCall
<1>6. \A r \in Lockable : lock'[r] \in {lock[r], Free, c}
  BY <1>3 DEF IInv, TypeOK
<1>7. QED
  BY <1>2, <1>5, <1>6, SingleStep

\* The revision locks nothing, and has one event at most to touch; a touch is the last step
\* of the item.
LEMMA SingleRevise ==
  ASSUME CitesOneAtMost,
         IInv, SingleInv, NEW c \in Client,
         (\E cited \in Citations : AddRevision(c, cited)) \/ TouchRawEvent(c)
  PROVE  SingleInv'
<1>1. CASE Written(c)
  <2>1. pc[c] \in {"lock", "flush", "revise", "touch"} /\ NextItem(c) /\ view' = view
    BY <1>1 DEF AddRevision, TouchRawEvent, Written, ReleaseSavepoint
  <2>2. \A r \in Lockable : lock'[r] \in {lock[r], Free, c}
    BY DEF AddRevision, TouchRawEvent, IInv, TypeOK
  <2>3. QED
    BY <2>1, <2>2, SingleItem
<1>2. CASE ~Written(c)
  <2>1. ~TouchRawEvent(c)
    BY <1>2 DEF TouchRawEvent, SingleInv
  <2>2. PICK cited \in Citations : AddRevision(c, cited)
    BY <2>1
  <2>3. Tail(cited) = <<>>
    <3>1. cited # <<>>
      BY <1>2, <2>2 DEF AddRevision
    <3>2. PICK e \in Event : cited = <<e>>
      BY <3>1 DEF CitesOneAtMost
    <3>3. QED
      BY <3>2
  <2>4. /\ pc[c] = "revise" /\ pc'[c] = "touch" /\ cites'[c] = cited
        /\ UNCHANGED <<lock, items, view>>
        /\ \A d \in Client \ {c} : pc'[d] = pc[d] /\ cites'[d] = cites[d]
    BY <1>2, <2>2 DEF AddRevision, IInv, TypeOK
  <2>5. SingleCall(c)'
    BY <2>3, <2>4 DEF SingleCall, SingleInv
  <2>6. \A r \in Lockable : lock'[r] \in {lock[r], Free, c}
    BY <2>4
  <2>7. QED
    BY <2>4, <2>5, <2>6, SingleStep
<1>3. QED
  BY <1>1, <1>2

\* Calls of one item keep to one item, take the row of the fact before they wait for an
\* event's, and wait for nothing after that.
LEMMA SingleNext ==
  ASSUME MaxItems = 1, CitesOneAtMost, IInv, SingleInv, [Next]_vars
  PROVE  SingleInv'
<1>1. CASE UNCHANGED vars
  BY <1>1 DEF vars, SingleInv, At, Base
<1>2. ASSUME NEW c \in Client, NEW k \in Key, GetFact(c, k)
      PROVE  SingleInv'
  <2>1. /\ UNCHANGED <<items, pc, lock, cites>> /\ pc[c] = "idle"
        /\ \A d \in Client \ {c} : view'[d] = view[d]
    BY <1>2 DEF GetFact, IInv, TypeOK
  <2>2. SingleCall(c)'
    BY <2>1 DEF SingleCall, SingleInv
  <2>3. QED
    BY <2>1, <2>2, SingleStep
<1>3. ASSUME NEW c \in Client, NEW sent \in Calls, Call(c, sent)
      PROVE  SingleInv'
  <2>1. PICK n \in 1..MaxItems : sent \in [1..n -> Item]
    BY DEF Calls
  <2>2. sent \in [1..1 -> Item]
    BY <2>1
  <2>3. Len(sent) = 1
    BY <2>2
  <2>4. /\ pc[c] = "idle" /\ pc'[c] = "lock" /\ items'[c] = sent /\ UNCHANGED <<lock, view, cites>>
        /\ \A d \in Client \ {c} : items'[d] = items[d] /\ pc'[d] = pc[d]
    BY <1>3 DEF Call, IInv, TypeOK
  <2>5. SingleCall(c)'
    BY <2>3, <2>4 DEF SingleCall, SingleInv
  <2>6. QED
    BY <2>4, <2>5, SingleStep
<1>4. ASSUME NEW c \in Client, Refuse(c) \/ Conflict(c) \/ WrongChange(c) \/ Unchanged(c)
      PROVE  SingleInv'
  <2>1. /\ pc[c] \in {"lock", "flush", "revise", "touch"} /\ NextItem(c) /\ view' = view
        /\ RollbackToSavepoint(c) \/ lock' = [lock EXCEPT ![At(c)] = c]
    BY <1>4 DEF Refuse, Conflict, WrongChange, Unchanged, RollbackToSavepoint, ReleaseSavepoint
  <2>2. \A r \in Lockable : lock'[r] \in {lock[r], Free, c}
    BY <2>1 DEF RollbackToSavepoint, IInv, TypeOK
  <2>3. QED
    BY <2>1, <2>2, SingleItem
<1>5. ASSUME NEW c \in Client, LockFact(c) \/ FlushFact(c)
      PROVE  SingleInv'
  BY <1>5, SingleLock, SingleFlush
<1>6. ASSUME NEW c \in Client,
             (\E cited \in Citations : AddRevision(c, cited)) \/ TouchRawEvent(c)
      PROVE  SingleInv'
  BY <1>6, SingleRevise
<1>7. ASSUME NEW c \in Client, NEW delivered \in BOOLEAN, Commit(c, delivered)
      PROVE  SingleInv'
  <2>1. EndTransaction(c) /\ \A d \in Client \ {c} : view'[d] = view[d]
    BY <1>7 DEF Commit, IInv, TypeOK
  <2>2. QED
    BY <2>1, SingleEnd
<1>8. ASSUME NEW c \in Client, UniqueViolation(c) \/ Fail(c) \/ DeadlockVictim(c)
      PROVE  SingleInv'
  <2>1. EndTransaction(c) /\ view' = view
    BY <1>8 DEF UniqueViolation, Fail, DeadlockVictim, Rollback
  <2>2. QED
    BY <2>1, SingleEnd
<1>9. CASE \E c \in Client : Work(c)
  <2>1. PICK c \in Client : Work(c)
    BY <1>9
  <2>2. QED
    BY <2>1, <1>4, <1>5, <1>6, <1>7, <1>8, Zenon DEF Work
<1>10. CASE Next
  <2>1. PICK c \in Client :
          \/ \E k \in Key : GetFact(c, k)
          \/ \E sent \in Calls : Call(c, sent)
          \/ Work(c) \/ Refuse(c) \/ Fail(c) \/ DeadlockVictim(c)
    BY <1>10, Zenon DEF Next
  <2>2. CASE Work(c) \/ Refuse(c) \/ Fail(c) \/ DeadlockVictim(c)
    BY <2>2, <1>4, <1>8, <1>9
  <2>3. QED
    BY <2>1, <2>2, <1>2, <1>3
<1>11. QED
  BY <1>1, <1>10, Zenon

\* Calls of one item whose sources cite one raw event at most never wait in a cycle: nobody
\* who waits has the row of an event, so none of those in a cycle waits for one; and whoever
\* waits for the row of a fact has none.  With two events the order of the sources decides
\* (EveryCallEnds needs the deadlock detector for them as for batches).
THEOREM SingleWritesDoNotDeadlock ==
  ASSUME MaxItems = 1, CitesOneAtMost
  PROVE  Spec => []NoDeadlock
<1>1. ASSUME Init
      PROVE  SingleInv
  <2>1. ASSUME NEW c \in Client
        PROVE  SingleCall(c)
    <3>1. pc[c] = "idle"
      BY <1>1 DEF Init
    <3>2. \A r \in Lockable : lock[r] # c
      BY <1>1, ClientAssumption DEF Init
    <3>3. QED
      BY <3>1, <3>2 DEF SingleCall, Lockable
  <2>2. QED
    BY <2>1 DEF SingleInv, SingleCall
<1>2. IInv /\ SingleInv /\ [Next]_vars => SingleInv'
  BY SingleNext
<1>3. ASSUME IInv, SingleInv
      PROVE  NoDeadlock
  <2>1. SUFFICES ASSUME NEW c \in Client, NEW D \in SUBSET Client, c \in D,
                        \A d \in D : Waits(d),
                        {lock[Wanted(d)] : d \in D} = D
                 PROVE  FALSE
    BY DEF NoDeadlock, Deadlocked
  <2>2. \A d \in D : lock[Wanted(d)] \in D
    BY <2>1
  <2>3. ASSUME NEW d \in D
        PROVE  pc[d] # "touch"
    <3>1. pc[lock[Wanted(d)]] # "commit" /\ lock[Wanted(d)] \in Client
      BY <2>1, <2>2 DEF Waits
    <3>2. \A e \in Event : lock[e] # lock[Wanted(d)]
      BY <1>3, <3>1 DEF SingleInv
    <3>3. pc[d] = "touch" => Wanted(d) \in Event
      <4>1. pc[d] = "touch" => cites[d] \in Seq(Event) /\ cites[d] # <<>>
        BY <1>3, <2>3 DEF IInv, TypeOK, ItemInv
      <4>2. QED
        BY <4>1 DEF Wanted
    <3>4. QED
      BY <3>2, <3>3
  <2>4. ASSUME NEW d \in D
        PROVE  Wanted(d) \in Key /\ \A k \in Key : lock[k] # d
    <3>1. Waits(d) /\ pc[d] # "touch"
      BY <2>1, <2>3
    <3>2. pc[d] = "lock" \/ (pc[d] = "flush" /\ Base(d) = 0)
      BY <3>1 DEF Waits
    <3>3. Wanted(d) \in Key
      BY <1>3, <3>2, AtLemma DEF Wanted
    <3>4. QED
      BY <1>3, <3>2, <3>3 DEF SingleInv
  <2>5. QED
    BY <2>1, <2>2, <2>4
<1>4. QED
  BY <1>1, <1>2, <1>3, Invariance, PTL DEF Spec

-----------------------------------------------------------------------------
(* The store implements the register. *)

\* The newest entry of a key's history is its fact.
LEMMA LatestLemma ==
  ASSUME IInv, NEW k \in Key
  PROVE  Register!Latest(k) = fact[k].value
<1>1. /\ fact[k] \in Row /\ revisions[k] \in Seq(Revision)
      /\ fact[k].revision = 0 => fact[k] = NoRow
      /\ Len(revisions[k]) = fact[k].revision
      /\ fact[k] # NoRow => fact[k].value = revisions[k][fact[k].revision].value
  BY DEF IInv, TypeOK, FactInv, HistoryExplainsFact
<1>2. CASE revisions[k] = <<>>
  BY <1>1, <1>2 DEF Register!Latest, NoRow
<1>3. CASE revisions[k] # <<>>
  BY <1>1, <1>3 DEF Register!Latest, NoRow
<1>4. QED
  BY <1>2, <1>3

\* A step that only moves what an agent has been shown forward is a step of learning.
LEMMA LearnsLemma ==
  ASSUME IInv, IInv', NEW c \in Client,
         \A d \in Client \ {c} : view'[d] = view[d],
         \A k \in Key : view[c][k].revision <= view'[c][k].revision
  PROVE  Register!Learns(c)
<1> DEFINE seen == [k \in Key |-> view'[c][k].revision]
<1>1. ASSUME NEW k \in Key
      PROVE  seen[k] \in 0..Len(revisions'[k])
  <2>1. view'[c][k] \in Row /\ Len(revisions'[k]) \in Nat
    BY DEF IInv, TypeOK
  <2>2. view'[c][k] # NoRow => view'[c][k].revision \in 1..Len(revisions'[k])
    BY DEF IInv, AnswerInv, Committed
  <2>3. QED
    BY <2>1, <2>2 DEF Row, NoRow
<1>2. seen \in [Key -> Register!Numbers']
  BY <1>1 DEF Register!Numbers
<1>3. \A k \in Key : /\ Len(revisions'[k]) \in Nat
                     /\ view[c][k].revision <= seen[k] /\ seen[k] <= Len(revisions'[k])
  BY <1>1 DEF IInv, TypeOK
<1>4. [d \in Client |-> [k \in Key |-> view'[d][k].revision]]
        = [[d \in Client |-> [k \in Key |-> view[d][k].revision]] EXCEPT ![c] = seen]
  OBVIOUS
<1>5. QED
  BY <1>2, <1>3, <1>4 DEF Register!Learns

\* A commit contributes to the keys whose rows it makes visible, and to no other.
LEMMA CommitContributes ==
  ASSUME IInv, IInv', NEW c \in Client, NEW delivered \in BOOLEAN, Commit(c, delivered)
  PROVE  Register!Contribute(c, {k \in Key : rows[c][k] # NoRow})
<1> DEFINE K == {k \in Key : rows[c][k] # NoRow}
<1>1. ASSUME NEW k \in K
      PROVE  view[c][k].revision = Len(revisions[k])
  <2>1. view[c][k] = AsShown(fact[k])
    BY CommitLemma
  <2>2. Len(revisions[k]) = fact[k].revision
    BY DEF IInv, FactInv, HistoryExplainsFact
  <2>3. QED
    BY <2>1, <2>2 DEF AsShown
<1>2. ASSUME NEW k \in Key
      PROVE  revisions'[k] = IF k \in K THEN Append(revisions[k], Register!Entry(c, k))
                                        ELSE revisions[k]
  <2>1. Register!Entry(c, k) = NewRevision(c, k)
    BY LatestLemma DEF Register!Entry, NewRevision
  <2>2. IF rows[c][k] = NoRow
        THEN revisions'[k] = revisions[k]
        ELSE revisions'[k] = Append(revisions[k], NewRevision(c, k))
    BY CommitLemma
  <2>3. QED
    BY <2>1, <2>2
<1>3. revisions' = [k \in Key |-> IF k \in K THEN Append(revisions[k], Register!Entry(c, k))
                                              ELSE revisions[k]]
  BY <1>2 DEF IInv, TypeOK
<1>4. \A d \in Client \ {c} : view'[d] = view[d]
  BY DEF Commit, IInv, TypeOK
<1>5. ASSUME NEW k \in Key
      PROVE  view[c][k].revision <= view'[c][k].revision
  <2>1. view'[c][k] = view[c][k] \/ (view'[c][k] = learned[c][k] /\ learned[c][k] # NoRow)
    BY DEF Commit, IInv, TypeOK
  <2>2. learned[c][k] # NoRow => view[c][k].revision <= learned[c][k].revision
    BY DEF IInv, AnswerInv
  <2>3. view[c][k].revision \in Nat
    BY DEF IInv, TypeOK, Row
  <2>4. QED
    BY <2>1, <2>2, <2>3
<1>6. Register!Learns(c)
  BY <1>4, <1>5, LearnsLemma
<1>7. QED
  BY <1>1, <1>3, <1>6 DEF Register!Contribute

\* The empty memory is the empty register.
LEMMA RegisterInit == Init => Register!Init
  BY DEF Init, Register!Init, NoRevs, NoRows, NoRow

\* Every step of the store is a step of the register, or none of its business.
LEMMA RegisterNext ==
  ASSUME IInv, IInv', [Next]_vars
  PROVE  [Register!Next]_<<revisions, [c \in Client |-> [k \in Key |-> view[c][k].revision]]>>
<1>1. CASE UNCHANGED <<revisions, view>>
  BY <1>1
<1>2. ASSUME NEW c \in Client, NEW key \in Key, GetFact(c, key)
      PROVE  Register!Learn(c)
  <2>1. \A d \in Client \ {c} : view'[d] = view[d]
    BY <1>2 DEF GetFact, IInv, TypeOK
  <2>2. ASSUME NEW k \in Key
        PROVE  view[c][k].revision <= view'[c][k].revision
    <3>1. /\ fact[k] \in Row /\ view[c][k] \in Row /\ Len(revisions[k]) = fact[k].revision
          /\ view[c][k] # NoRow => view[c][k].revision \in 1..Len(revisions[k])
      BY DEF IInv, TypeOK, AnswerInv, Committed, FactInv, HistoryExplainsFact
    <3>2. view'[c][k] = view[c][k] \/ view'[c][k] = AsShown(fact[k])
      BY <1>2 DEF GetFact, IInv, TypeOK
    <3>3. QED
      BY <3>1, <3>2 DEF AsShown, Row, NoRow
  <2>3. Register!Learns(c)
    BY <2>1, <2>2, LearnsLemma
  <2>4. QED
    BY <2>3, <1>2 DEF GetFact, Register!Learn
<1>3. ASSUME NEW c \in Client, NEW delivered \in BOOLEAN, Commit(c, delivered)
      PROVE  Register!Next
  BY <1>3, CommitContributes DEF Register!Next
<1>4. ASSUME NEW c \in Client,
             \/ \E sent \in Calls : Call(c, sent)
             \/ Refuse(c) \/ Conflict(c) \/ WrongChange(c) \/ Unchanged(c) \/ LockFact(c)
             \/ FlushFact(c) \/ TouchRawEvent(c)
             \/ \E cited \in Citations : AddRevision(c, cited)
             \/ UniqueViolation(c) \/ Fail(c) \/ DeadlockVictim(c)
      PROVE  UNCHANGED <<revisions, view>>
  BY <1>4 DEF Call, Refuse, Conflict, WrongChange, Unchanged, LockFact, FlushFact, AddRevision,
     TouchRawEvent, UniqueViolation, Fail, DeadlockVictim, RollbackToSavepoint, Rollback
<1>5. QED
  BY <1>1, <1>2, <1>3, <1>4 DEF Next, Work, vars, Register!Next

\* What FactRegister promises its agents is what the service, its locks, its savepoints and
\* the database's constraints give them.
THEOREM StoreImplementsRegister == Spec => ImplementsRegister
<1>1. IInv /\ IInv' /\ [Next]_vars =>
        [Register!Next]_<<revisions, [c \in Client |-> [k \in Key |-> view[c][k].revision]]>>
  BY RegisterNext
<1>2. QED
  BY <1>1, RegisterInit, Invariance, PTL DEF Spec, ImplementsRegister, Register!Spec
=============================================================================
