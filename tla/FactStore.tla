------------------------------ MODULE FactStore ------------------------------
(***************************************************************************)
(* L3 facts: write_fact and write_facts of services/fact_service.py, each  *)
(* call one database transaction at READ COMMITTED (mcp_server._run,       *)
(* routers/common.run).                                                    *)
(*                                                                         *)
(* A call is a sequence of items.  write_fact is a call of one item;       *)
(* write_facts runs each item in a savepoint of the same transaction.  A   *)
(* step of this module is what happens between two statements that reach   *)
(* the database, so calls of different clients interleave there.           *)
(*                                                                         *)
(* A value stands for title, summary, content, status and attrs together:  *)
(* the set of the clients whose truth has been merged into it.  An agent   *)
(* that writes k sends what it was last shown of k, merged with its own    *)
(* truth, and the revision it was shown as base_revision.                  *)
(*                                                                         *)
(* A revision's sources may cite raw events.  write_fact touches them one  *)
(* by one, with the fact's row locked and in the order the caller gave:    *)
(* what a touch does to the event is in RawRetention, that it locks the    *)
(* event's row and may wait for it is here.                                *)
(***************************************************************************)
EXTENDS Naturals, Sequences

CONSTANTS Client,     \* the agents; each has at most one call in flight
          Key,        \* fact keys of one project
          MaxItems,   \* MAX_BATCH
          Event,      \* raw_event_ids
          Citations,  \* the raw events an item's sources cite, in the order of the sources
          Free,       \* the owner of a row lock nobody holds
          Shown(_)    \* sanitize_and_truncate: the part of a value a reader is given

ASSUME ClientAssumption == Free \notin Client
ASSUME MaxItemsAssumption == MaxItems \in Nat \ {0}
ASSUME EventAssumption == Key \cap Event = {}
ASSUME CitationsAssumption == Citations # {} /\ Citations \subseteq Seq(Event)
ASSUME ShownAssumption == \A v \in SUBSET Client : Shown(v) \in SUBSET v

VARIABLES
  fact,       \* committed l3_facts: the row of each key, or NoRow
  revisions,  \* committed l3_revisions: the entries of each key, by revision
  lock,       \* holder of the row lock of a key or a raw event, or of a key's uncommitted
              \* unique-index entry
  view,       \* what each agent was last shown of each key
  items,      \* the items the call of a client still has to process
  pc,         \* where in write_fact the client's current item is
  rows,       \* fact rows the open transaction has flushed, seen by itself only
  revs,       \* revision rows the open transaction has flushed
  cites,      \* the raw events the current item still has to touch
  save,       \* the savepoint of the current item
  learned     \* the rows in the answer being put together

vars == <<fact, revisions, lock, view, items, pc, rows, revs, cites, save, learned>>

Lockable == Key \cup Event
Row == [revision : Nat, value : SUBSET Client]
NoRow == [revision |-> 0, value |-> {}]
Revision == [by : Client, read : SUBSET Client, value : SUBSET Client]
Item == [key : Key, create : BOOLEAN]
Savepoint == [rows : [Key -> Row], revs : [Key -> Seq(Revision)],
              held : SUBSET Lockable]

NoRows == [k \in Key |-> NoRow]
NoRevs == [k \in Key |-> <<>>]
NoSave == [rows |-> NoRows, revs |-> NoRevs, held |-> {}]

TypeOK ==
  /\ fact \in [Key -> Row]
  /\ revisions \in [Key -> Seq(Revision)]
  /\ lock \in [Lockable -> Client \cup {Free}]
  /\ view \in [Client -> [Key -> Row]]
  /\ items \in [Client -> Seq(Item)]
  /\ pc \in [Client -> {"idle", "lock", "flush", "revise", "touch", "commit"}]
  /\ rows \in [Client -> [Key -> Row]]
  /\ revs \in [Client -> [Key -> Seq(Revision)]]
  /\ cites \in [Client -> Seq(Event)]
  /\ save \in [Client -> Savepoint]
  /\ learned \in [Client -> [Key -> Row]]

Init ==
  /\ fact = NoRows
  /\ revisions = NoRevs
  /\ lock = [r \in Lockable |-> Free]
  /\ view = [c \in Client |-> NoRows]
  /\ items = [c \in Client |-> <<>>]
  /\ pc = [c \in Client |-> "idle"]
  /\ rows = [c \in Client |-> NoRows]
  /\ revs = [c \in Client |-> NoRevs]
  /\ cites = [c \in Client |-> <<>>]
  /\ save = [c \in Client |-> NoSave]
  /\ learned = [c \in Client |-> NoRows]

-----------------------------------------------------------------------------
(* What the steps are made of. *)

\* The key of the item client c is at, and the base_revision and value it sent.
At(c) == items[c][1].key
Base(c) == view[c][At(c)].revision
Merged(c) == view[c][At(c)].value \cup {c}

\* The row _lock_fact finds: the transaction's own flushed row, else the committed one.
Visible(c) == IF rows[c][At(c)] # NoRow THEN rows[c][At(c)] ELSE fact[At(c)]

\* Mutant: the dictionary leaves the value out.
AsShownNoValue(row) == [revision |-> row.revision]

\* fact_to_dict: every answer that carries a fact carries it as it is shown.
AsShown(row) == [revision |-> row.revision, value |-> Shown(row.value)]

\* FOR UPDATE locks the row it finds and waits for its lock; it locks nothing if
\* there is no row.
CanLock(c) == Visible(c) = NoRow \/ lock[At(c)] \in {Free, c}

\* The item is over: on to the next one, or to the commit.
NextItem(c) ==
  /\ items' = [items EXCEPT ![c] = Tail(@)]
  /\ cites' = [cites EXCEPT ![c] = <<>>]
  /\ pc' = [pc EXCEPT ![c] = IF Len(items[c]) = 1 THEN "commit" ELSE "lock"]

\* begin_nested exits normally: its rows and locks stay with the transaction.
ReleaseSavepoint(c) ==
  /\ save' = [save EXCEPT ![c] = [rows |-> rows'[c], revs |-> revs'[c],
                                  held |-> {r \in Lockable : lock'[r] = c}]]
  /\ NextItem(c)

\* Mutant: the items of a batch run without begin_nested.
RollbackKeepsRows(c) ==
  /\ NextItem(c)
  /\ UNCHANGED <<fact, revisions, lock, view, rows, revs, save>>

\* begin_nested exits by an exception: what the item flushed and locked is undone.
RollbackToSavepoint(c) ==
  /\ rows' = [rows EXCEPT ![c] = save[c].rows]
  /\ revs' = [revs EXCEPT ![c] = save[c].revs]
  /\ lock' = [r \in Lockable |-> IF lock[r] = c /\ r \notin save[c].held THEN Free ELSE lock[r]]
  /\ NextItem(c)
  /\ UNCHANGED <<fact, revisions, view, save>>

\* Mutant: the connection goes back to its pool with the transaction open.
EndKeepsLocks(c) ==
  /\ items' = [items EXCEPT ![c] = <<>>]
  /\ pc' = [pc EXCEPT ![c] = "idle"]
  /\ rows' = [rows EXCEPT ![c] = NoRows]
  /\ revs' = [revs EXCEPT ![c] = NoRevs]
  /\ cites' = [cites EXCEPT ![c] = <<>>]
  /\ save' = [save EXCEPT ![c] = NoSave]
  /\ learned' = [learned EXCEPT ![c] = NoRows]
  /\ UNCHANGED lock

\* The end of a transaction, committed or not: its locks and its private state go.
EndTransaction(c) ==
  /\ items' = [items EXCEPT ![c] = <<>>]
  /\ pc' = [pc EXCEPT ![c] = "idle"]
  /\ rows' = [rows EXCEPT ![c] = NoRows]
  /\ revs' = [revs EXCEPT ![c] = NoRevs]
  /\ cites' = [cites EXCEPT ![c] = <<>>]
  /\ save' = [save EXCEPT ![c] = NoSave]
  /\ learned' = [learned EXCEPT ![c] = NoRows]
  /\ lock' = [r \in Lockable |-> IF lock[r] = c THEN Free ELSE lock[r]]

\* Mutant: the failed call still answers what its items were answered.
RollbackAnswers(c) ==
  /\ EndTransaction(c)
  /\ view' = [view EXCEPT ![c] = [k \in Key |-> IF learned[c][k] # NoRow
                                                 THEN learned[c][k] ELSE view[c][k]]]
  /\ UNCHANGED <<fact, revisions>>

\* An exception that leaves write_facts, or a lost connection: nothing is written and
\* the caller is told nothing about any item.
Rollback(c) == EndTransaction(c) /\ UNCHANGED <<fact, revisions, view>>

-----------------------------------------------------------------------------
(* The steps of a call. *)

\* Mutant: the oldest revision is answered.
GetFirst(c, k) ==
  /\ pc[c] = "idle"
  /\ fact[k] # NoRow
  /\ view' = [view EXCEPT ![c][k] = [revision |-> 1, value |-> Shown(revisions[k][1].value)]]
  /\ UNCHANGED <<fact, revisions, lock, items, pc, rows, revs, cites, save, learned>>

\* get_fact: an agent looks a fact up.  A key without a row answers not_found.
GetFact(c, k) ==
  /\ pc[c] = "idle"
  /\ fact[k] # NoRow
  /\ view' = [view EXCEPT ![c][k] = AsShown(fact[k])]
  /\ UNCHANGED <<fact, revisions, lock, items, pc, rows, revs, cites, save, learned>>

\* The call arrives and its transaction begins.
Call(c, sent) ==
  /\ pc[c] = "idle"
  /\ items' = [items EXCEPT ![c] = sent]
  /\ pc' = [pc EXCEPT ![c] = "lock"]
  /\ UNCHANGED <<fact, revisions, lock, view, rows, revs, cites, save, learned>>

\* An item refused for its own sake: the key rule or a field before the lock, an
\* unknown source_key before the flush, a malformed raw_event_id after the revision
\* was added and sources before it have touched theirs.
Refuse(c) ==
  /\ pc[c] \in {"lock", "flush", "revise", "touch"}
  /\ RollbackToSavepoint(c)
  /\ UNCHANGED learned

\* RevisionConflict: somebody wrote since the agent read; the answer has the fact.
Conflict(c) ==
  /\ pc[c] = "lock" /\ CanLock(c)
  /\ Base(c) # Visible(c).revision
  /\ RollbackToSavepoint(c)
  /\ learned' = [learned EXCEPT ![c][At(c)] = AsShown(Visible(c))]

\* change_type create for a fact that exists, or anything else for one that does not.
WrongChange(c) ==
  /\ pc[c] = "lock" /\ CanLock(c)
  /\ Base(c) = Visible(c).revision
  /\ items[c][1].create # (Visible(c) = NoRow)
  /\ RollbackToSavepoint(c)
  /\ UNCHANGED learned

\* _same_value: nothing to write.  The row stays locked until the transaction ends.
Unchanged(c) ==
  /\ pc[c] = "lock" /\ CanLock(c)
  /\ Base(c) = Visible(c).revision
  /\ Visible(c) # NoRow /\ ~items[c][1].create
  /\ Merged(c) = Visible(c).value
  /\ lock' = [lock EXCEPT ![At(c)] = c]
  /\ learned' = [learned EXCEPT ![c][At(c)] = AsShown(Visible(c))]
  /\ UNCHANGED <<fact, revisions, view, rows, revs>>
  /\ ReleaseSavepoint(c)

\* Mutant: the last writer wins.
LockAnyBase(c) ==
  /\ pc[c] = "lock" /\ CanLock(c)
  /\ items[c][1].create = (Visible(c) = NoRow)
  /\ Merged(c) # Visible(c).value
  /\ lock' = IF Visible(c) = NoRow THEN lock ELSE [lock EXCEPT ![At(c)] = c]
  /\ pc' = [pc EXCEPT ![c] = "flush"]
  /\ UNCHANGED <<fact, revisions, view, items, rows, revs, cites, save, learned>>

\* Mutant: the value is written again whether it changed or not.
LockUnchanged(c) ==
  /\ pc[c] = "lock" /\ CanLock(c)
  /\ Base(c) = Visible(c).revision
  /\ items[c][1].create = (Visible(c) = NoRow)
  /\ lock' = IF Visible(c) = NoRow THEN lock ELSE [lock EXCEPT ![At(c)] = c]
  /\ pc' = [pc EXCEPT ![c] = "flush"]
  /\ UNCHANGED <<fact, revisions, view, items, rows, revs, cites, save, learned>>

\* The base is current and there is something to write.  Sources are looked up and the
\* embedding service is asked before the row is flushed, with the row locked if it exists.
LockFact(c) ==
  /\ pc[c] = "lock" /\ CanLock(c)
  /\ Base(c) = Visible(c).revision
  /\ items[c][1].create = (Visible(c) = NoRow)
  /\ Merged(c) # Visible(c).value
  /\ lock' = IF Visible(c) = NoRow THEN lock ELSE [lock EXCEPT ![At(c)] = c]
  /\ pc' = [pc EXCEPT ![c] = "flush"]
  /\ UNCHANGED <<fact, revisions, view, items, rows, revs, cites, save, learned>>

\* session.flush of the fact: an UPDATE of the locked row, or an INSERT, which waits for
\* another transaction's uncommitted row of the same key.
FlushFact(c) ==
  /\ pc[c] = "flush"
  /\ lock[At(c)] \in {Free, c}
  /\ Base(c) = 0 => fact[At(c)] = NoRow
  /\ lock' = [lock EXCEPT ![At(c)] = c]
  /\ rows' = [rows EXCEPT ![c][At(c)] = [revision |-> Visible(c).revision + 1,
                                         value |-> Merged(c)]]
  /\ pc' = [pc EXCEPT ![c] = "revise"]
  /\ UNCHANGED <<fact, revisions, view, items, revs, cites, save, learned>>

\* The INSERT finds a row of the key committed since _lock_fact found none:
\* uq_l3_facts_project_key, an IntegrityError no handler expects.
UniqueViolation(c) ==
  /\ pc[c] = "flush"
  /\ Base(c) = 0 /\ fact[At(c)] # NoRow
  /\ Rollback(c)

\* The item is answered with the new row.
Written(c) ==
  /\ learned' = [learned EXCEPT ![c][At(c)] = AsShown(rows[c][At(c)])]
  /\ ReleaseSavepoint(c)

\* The revision is added; the raw events that its sources cite are touched next.
AddRevision(c, cited) ==
  /\ pc[c] = "revise"
  /\ revs' = [revs EXCEPT ![c][At(c)] = Append(@, [by |-> c, read |-> view[c][At(c)].value,
                                                   value |-> rows[c][At(c)].value])]
  /\ UNCHANGED <<fact, revisions, lock, view, rows>>
  /\ \/ cited = <<>> /\ Written(c)
     \/ /\ cited # <<>>
        /\ cites' = [cites EXCEPT ![c] = cited]
        /\ pc' = [pc EXCEPT ![c] = "touch"]
        /\ UNCHANGED <<items, save, learned>>

\* touch_raw_event of the next source.  A row it renews stays locked until the transaction
\* or the item is undone or ends; a row touched recently, or dropped, is left alone.
TouchRawEvent(c) ==
  /\ pc[c] = "touch"
  /\ lock[Head(cites[c])] \in {Free, c}
  /\ lock' \in {lock, [lock EXCEPT ![Head(cites[c])] = c]}
  /\ UNCHANGED <<fact, revisions, view, rows, revs>>
  /\ \/ Tail(cites[c]) = <<>> /\ Written(c)
     \/ /\ Tail(cites[c]) # <<>>
        /\ cites' = [cites EXCEPT ![c] = Tail(@)]
        /\ UNCHANGED <<items, pc, save, learned>>

\* The transaction commits, and then the answer reaches the agent or is lost.
Commit(c, delivered) ==
  /\ pc[c] = "commit"
  /\ fact' = [k \in Key |-> IF rows[c][k] # NoRow THEN rows[c][k] ELSE fact[k]]
  /\ revisions' = [k \in Key |-> revisions[k] \o revs[c][k]]
  /\ view' = IF delivered
             THEN [view EXCEPT ![c] = [k \in Key |-> IF learned[c][k] # NoRow
                                                     THEN learned[c][k] ELSE view[c][k]]]
             ELSE view
  /\ EndTransaction(c)

\* Any other exception (the embedding service, the database), or the process dying.
Fail(c) ==
  /\ pc[c] # "idle"
  /\ Rollback(c)

\* The row a client's next statement is about.
Wanted(c) == IF pc[c] = "touch" THEN Head(cites[c]) ELSE At(c)

\* A client waits for the holder of a row lock, or of an uncommitted row of the same key.
Waits(c) ==
  /\ lock[Wanted(c)] \notin {Free, c}
  /\ \/ pc[c] = "lock" /\ Visible(c) # NoRow
     \/ pc[c] = "flush" /\ Base(c) = 0 /\ fact[At(c)] = NoRow
     \/ pc[c] = "touch"

Deadlocked(c) ==
  \E D \in SUBSET Client :
    /\ c \in D
    /\ \A d \in D : pc[d] # "idle" /\ pc[d] # "commit" /\ Waits(d)
    /\ {lock[Wanted(d)] : d \in D} = D

\* PostgreSQL's deadlock detector fails one of the statements that wait in a cycle.
DeadlockVictim(c) ==
  /\ Deadlocked(c)
  /\ Rollback(c)

Work(c) ==
  \/ Conflict(c) \/ WrongChange(c) \/ Unchanged(c) \/ LockFact(c)
  \/ FlushFact(c) \/ UniqueViolation(c)
  \/ \E cited \in Citations : AddRevision(c, cited)
  \/ TouchRawEvent(c)
  \/ \E delivered \in BOOLEAN : Commit(c, delivered)

Calls == UNION {[1..n -> Item] : n \in 1..MaxItems}

Next ==
  \E c \in Client :
    \/ \E k \in Key : GetFact(c, k)
    \/ \E sent \in Calls : Call(c, sent)
    \/ Work(c) \/ Refuse(c) \/ Fail(c) \/ DeadlockVictim(c)

Spec == Init /\ [][Next]_vars

\* The service's own scheduling: every transaction runs to its end, PostgreSQL serves
\* whoever waits for a row, and finds every deadlock.  Agents need not call, and nothing
\* makes an item refused or a transaction fail.
Fairness ==
  \A c \in Client :
    /\ SF_vars(Work(c))
    /\ WF_vars(DeadlockVictim(c))

-----------------------------------------------------------------------------
(* Properties. *)

\* The history explains the fact: the fact row of every key is its newest revision, and
\* the revisions are numbered from 1 without a gap.  write_fact flushes the two tables
\* at different times, and one of them can fail in between.
HistoryExplainsFact ==
  \A k \in Key :
    /\ Len(revisions[k]) = fact[k].revision
    /\ fact[k] # NoRow => fact[k].value = revisions[k][fact[k].revision].value

\* No update is lost: whoever made a revision had been shown the revision it replaced,
\* whatever the interleaving of creates, merges, batches, failures and lost answers.
NoLostUpdate ==
  \A k \in Key : \A n \in 1..Len(revisions[k]) :
    revisions[k][n].read = IF n = 1 THEN {} ELSE Shown(revisions[k][n - 1].value)

\* A truth is recorded once: an agent whose answer was lost, and who merges and sends the
\* same truth again, never makes a second revision of it (the unchanged check).
OncePerTruth ==
  \A k \in Key : \A m, n \in 1..Len(revisions[k]) :
    revisions[k][m].by = revisions[k][n].by => m = n

\* Whatever an agent has been told of a fact was committed, under the revision number it
\* was told: no answer carries a row of a transaction that was rolled back later.
AnswersAreCommitted ==
  \A c \in Client, k \in Key :
    view[c][k] # NoRow =>
      /\ view[c][k].revision \in 1..Len(revisions[k])
      /\ view[c][k].value = Shown(revisions[k][view[c][k].revision].value)

\* Merged truth survives: a later revision contains what the earlier one did, because the
\* agent merges into what it reads.  It holds only if a reader is given the whole value.
MergesSurvive ==
  \A k \in Key : \A n \in 2..Len(revisions[k]) :
    revisions[k][n - 1].value \subseteq revisions[k][n].value

\* Items stand alone: a refused item leaves the items before it written.
ItemsStandAlone ==
  [][\A c \in Client : UniqueViolation(c) => save[c].rows = NoRows]_vars

\* Every call ends: batches that lock rows in opposite orders, and writes whose sources
\* cite raw events in opposite orders, do not wait for ever.
EveryCallEnds ==
  \A c \in Client : pc[c] # "idle" ~> pc[c] = "idle"

\* The store implements the register: what is committed is an append-only history per
\* key, extended only by agents who had been shown its end, and what an agent is shown
\* never goes back.  The register sees nothing of rows, locks and savepoints.
Register == INSTANCE FactRegister WITH
  history <- revisions,
  known <- [c \in Client |-> [k \in Key |-> view[c][k].revision]]

ImplementsRegister == Register!Spec

-----------------------------------------------------------------------------
(* The inductive invariant. *)

\* What has been shown of k, or will be: a revision that was committed under its number.
Committed(row, k) ==
  /\ row.revision \in 1..Len(revisions[k])
  /\ row.value = Shown(revisions[k][row.revision].value)

\* The row and the revision that client c makes of k, once it has been shown fact[k].
Successor(c, k) == [revision |-> fact[k].revision + 1,
                    value    |-> Shown(fact[k].value) \cup {c}]
NewRevision(c, k) == [by    |-> c,
                      read  |-> Shown(fact[k].value),
                      value |-> Shown(fact[k].value) \cup {c}]

\* What the transaction keeps at its savepoint: every row it has flushed is the successor
\* of a committed row that it holds locked and that its agent had been shown.
SavepointInv(c) ==
  /\ \A k \in save[c].held : lock[k] = c
  /\ \A k \in Key :
       IF save[c].rows[k] = NoRow
       THEN save[c].revs[k] = <<>>
       ELSE /\ k \in save[c].held
            /\ view[c][k] = AsShown(fact[k])
            /\ save[c].rows[k] = Successor(c, k)
            /\ save[c].revs[k] = <<NewRevision(c, k)>>

\* What the current item has added to that.
ItemInv(c) ==
  /\ pc[c] \in {"lock", "flush", "revise", "touch"} => items[c] # <<>>
  /\ pc[c] = "idle" => save[c] = NoSave /\ learned[c] = NoRows
  /\ pc[c] \notin {"revise", "touch"} => rows[c] = save[c].rows
  /\ pc[c] # "touch" => revs[c] = save[c].revs /\ cites[c] = <<>>
  /\ pc[c] = "flush" =>
       /\ save[c].rows[At(c)] = NoRow
       /\ Base(c) # 0 => lock[At(c)] = c /\ view[c][At(c)] = AsShown(fact[At(c)])
  /\ pc[c] \in {"revise", "touch"} =>
       /\ save[c].rows[At(c)] = NoRow
       /\ lock[At(c)] = c
       /\ view[c][At(c)] = AsShown(fact[At(c)])
       /\ rows[c] = [save[c].rows EXCEPT ![At(c)] = Successor(c, At(c))]
  /\ pc[c] = "touch" =>
       /\ revs[c] = [save[c].revs EXCEPT ![At(c)] = <<NewRevision(c, At(c))>>]
       /\ cites[c] # <<>>

\* What the agent knows, and what the answer being put together will tell it.
AnswerInv(c) ==
  \A k \in Key :
    /\ view[c][k] # NoRow => Committed(view[c][k], k)
    /\ learned[c][k] # NoRow =>
         /\ view[c][k].revision <= learned[c][k].revision
         /\ \/ Committed(learned[c][k], k)
            \/ save[c].rows[k] # NoRow /\ learned[c][k] = AsShown(save[c].rows[k])

FactInv ==
  /\ \A k \in Key : fact[k].revision = 0 => fact[k] = NoRow
  /\ HistoryExplainsFact
  /\ NoLostUpdate

IInv ==
  /\ TypeOK
  /\ FactInv
  /\ \A c \in Client : SavepointInv(c) /\ ItemInv(c) /\ AnswerInv(c)

\* What OncePerTruth and MergesSurvive need on top of that, of readers who are given whole
\* values.  Who makes a revision adds a truth to what was read, and the fact keeps it.
TruthsKept ==
  \A k \in Key : \A n \in 1..Len(revisions[k]) :
    /\ revisions[k][n].value = revisions[k][n].read \cup {revisions[k][n].by}
    /\ revisions[k][n].by \in fact[k].value

\* A truth on its way to a row, flushed or about to be, is not in the fact already.
NewTruth(c) ==
  /\ \A k \in Key : save[c].rows[k] # NoRow => c \notin fact[k].value
  /\ pc[c] \in {"revise", "touch"} => c \notin fact[At(c)].value
  /\ pc[c] = "flush" /\ Base(c) # 0 => c \notin fact[At(c)].value

OnceInv ==
  /\ TruthsKept
  /\ OncePerTruth
  /\ \A c \in Client : NewTruth(c)

\* No call waits in a cycle.  Batches can, and so can writes of a single fact that cite
\* several raw events.  Where an item is all of a call and cites one event at most, nobody
\* can: a call then takes the row of its fact first, and waits for nothing once it has the
\* row of an event.
NoDeadlock == \A c \in Client : ~Deadlocked(c)

SingleInv ==
  \A c \in Client :
    /\ pc[c] \in {"lock", "flush", "revise", "touch"} => Len(items[c]) = 1
    /\ pc[c] \in {"idle", "lock"} => \A k \in Key : lock[k] # c
    /\ pc[c] = "flush" /\ Base(c) = 0 => \A k \in Key : lock[k] # c
    /\ pc[c] # "commit" => \A e \in Event : lock[e] # c
    /\ pc[c] = "touch" => Tail(cites[c]) = <<>>
=============================================================================
