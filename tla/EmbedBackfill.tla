---------------------------- MODULE EmbedBackfill ----------------------------
(***************************************************************************)
(* The vectors of L3 facts and the script that fills in the missing ones.  *)
(* While the server runs without semantic search every write leaves the    *)
(* fact without a vector; once it is on, write_fact embeds the new text    *)
(* before it flushes.  embed_backfill runs beside the server: it selects a *)
(* batch of facts without a vector, asks for the embedding of the texts it *)
(* has read, one after the other, and commits the vectors of the batch.    *)
(* Its UPDATEs name a row and nothing else: they neither compare the       *)
(* revision nor ask whether the vector is still missing.                   *)
(*                                                                         *)
(* A text is the number of the revision that has it, and so is a vector;   *)
(* 0 is no vector.  A row is locked from the statement that locks or       *)
(* updates it to the end of its transaction.                               *)
(***************************************************************************)
EXTENDS Naturals, FiniteSets

CONSTANTS NumFacts,  \* facts are numbered in the order of their ids
          Writer,    \* callers of write_facts, each with one call in flight
          Script,    \* the owner of the locks of the script
          Free,      \* the owner of a lock nobody holds
          Batch,     \* --batch; PostgreSQL refuses a negative one
          Refused,   \* facts whose text the embedding service never accepts
          MaxRev     \* the last revision of a fact that is looked at

Fact == 1..NumFacts

ASSUME NumFactsAssumption == NumFacts \in Nat
ASSUME OwnerAssumption == Script \notin Writer /\ Free \notin Writer /\ Script # Free
ASSUME BatchAssumption == Batch \in Nat
ASSUME RefusedAssumption == Refused \subseteq Fact
ASSUME MaxRevAssumption == MaxRev \in Nat

VARIABLES
  rev,     \* the revision of each fact; 0: not written yet
  vec,     \* the revision its vector was made of; 0: NULL
  lock,    \* the transaction that has locked or updated the row
  want,    \* the row a call waits for; 0: none
  serverOn,\* SEMANTIC_SEARCH_ENABLED, as the running server has read it
  script,  \* where the script is
  text,    \* the text of each row of its batch, as it was selected; 0: not in the batch
  waiting, \* the rows it has not asked the service about
  made,    \* the rows that have a new vector in its session
  done, failed,  \* its counters
  during,  \* facts last written while the script held an older text of them
  late     \* facts left without a vector by a write after the script's last SELECT

facts == <<rev, vec>>
calls == <<want, serverOn>>
counters == <<done, failed>>
session == <<script, text, waiting, made, counters>>
history == <<during, late>>
vars == <<facts, lock, calls, session, history>>

TypeOK ==
  /\ rev \in [Fact -> 0..MaxRev]
  /\ vec \in [Fact -> 0..MaxRev]
  /\ lock \in [Fact -> Writer \cup {Script, Free}]
  /\ want \in [Writer -> Fact \cup {0}]
  /\ serverOn \in BOOLEAN
  /\ script \in {"off", "select", "embed", "flush", "ended"}
  /\ text \in [Fact -> 0..MaxRev]
  /\ waiting \in SUBSET Fact
  /\ made \in SUBSET Fact
  /\ done \in Nat /\ failed \in Nat
  /\ during \in SUBSET Fact
  /\ late \in SUBSET Fact

NoText == [k \in Fact |-> 0]

Init ==
  /\ rev = [k \in Fact |-> 0]
  /\ vec = [k \in Fact |-> 0]
  /\ lock = [k \in Fact |-> Free]
  /\ want = [w \in Writer |-> 0]
  /\ serverOn = FALSE
  /\ script = "off"
  /\ text = NoText
  /\ waiting = {} /\ made = {}
  /\ done = 0 /\ failed = 0
  /\ during = {} /\ late = {}

Held(p) == {k \in Fact : lock[k] = p}
Released(P) == [k \in Fact |-> IF lock[k] \in P THEN Free ELSE lock[k]]

\* embedding IS NULL
Missing == {k \in Fact : rev[k] # 0 /\ vec[k] = 0}

-----------------------------------------------------------------------------
(* The server. *)

\* _lock_fact and the assignments that follow it, the embedding among them.  A row that
\* somebody else has locked is waited for.
WriteFact(w, k) ==
  /\ want[w] \in {0, k}
  /\ lock[k] = Free
  /\ rev[k] < MaxRev
  /\ lock' = [lock EXCEPT ![k] = w]
  /\ want' = [want EXCEPT ![w] = 0]
  /\ UNCHANGED <<facts, serverOn, session, history>>

WriteWaits(w, k) ==
  /\ want[w] = 0
  /\ lock[k] \notin {Free, w}
  /\ rev[k] < MaxRev
  /\ want' = [want EXCEPT ![w] = k]
  /\ UNCHANGED <<facts, lock, serverOn, session, history>>

\* Once it has the row it waited for, the write may be refused: another call has changed it.
RefuseWrite(w) ==
  /\ want[w] # 0
  /\ lock[want[w]] = Free
  /\ want' = [want EXCEPT ![w] = 0]
  /\ UNCHANGED <<facts, lock, serverOn, session, history>>

EndCall(w) ==
  /\ lock' = Released({w})
  /\ want' = [want EXCEPT ![w] = 0]

\* Mutant: a fact that has a vector keeps it.
CommitKeepsVector(w) ==
  /\ Held(w) # {} /\ want[w] = 0
  /\ LET written == Held(w)
     IN /\ rev' = [k \in Fact |-> IF k \in written THEN rev[k] + 1 ELSE rev[k]]
        /\ vec' = [k \in Fact |-> IF k \in written /\ serverOn /\ vec[k] = 0
                                  THEN rev[k] + 1 ELSE vec[k]]
        /\ during' = (during \ written) \cup {k \in written : text[k] # 0}
        /\ late' = IF serverOn THEN late \ written ELSE late \cup written
  /\ EndCall(w)
  /\ UNCHANGED <<serverOn, session>>

\* The call commits: each fact it has written has the vector of its new text, or none.
CommitCall(w) ==
  /\ Held(w) # {} /\ want[w] = 0
  /\ LET written == Held(w)
     IN /\ rev' = [k \in Fact |-> IF k \in written THEN rev[k] + 1 ELSE rev[k]]
        /\ vec' = [k \in Fact |-> IF k \in written THEN IF serverOn THEN rev[k] + 1 ELSE 0
                                                   ELSE vec[k]]
        /\ during' = (during \ written) \cup {k \in written : text[k] # 0}
        /\ late' = IF serverOn THEN late \ written ELSE late \cup written
  /\ EndCall(w)
  /\ UNCHANGED <<serverOn, session>>

\* An embedding that fails, any other error, or PostgreSQL's choice in a deadlock.
FailCall(w) ==
  /\ Held(w) # {} \/ want[w] # 0
  /\ EndCall(w)
  /\ UNCHANGED <<facts, serverOn, session, history>>

\* The server is restarted with semantic search on: open calls die.
TurnOn ==
  /\ ~serverOn
  /\ serverOn' = TRUE
  /\ lock' = Released(Writer)
  /\ want' = [w \in Writer |-> 0]
  /\ UNCHANGED <<facts, session, history>>

-----------------------------------------------------------------------------
(* The script. *)

Start ==
  /\ script \in {"off", "ended"}
  /\ script' = "select"
  /\ done' = 0 /\ failed' = 0
  /\ UNCHANGED <<facts, lock, calls, text, waiting, made, history>>

\* Mutant: the next batch is taken at an OFFSET, though the list gets shorter.
SelectAtOffset ==
  /\ script = "select"
  /\ IF Cardinality(Missing) <= done
     THEN script' = "ended" /\ UNCHANGED <<text, waiting, during>>
     ELSE \E rows \in SUBSET Missing :
            /\ rows # {} /\ Cardinality(rows) <= Batch
            /\ script' = "embed"
            /\ text' = [k \in Fact |-> IF k \in rows THEN rev[k] ELSE 0]
            /\ waiting' = rows
            /\ during' = during \ rows
  /\ late' = {}
  /\ UNCHANGED <<facts, lock, calls, made, counters>>

\* The next batch, in the order PostgreSQL finds it.  No rows are the end: nothing is
\* missing, or the batch is of zero rows.
Select ==
  /\ script = "select"
  /\ \E rows \in SUBSET Missing :
       /\ Cardinality(rows) = Batch \/ (rows = Missing /\ Cardinality(rows) < Batch)
       /\ script' = IF rows = {} THEN "ended" ELSE "embed"
       /\ text' = [k \in Fact |-> IF k \in rows THEN rev[k] ELSE 0]
       /\ waiting' = rows
       /\ during' = during \ rows
  /\ late' = {}
  /\ UNCHANGED <<facts, lock, calls, made, counters>>

\* embed_text of one row of the batch: it answers, or raises and is reported.
Asked(k) ==
  /\ script = "embed" /\ k \in waiting
  /\ waiting' = waiting \ {k}
  /\ script' = IF waiting = {k} THEN "flush" ELSE "embed"
  /\ UNCHANGED <<facts, lock, calls, text, history>>

Embed(k) ==
  /\ k \notin Refused
  /\ Asked(k)
  /\ made' = made \cup {k}
  /\ done' = done + 1 /\ UNCHANGED failed

\* Mutant: a failure is reported and not counted.
EmbedPassesOver(k) ==
  /\ Asked(k)
  /\ UNCHANGED <<made, counters>>

\* Mutant: a failure is taken off the successes.
EmbedTakesBack(k) ==
  /\ Asked(k)
  /\ failed' = failed + 1 /\ done' = done - 1
  /\ UNCHANGED made

EmbedFails(k) ==
  /\ Asked(k)
  /\ failed' = failed + 1
  /\ UNCHANGED <<made, done>>

\* The flush updates the rows in the order of their ids.
NextRow == CHOOSE k \in made : lock[k] # Script /\ \A j \in made : lock[j] # Script => k <= j
Flushed == \A k \in made : lock[k] = Script

Update ==
  /\ script = "flush" /\ ~Flushed
  /\ lock[NextRow] = Free
  /\ lock' = [lock EXCEPT ![NextRow] = Script]
  /\ UNCHANGED <<facts, calls, session, history>>

EndRound ==
  /\ lock' = Released({Script})
  /\ text' = NoText /\ waiting' = {} /\ made' = {}

\* The vectors of the batch are committed.  The script gives up once it has failed at least
\* as often as it has succeeded.
CommitBatch ==
  /\ script = "flush" /\ Flushed
  /\ vec' = [k \in Fact |-> IF k \in made THEN text[k] ELSE vec[k]]
  /\ script' = IF failed > 0 /\ failed >= done THEN "ended" ELSE "select"
  /\ EndRound
  /\ UNCHANGED <<rev, calls, counters, history>>

\* Killed, or a database error: only embed_text is guarded.
Die ==
  /\ script \notin {"off", "ended"}
  /\ script' = "off"
  /\ EndRound
  /\ UNCHANGED <<facts, calls, counters, history>>

-----------------------------------------------------------------------------
(* Deadlocks between the flush and the calls. *)

Waits(p, q) ==
  IF p = Script THEN script = "flush" /\ ~Flushed /\ lock[NextRow] = q
                ELSE want[p] # 0 /\ lock[want[p]] = q

Deadlocked(p) ==
  \E S \in SUBSET (Writer \cup {Script}) :
    p \in S /\ \A q \in S : \E r \in S : Waits(q, r)

\* PostgreSQL ends one of the transactions.
DeadlockVictim ==
  \/ Deadlocked(Script) /\ Die
  \/ \E w \in Writer : Deadlocked(w) /\ FailCall(w)

-----------------------------------------------------------------------------
Server ==
  \/ \E w \in Writer :
       \/ \E k \in Fact : WriteFact(w, k) \/ WriteWaits(w, k)
       \/ RefuseWrite(w) \/ CommitCall(w) \/ FailCall(w)
  \/ TurnOn

Backfill ==
  \/ Start \/ Select
  \/ \E k \in Fact : Embed(k) \/ EmbedFails(k)
  \/ Update \/ CommitBatch \/ Die

Next == Server \/ Backfill

\* The script runs on, an answer or an error of the service comes, and what has begun in
\* the server ends.  Rows are handed on in the order of PostgreSQL's queue, so that whoever
\* waits for one is not passed over for ever, and a deadlock is found.
Fairness ==
  /\ WF_vars(Select)
  /\ WF_vars(\E k \in Fact : Embed(k) \/ EmbedFails(k))
  /\ SF_vars(Update)
  /\ WF_vars(CommitBatch)
  /\ \A w \in Writer :
       /\ WF_vars(CommitCall(w))
       /\ SF_vars(RefuseWrite(w) \/ \E k \in Fact : want[w] = k /\ WriteFact(w, k))
  /\ WF_vars(DeadlockVictim)

Spec == Init /\ [][Next]_vars /\ Fairness

-----------------------------------------------------------------------------
(* Properties. *)

\* A vector is of the text its fact has, unless the fact was last written while the script
\* held an older text of it: the script then puts the vector of the old text over what the
\* write left, and never looks at the fact again.
VectorOfTextUnlessOverlapped ==
  \A k \in Fact : vec[k] \in {0, rev[k]} \/ k \in during

\* Run with batches of at least one row, the script exits with 0 only if no fact is without
\* a vector, but for those that a server still without semantic search has written since the
\* script's last SELECT.
ExitZeroMeansComplete ==
  Batch # 0 /\ script = "ended" /\ failed = 0 => Missing \subseteq late

\* Writes without semantic search stop: the server is restarted, or nobody writes.  MaxRev
\* stops them in the behaviours that are looked at; nothing stops them in the code.
PlainWritesStop == <>[][\A w \in Writer : CommitCall(w) => serverOn]_vars

\* Once such writes stop the script ends, although it selects in every round the facts the
\* service refuses, and although calls take the rows it is about to update in another order.
\* Without that condition it need not: every round may find facts that were written again.
BackfillEnds ==
  PlainWritesStop => (script = "select" ~> script \in {"off", "ended"})

-----------------------------------------------------------------------------
(* The inductive invariant. *)

\* What the script holds of its batch.
BatchInv ==
  /\ \A k \in Fact : text[k] # 0 => text[k] = rev[k] \/ k \in during
  /\ \A k \in waiting \cup made : text[k] # 0
  /\ waiting \cap made = {}
  /\ script \in {"off", "select", "ended"} => text = NoText /\ waiting = {} /\ made = {}

\* A row that a call has locked is about to get a revision.
LockInv == \A k \in Fact : lock[k] \in Writer => rev[k] < MaxRev

IInv ==
  /\ TypeOK
  /\ BatchInv
  /\ LockInv
  /\ VectorOfTextUnlessOverlapped
  /\ ExitZeroMeansComplete
=============================================================================
