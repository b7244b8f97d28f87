---------------------------- MODULE IngestLedger ----------------------------
(***************************************************************************)
(* The ingest ledger: what has been crawled from one stream of one source. *)
(* ingest_source_unit stores a new or changed unit as a raw event (L4) and *)
(* notes its hashes in a ledger row; check_source_units tells a crawler    *)
(* which units it may skip; upsert_watermark moves the stream's cursor;    *)
(* reset_source_ingest forgets rows and cursor.                            *)
(*                                                                         *)
(* The crawlers are agents outside the service that do what the skill says *)
(* for a page of one unit: check, ingest what is new or changed, write its *)
(* facts, move the cursor.  Their calls are transactions of their own.     *)
(* A unit has an external id.  A step is what happens between two          *)
(* statements that reach the database.                                     *)
(***************************************************************************)
EXTENDS Naturals, Sequences

CONSTANTS Crawler,    \* the agents; each has one call in flight
          Units,      \* the stream has the units 1 .. Units, in this order
          Version,    \* what a unit may be: a record of its content and native hash
          NoRow,      \* no row in the ledger
          Nobody,     \* the owner of a row lock nobody holds
          MaxEvents,  \* how many raw events are stored
          MaxResets   \* how often the user has the source reset

ASSUME UnitsAssumption == Units \in Nat \ {0}
\* The source's own hash of a unit tells its contents apart.
ASSUME VersionAssumption ==
  /\ \A v \in Version : DOMAIN v = {"content", "native"}
  /\ \A v, w \in Version : v.native = w.native => v.content = w.content
\* The version of a page that is over is any of them.
ASSUME SomeVersionAssumption == Version # {}
ASSUME NobodyAssumption == Nobody \notin Crawler
ASSUME BoundsAssumption == MaxEvents \in Nat /\ MaxResets \in Nat

VARIABLES
  events,   \* the raw events in the order of their commits (none is dropped here)
  ledger,   \* the committed ledger rows
  mark,     \* indexed_through of the watermark; 0 when it has no row
  lock,     \* who has a ledger row, or its key, in an open transaction
  resets,   \* resets so far
  pc,       \* where a crawler is
  unit,     \* the unit of its page
  fetched,  \* the unit as it fetched it
  ahead,    \* whether that unit is the one after the watermark it started from
  base,     \* the ledger row its ingest has read
  seen,     \* the watermark its upsert has read
  settled   \* the units that crawlers have written the facts of, and those whose ingest ended,
            \* with its crawler or a call, before its facts were written

page == <<unit, fetched, ahead, base, seen>>
tables == <<events, ledger, mark>>
vars == <<tables, lock, resets, pc, page, settled>>

Unit == 1..Units
Content == {v.content : v \in Version}
\* Hashes as the service compares them, stripped and in lower case: spellings of one hash that
\* .strip().lower() makes equal are one element here.
Native == {v.native : v \in Version}
Event == [unit : Unit, content : Content]
\* id is what tells a row from one that took its place, event is last_raw_event_id.
Row == [id : 1..MaxEvents, event : 1..MaxEvents, content : Content, native : Native]

TypeOK ==
  /\ events \in Seq(Event) /\ Len(events) <= MaxEvents
  /\ ledger \in [Unit -> Row \cup {NoRow}]
  /\ mark \in 0..Units
  /\ lock \in [Unit -> Crawler \cup {Nobody}]
  /\ resets \in 0..MaxResets
  /\ pc \in [Crawler -> {"idle", "check", "lookup", "touch", "flush", "commit", "write",
                         "get", "set", "reset"}]
  /\ unit \in [Crawler -> Unit]
  /\ fetched \in [Crawler -> Version]
  /\ ahead \in [Crawler -> BOOLEAN]
  /\ base \in [Crawler -> Row \cup {NoRow}]
  /\ seen \in [Crawler -> 0..Units]
  /\ settled \in SUBSET Unit

AnyVersion == CHOOSE v \in Version : TRUE

Init ==
  /\ events = <<>>
  /\ ledger = [u \in Unit |-> NoRow]
  /\ mark = 0
  /\ lock = [u \in Unit |-> Nobody]
  /\ resets = 0
  /\ pc = [c \in Crawler |-> "idle"]
  /\ unit = [c \in Crawler |-> 1]
  /\ fetched = [c \in Crawler |-> AnyVersion]
  /\ ahead = [c \in Crawler |-> FALSE]
  /\ base = [c \in Crawler |-> NoRow]
  /\ seen = [c \in Crawler |-> 0]
  /\ settled = {}

-----------------------------------------------------------------------------
(* What the steps are made of. *)

Goto(c, l) == pc' = [pc EXCEPT ![c] = l]

Released(c) == [u \in Unit |-> IF lock[u] = c THEN Nobody ELSE lock[u]]

\* The page is over: done, given up, or the agent's session ended.
Leave(c) ==
  /\ Goto(c, "idle")
  /\ unit' = [unit EXCEPT ![c] = 1]
  /\ fetched' = [fetched EXCEPT ![c] = AnyVersion]
  /\ ahead' = [ahead EXCEPT ![c] = FALSE]
  /\ base' = [base EXCEPT ![c] = NoRow]
  /\ seen' = [seen EXCEPT ![c] = 0]
  /\ lock' = Released(c)

\* A crawler's page as the service stores it.
Copy(c) == [unit |-> unit[c], content |-> fetched[c].content]

\* Mutant: a unit that has a row is unchanged.
AgreesOnKey(row, v, hashes) == row # NoRow

\* A ledger row has these of the hashes of a fetched version.
Agrees(row, v, hashes) == row # NoRow /\ \A h \in hashes : row[h] = v[h]

Hashes == {"content", "native"}
Matches(row, v) == Agrees(row, v, Hashes)

-----------------------------------------------------------------------------
(* The crawlers' way through a page. *)

\* get_watermark; then the next unit, or one already covered, is fetched, as it is by now.
Open(c, u, v) ==
  /\ pc[c] = "idle"
  /\ u <= mark + 1
  /\ ahead' = [ahead EXCEPT ![c] = u > mark]
  /\ unit' = [unit EXCEPT ![c] = u]
  /\ fetched' = [fetched EXCEPT ![c] = v]
  /\ Goto(c, "check")
  /\ UNCHANGED <<tables, lock, resets, base, seen, settled>>

\* Mutant: whatever the check says, there is nothing to ingest.
CheckNothing(c) ==
  /\ pc[c] = "check"
  /\ Goto(c, "get")
  /\ UNCHANGED <<tables, lock, resets, page, settled>>

\* check_source_units says that the unit is unchanged, by the hashes the candidate came with:
\* there is nothing to ingest.
CheckKnown(c) ==
  /\ pc[c] = "check"
  /\ \E hashes \in (SUBSET Hashes) \ {{}} : Agrees(ledger[unit[c]], fetched[c], hashes)
  /\ Goto(c, "get")
  /\ UNCHANGED <<tables, lock, resets, page, settled>>

\* It is unknown or changed.
CheckNews(c) ==
  /\ pc[c] = "check"
  /\ ~Matches(ledger[unit[c]], fetched[c])
  /\ Goto(c, "lookup")
  /\ UNCHANGED <<tables, lock, resets, page, settled>>

\* write_facts, one transaction of its own.
WriteFacts(c) ==
  /\ pc[c] = "write"
  /\ settled' = settled \cup {unit[c]}
  /\ Goto(c, "get")
  /\ UNCHANGED <<tables, lock, resets, page>>

\* The answer of the ingest was lost: it is sent again.
Resend(c) ==
  /\ pc[c] = "write"
  /\ Goto(c, "lookup")
  /\ base' = [base EXCEPT ![c] = NoRow]
  /\ UNCHANGED <<tables, lock, resets, unit, fetched, ahead, seen, settled>>

\* A unit that was covered already moves no cursor.
Reread(c) ==
  /\ pc[c] = "get"
  /\ ~ahead[c]
  /\ Leave(c)
  /\ UNCHANGED <<tables, resets, settled>>

\* The facts of the unit are still to be written.
Ingesting(c) == pc[c] \in {"lookup", "touch", "flush", "commit", "write"}

\* The page ends early.
GiveUp(c) ==
  /\ settled' = IF Ingesting(c) THEN settled \cup {unit[c]} ELSE settled
  /\ Leave(c)
  /\ UNCHANGED <<tables, resets>>

\* An error, an open transaction's rollback, the agent's session or the service going away.
Fail(c) == pc[c] # "idle" /\ GiveUp(c)

-----------------------------------------------------------------------------
(* ingest_source_unit. *)

\* The row has these hashes: only its last_seen_at is to be set.
LookupKnown(c) ==
  /\ pc[c] = "lookup"
  /\ Matches(ledger[unit[c]], fetched[c])
  /\ base' = [base EXCEPT ![c] = ledger[unit[c]]]
  /\ Goto(c, "touch")
  /\ UNCHANGED <<tables, lock, resets, unit, fetched, ahead, seen, settled>>

\* The UPDATE of last_seen_at, and the commit: "unchanged".
Touch(c) ==
  /\ pc[c] = "touch"
  /\ lock[unit[c]] = Nobody
  /\ ledger[unit[c]] # NoRow
  /\ ledger[unit[c]].id = base[c].id
  /\ Goto(c, "write")
  /\ UNCHANGED <<tables, lock, resets, page, settled>>

\* add_raw_event: the event is inserted, for nobody else to see yet.
LookupNews(c) ==
  /\ pc[c] = "lookup"
  /\ ~Matches(ledger[unit[c]], fetched[c])
  /\ Len(events) < MaxEvents
  /\ base' = [base EXCEPT ![c] = ledger[unit[c]]]
  /\ Goto(c, "flush")
  /\ UNCHANGED <<tables, lock, resets, unit, fetched, ahead, seen, settled>>

\* The table still has, or still has not, the row that was read.
SameRow(c) ==
  \/ base[c] = NoRow /\ ledger[unit[c]] = NoRow
  \/ base[c] # NoRow /\ ledger[unit[c]] # NoRow /\ ledger[unit[c]].id = base[c].id

\* The INSERT or UPDATE of the row, once no other transaction has it.
Flush(c) ==
  /\ pc[c] = "flush"
  /\ lock[unit[c]] = Nobody
  /\ SameRow(c)
  /\ lock' = [lock EXCEPT ![unit[c]] = c]
  /\ Goto(c, "commit")
  /\ UNCHANGED <<tables, resets, page, settled>>

\* uq_ingest_units_source_stream_item, or an UPDATE of a row that is gone: an error no handler
\* expects, the event goes too.
FlushFails(c) ==
  /\ pc[c] = "flush"
  /\ lock[unit[c]] = Nobody
  /\ ~SameRow(c)
  /\ GiveUp(c)

\* Mutant: a row that is there keeps the event it has.
WrittenFirstEvent(c) ==
  LET next == Len(events) + 1
      row == ledger[unit[c]]
      v == fetched[c]
  IN IF base[c] = NoRow
     THEN [id |-> next, event |-> next, content |-> v.content, native |-> v.native]
     ELSE [id      |-> row.id,
           event   |-> row.event,
           content |-> IF v.content # base[c].content THEN v.content ELSE row.content,
           native  |-> IF v.native # base[c].native THEN v.native ELSE row.native]

\* The row as the transaction leaves it.  An UPDATE has the columns that differ from what the
\* transaction read; the id of the event it has just inserted always does.
Written(c) ==
  LET next == Len(events) + 1
      row == ledger[unit[c]]
      v == fetched[c]
  IN IF base[c] = NoRow
     THEN [id |-> next, event |-> next, content |-> v.content, native |-> v.native]
     ELSE [id      |-> row.id,
           event   |-> next,
           content |-> IF v.content # base[c].content THEN v.content ELSE row.content,
           native  |-> IF v.native # base[c].native THEN v.native ELSE row.native]

\* Mutant: the ledger is committed, the event is not.
CommitRowOnly(c) ==
  /\ pc[c] = "commit"
  /\ Len(events) < MaxEvents
  /\ ledger' = [ledger EXCEPT ![unit[c]] = Written(c)]
  /\ lock' = Released(c)
  /\ Goto(c, "write")
  /\ UNCHANGED <<events, mark, resets, page, settled>>

\* Event and row become visible together: "created" or "changed".
Commit(c) ==
  /\ pc[c] = "commit"
  /\ Len(events) < MaxEvents
  /\ events' = Append(events, Copy(c))
  /\ ledger' = [ledger EXCEPT ![unit[c]] = Written(c)]
  /\ lock' = Released(c)
  /\ Goto(c, "write")
  /\ UNCHANGED <<mark, resets, page, settled>>

-----------------------------------------------------------------------------
(* upsert_watermark and reset_source_ingest. *)

GetMark(c) ==
  /\ pc[c] = "get"
  /\ ahead[c]
  /\ seen' = [seen EXCEPT ![c] = mark]
  /\ Goto(c, "set")
  /\ UNCHANGED <<tables, lock, resets, unit, fetched, ahead, base, settled>>

\* Mutant: the cursor is counted up from what it was.
SetMarkNext(c) ==
  /\ pc[c] = "set"
  /\ (seen[c] = 0) = (mark = 0)
  /\ mark' = seen[c] + 1
  /\ Leave(c)
  /\ UNCHANGED <<events, ledger, resets, settled>>

\* The INSERT or UPDATE of the watermark, and the commit.  indexed_through is not in the
\* UPDATE when the transaction has read this very value.
SetMark(c) ==
  /\ pc[c] = "set"
  /\ (seen[c] = 0) = (mark = 0)
  /\ mark' = IF unit[c] # seen[c] THEN unit[c] ELSE mark
  /\ Leave(c)
  /\ UNCHANGED <<events, ledger, resets, settled>>

\* The primary key, or an UPDATE of a row that is gone.
SetMarkFails(c) ==
  /\ pc[c] = "set"
  /\ (seen[c] = 0) # (mark = 0)
  /\ Leave(c)
  /\ UNCHANGED <<tables, resets, settled>>

\* The DELETE of the units waits for the rows that others have written, then has them all.
ResetUnits(c) ==
  /\ pc[c] = "idle"
  /\ resets < MaxResets
  /\ \A u \in Unit : ledger[u] # NoRow => lock[u] = Nobody
  /\ lock' = [u \in Unit |-> IF ledger[u] # NoRow THEN c ELSE lock[u]]
  /\ resets' = resets + 1
  /\ Goto(c, "reset")
  /\ UNCHANGED <<tables, page, settled>>

\* The DELETE of the watermark, and the commit.
ResetMark(c) ==
  /\ pc[c] = "reset"
  /\ ledger' = [u \in Unit |-> IF lock[u] = c THEN NoRow ELSE ledger[u]]
  /\ mark' = 0
  /\ Leave(c)
  /\ UNCHANGED <<events, resets, settled>>

Crawl(c) ==
  \/ CheckKnown(c) \/ CheckNews(c) \/ LookupKnown(c) \/ LookupNews(c) \/ Touch(c)
  \/ Flush(c) \/ FlushFails(c) \/ Commit(c) \/ Resend(c) \/ WriteFacts(c) \/ Reread(c)
  \/ GetMark(c) \/ SetMark(c) \/ SetMarkFails(c) \/ ResetUnits(c) \/ ResetMark(c) \/ Fail(c)

Next ==
  \/ \E c \in Crawler, u \in Unit, v \in Version : Open(c, u, v)
  \/ \E c \in Crawler : Crawl(c)

Spec == Init /\ [][Next]_vars

-----------------------------------------------------------------------------
(* Properties. *)

\* What has been committed to L4.
Copies == {events[i] : i \in DOMAIN events}

\* Whatever a crawler is told to skip, by a check or by an ingest that stores nothing, has
\* been stored, although the candidate may come with one hash only, and a row may have the
\* content hash of one ingest and the native hash of another.
SkippedIsStored ==
  [][\A c \in Crawler : CheckKnown(c) \/ Touch(c) => Copy(c) \in Copies]_vars

\* Every unit that the cursor has passed has been stored: crawlers that started from a cursor
\* that has moved on or been reset since, errors and answers that were lost leave no gap.
CursorLeavesNoGap == \A u \in 1..mark : \E s \in Copies : s.unit = u

\* last_raw_event_id of a ledger row names the event of the unit that was committed last.
NamesLastEvent ==
  \A u \in Unit : ledger[u] # NoRow =>
    /\ ledger[u].event \in DOMAIN events
    /\ \A i \in DOMAIN events : events[i].unit = u => i <= ledger[u].event

\* models/ingest.py: the cursor passes a unit only once its facts have been written.  The
\* ledger row is there before the facts are, so a unit is excepted while a crawler is at it,
\* and when one has given up between the two.
CursorMeansWrittenUnlessCut ==
  1..mark \subseteq settled \cup {unit[c] : c \in {d \in Crawler : Ingesting(d)}}

-----------------------------------------------------------------------------
(* The inductive invariant. *)

Stored(u) == \E s \in Copies : s.unit = u

\* A crawler is at the unit, or has been.
Covered(u) == u \in settled \/ \E c \in Crawler : Ingesting(c) /\ unit[c] = u

\* What an ingest has stored it settles, whatever becomes of it.
StoredIsCovered == \A s \in Copies : Covered(s.unit)

\* Each hash of a row, by itself, is that of a version of the unit that was stored.
RowInv(u) ==
  ledger[u] # NoRow =>
    /\ [unit |-> u, content |-> ledger[u].content] \in Copies
    /\ \E w \in Version : /\ w.native = ledger[u].native
                          /\ [unit |-> u, content |-> w.content] \in Copies

\* The units before that of an open page are stored, and its own is once its ingest is over;
\* what an ingest found it has nothing to do for is.  A row that a transaction has written is
\* the one it read.
PageInv(c) ==
  /\ pc[c] \notin {"idle", "reset"} => \A u \in 1..(unit[c] - 1) : Stored(u)
  /\ pc[c] = "touch" => Copy(c) \in Copies
  /\ pc[c] \in {"write", "get", "set"} => Stored(unit[c])
  /\ pc[c] = "commit" => lock[unit[c]] = c /\ SameRow(c)

IInv ==
  /\ TypeOK
  /\ CursorLeavesNoGap
  /\ NamesLastEvent
  /\ StoredIsCovered
  /\ \A u \in Unit : RowInv(u)
  /\ \A c \in Crawler : PageInv(c)
=============================================================================
