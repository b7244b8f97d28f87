# Verification of Agentic Memory

TLA+ models of the service in `src/` (Python, SQLAlchemy, PostgreSQL), the TLC runs that check
them on small instances, and TLAPS proofs of what matters most for every instance.
`PROJECT.json` lists the runs, the mutants of each property, the lines that every definition
translates, the findings, the hazards and the theorems.

    tlc -workers 2 -config MCFactStore.cfg MCFactStore.tla      # a run
    tlapm FactStoreProofs.tla                                   # a proof

## 1. The system

One process serves MCP tools (`mcp_server.py`) and REST routes (`routers/`) over one PostgreSQL
database. Every call opens a session, runs one service function, and commits
(`mcp_server._run`, `routers/common.run`). A `DomainError` or `ValueError` rolls back and becomes
an answer; any other exception leaves the `async with`, which rolls back too, and the caller
gets an internal error. Transactions run at READ COMMITTED. There is no retry, no
application-level lock and no queue: components interact through tables only, so everything
that is hard in this system is in how the transactions of different calls interleave, in what
the agents remember between calls, and in what happens when one of several steps fails.

| Component | State | Operations | Hard | What makes it correct |
|---|---|---|---|---|
| L3 facts (`fact_service.py`) | `l3_facts`, `l3_revisions`, sources, links | `write_fact`, `write_facts` (savepoint per item), `get_fact`, `get_fact_history`, `link_facts` | concurrent creates, stale `base_revision`, partly failing batches, deadlocks on facts and on cited raw events, lost answers, cut answers | no update lost; history complete; a truth recorded once; no answer from a rolled-back row; a batch's items independent; every call ends |
| L4 raw events (`raw_service.py`, `partition_service.py`, `scheduler.py`) | `l4_raw_events` and its monthly partitions | `log_raw_event`, `get_raw_context`, touch, daily maintenance | debounce, rows that move between partitions, drops racing touches, missed runs | an event is kept after a use; a partition is there when needed; expired events go |
| L1 notes and policies (`l1_service.py`, the approval dialog) | `l1_notes` | `plan_note`, dialog, `upsert_note`, `delete_note` | the plan is old when the answer comes; the row is read twice; column-wise updates | a policy has a text and a channel the user approved |
| Ingest ledger (`ingest_service.py`) | `ingest_units`, `ingest_watermarks` | `check_source_units`, `ingest_source_unit`, `upsert_watermark`, `reset_source_ingest` | retries that overlap, crash between ingest and facts, blind cursor writes, reset | nothing skipped that was not stored; the cursor leaves no gap |
| L2 namespaces (`namespace_service.py`) | `l2_namespaces` | `upsert_namespace`, `build_key`, `validate_fact_key` | template change against a concurrent write; overlapping namespaces | a fact's key matches its namespace's template |
| Global directory (`global_service.py`) | people, identities, teams, members, notes | upserts, `set_team_members` | concurrent replacement and claims | an account has one owner; a member list is one that somebody sent |
| L1 projects, sources | `l1_projects`, `l1_sources` | find-or-create, `set_overview`, `upsert_source` | first calls racing; the project is flushed before the note is | one row per key; no call goes on in a project that may be taken back; `upsert_note` makes no project without a note |
| Embeddings (`embedding.py`, `scripts/embed_backfill.py`) | `l3_facts.embedding` | embedding inside `write_fact`; backfill | backfill overwriting a newer vector; endless rounds; deadlocks with batches; a server not restarted yet | the vector belongs to the text; exit 0 means complete; the script ends once plain writes do |
| Paged lists and overview (`list_*`, `get_fact_history`, `get_overview`) | none but the agent's offset | pages by OFFSET and LIMIT; the count and hint of the overview | lists that change between two pages; limits out of range; a count taken later than the list | no row missed that stayed in its place; a reader comes to an end; no hint means all was shown |
| Search, SQL tool, redaction, config, auth | none that changes | reads, text processing | - | - |

Interactions: `write_fact` cites raw events and touches them (L3 to L4) in its own transaction;
`ingest_source_unit` writes L4 and the ledger together; agents carry revisions, raw event ids
and cursors and offsets from one call to the next, so an agent's memory is part of the models.
The backfill script is a second process on the same tables.

## 2. The models

Every concurrent module splits a call where its statements reach the database; between two
such points other transactions run. A transaction's own writes are private until its commit.
PostgreSQL itself (row locks, unique indexes, table locks, the deadlock detector, READ
COMMITTED) is modelled from how the code uses it.

**FactRegister** is what the fact memory promises: an append-only history per key, to which an
agent may append only after having been shown its end. One call may append to several keys.

**FactStore** is `fact_service.py` with its transactions. `fact` and `revisions` are the
committed tables; `rows` and `revs` what an open transaction has flushed; `lock` the row
locks, or the entry of an uncommitted row in the unique index; `save` the savepoint of
`begin_nested`; `view` what each agent was last shown, which is where its `base_revision` and
the value it merges into come from; `learned` the answer being put together. The steps of an
item are the code's, in order: `_lock_fact` (`FOR UPDATE` waits for a row, and locks nothing if
there is none), the revision check (`Conflict`), the change type (`WrongChange`), the unchanged
check (`Unchanged`), the flush of the fact (`FlushFact`, `UniqueViolation`), the revision
(`AddRevision`), a touch of each raw event its sources cite, in the caller's order and with the
fact's row locked (`TouchRawEvent`), the commit with its answer delivered or lost. `Refuse` is every error that the
batch loop catches, `Fail` every other one and the death of the process, `DeadlockVictim` what
PostgreSQL does about a cycle of waits. A value is the set of agents whose truth has been
merged into it; the operator `Shown` is `sanitize_and_truncate`. `Citations` are the orders in
which sources cite raw events and `cites` the ones still to be touched; what a touch does to its
event is in `RawRetention`, here it locks the event's row (`lock` is over facts and events), waits
for it, and may find nothing to renew. A single `write_fact` is a
batch of one, for which rolling back to the savepoint and rolling back are the same.

**RawRetention** is one table partitioned by month. A call logs, reads or cites an event;
`Touch`, `TouchNothing`, `TouchWaits` and `TouchMoved` are the outcomes of the one UPDATE of
`touch_raw_event`, `NoPartition` of a write whose month has no partition. The job is
`EnsurePartitions`, `ListExpired`, `DropIdlePartitions`, `CommitJob` or `FailJob`, in one
transaction; its DDL needs the table to itself. Time is counted in days. Months are counted through
the years, and `next_month` and `months_ago` compute year and month as the code does, the turn of
the year included. An event that is logged gets the day of its INSERT, a touch that of its
transaction's start (`RowDay`): past the midnight that ends a month the two need different partitions.
Simplifications: months have the same length in days; only one maintenance job runs at a time; a transaction spans at
most one midnight. Pages after the first are not touches in the code, and are not modelled.

**PolicyNotes** is one note. `AskNobody`, `AskUser`, `Accept` and `Decline` are the dialog;
`PutNote` and `DeleteNote` the REST routes; `PlanNote`, `Unchanged`, `Refuse`, `FindNote`,
`Flush`, `FlushFails` and `Commit` are `upsert_note` with its two reads. `Written` is the UPDATE
that SQLAlchemy makes: only the columns whose value differs from the one read. The history
variable `consents` has what users approved; `raced` says that two upserts have ever been
between their plan and their commit at once. The call also finds or creates the project
(`FindProject`, `InsertProject`, `ProjectTaken`): `maker` is the transaction that has inserted the
row and its first source and not ended yet. A client that cannot show a dialog is refused
before anything happens, which is no step. `set_project_overview`, which makes a project without a
note, is not modelled. Title, content and priority are one text.

**IngestLedger** is one stream of one source, and crawlers that follow the skill for a page of
one unit: check, ingest, facts, cursor. `events` is L4 in commit order. Two ingests of a unit
meet in `Flush`, which waits for the other's row and fails on the unique index or on a row that
a reset has deleted. `settled` has the units whose facts were written and those whose ingest
ended before that. `Resend` is an ingest repeated because its answer was lost. Raw events
are not dropped in this module: the ledger is meant to outlive them. Hashes are elements of a set as
they are after `.strip().lower()`, so two spellings of one hash are one. A crawler may check a unit by
one of its hashes or by both (`Agrees`), as a source without native hashes does. A unit may have
any version each time it is fetched: the source is outside.

**Namespaces** is a few namespaces of one project and the facts filed under them. Names and keys
are sequences of segments, so that "begins with the namespace and a dot" is a prefix; a template
is the tail after the namespace, of literal segments and slots; what `slugify` does to a text is a
constant function, which may yield nothing (`NoSlug`, a missing part). `FindNamespace`,
`CountFacts`, `RefuseTemplate` and `PutNamespace` are the SELECT, the count of the facts and the
write of `upsert_namespace`; `ResolveKey`, `BuildFactKey`, `GiveKey`, `ValidateKey`, `RefuseKey`,
`FindNothing`, `WriteRevision` and `InsertFact` are a write from the key rule to its commit. An agent may
hold a built key for as long as it likes before it writes. Each of these calls writes one row,
last, so its flush and its commit are one step. The validation reads all templates again: the
session's identity map holds rows weakly, and nothing keeps the row that the key was built from.
The history variable `overlapped` has the keys whose namespace changed its template between the
build and the end of a write. `home` has the namespace of each fact; a later revision does not
file it anew. Summary, kind and keywords have no part in the key rule, and keys typed by hand,
which the skill forbids, are not enumerated.

**Directory** is the people, their accounts, one team and its members. The steps of
`upsert_person` are the row of the person (`FlushPerson`), and for each account the SELECT
(`FindIdentity`, `RefuseIdentity`) and the INSERT that the next SELECT flushes (`InsertIdentity`).
A replacement of members is `SeeMembers` and `DeleteMembers`, the two halves of a DELETE that
looks for rows and then waits for those that others have deleted, an `InsertMember` for each
member and `CommitMembers`; `upsert_team` first has the row of the team (`FlushTeam`),
`set_team_members` does not. The first `upsert_team` inserts the team (`new`), and one without a
list leaves the members alone. The history variables say what an answer rests on: `lost` are the
accounts freed since a call read them, `mixed` whether the last replacement met one that the
team's row does not exclude. The other columns of people and teams, and the writes of global
notes, are not modelled.

**EmbedBackfill** is the vectors of a few facts. Texts and vectors are revision numbers, so "the
vector is of the text" is an equality. `WriteFact`, `WriteWaits`, `RefuseWrite`, `CommitCall` and
`FailCall` are `write_facts` as far as it locks rows and leaves a vector or, on a server without
semantic search, none; creating a fact is its first revision. `TurnOn` is the restart with the
setting on, which ends open calls. The script is `Select`, `Embed` and `EmbedFails` for each row
of the batch, `Update` for each row it flushes, in the order of ids as SQLAlchemy does, and
`CommitBatch` with the test that makes it give up; `Die` is a kill or a database error. The
order of the rows inside a batch does not matter for what the service answers and is left open.
The history variables are `during`, the facts last written while the script held an older text
of them, and `late`, those left without a vector after its last SELECT.

**Listing** is one list and one reader. The service has four kinds of list, by what may happen
to their rows; rows leave all of them but the history of a fact, lists by key when the call asked for a
query that a row matches no more (the head of the module says which is which), and `kind` picks one. `NextPage` is a
call with OFFSET and LIMIT and what the agent does with the answer: it adds the `limit` of the
answer to its offset, until a page is not full. `ShowPolicies` and `CountPolicies` are the two
statements of `get_overview`. `stayed` and `left` are history: the rows that have not moved since
the reader began, and whether a row it counted on has left. `clean_offset` appears as offsets
that start at 0.

The modules `MC...` only give constants their values. The theorems about a module
`M` are in `MProofs`; all but `FactRegister` have one. The modules
meet where the code does: `FactStore` implements `FactRegister`; the others share no rows with it that its properties speak of, except
the raw events a fact cites (their locks are in `FactStore`, their partitions in `RawRetention`, and the
composition is in the plan), and the rows that `EmbedBackfill`
and `FactStore` both have: the one looks at their vectors, the other at their revisions.

## 3. The runs

| Run | What it asks | Bounds, and why they are enough |
|---|---|---|
| `facts` | the safety of L3, and that it implements `FactRegister` | 2 agents, 2 keys, batches of 1 or 2 items. Two agents are enough for every race of two transactions, two keys for batches in opposite orders and for an item that fails after one that was written. 2 raw events, cited in either order or not at all: enough for two writes that touch them in opposite orders. Values are sets of agents, and the unchanged check ends each agent's contributions to a key, so the state space is finite without a bound on the number of calls. |
| `facts_live` | every call ends | the same agents, keys and events, with batches of two items in opposite orders and creates of a single fact, each citing the events in either order: the calls that can deadlock |
| `facts_items` (violated) | items of a batch stand alone | as `facts`, without citations |
| `facts_merge` (violated) | merged truth survives | one key, no citations, an answer that shows the truth of one agent |
| `raw` | retention, partitions, the run's result | 1 event, 2 agents, months of 2 days, window 1, debounce 2, days 20 to 29: five months, November to March, so the year turns in the middle, and an event is logged, touched, debounced, expired and dropped, with runs missed anywhere; two agents for the wait on a row |
| `policies` | approval of policies, the project of the first notes | 2 callers, 2 texts, no project at first, the note created at most twice: enough for a save that overlaps a save, a deletion and a re-creation |
| `policy_text` (violated) | approval without the exception for overlaps | as `policies` |
| `ingest` | nothing skipped, no gap, facts before the cursor | 2 crawlers, 2 units, 3 versions (one content with two native hashes), 3 raw events, 1 reset: a change, a change back and a retry, and a cursor that can be behind or ahead |
| `namespaces` | the key rule | 2 callers; 2 namespaces, one within the other, with 2 templates each, that accept keys in common; 2 sets of parts, one incomplete for the outer namespace. Two callers are enough for a template that changes between the build, the validation and the insert of a write; the number of calls is not bounded. |
| `directory` | accounts and member lists | 2 callers, 2 people, 2 accounts: claims in opposite orders, lists that overlap in part. The number of calls is not bounded. |
| `backfill` | vectors, exit code, end of the script | 1 agent, 3 facts of at most 2 revisions, one of them refused by the service, batches of 2: a batch of a good and a refused fact, a last batch that is not full, a call that takes two rows against the order of the flush, and facts rewritten at any point. A second agent would only add races of agents, which `facts` has. |
| `lists` | paging and the overview | 4 rows, default limit 1, cap 2, limits from below 1 to above the cap: up to four pages, with every change between two of them |

Every property of a passing run has a mutant in `PROJECT.json`: an operator beside the
definition it alters (`LockAnyBase`, `NextInYear`, ...), with which TLC finds the property
violated. Deadlock is checked in every run. Symmetry is used for agents, callers and crawlers,
which only enter by equality, in `facts` for keys and in `directory` for people and accounts; no
run with a liveness property uses it. `MaxRev`, `MaxRows`, `MaxEvents`, `MaxResets` and `MaxDay` are the
bounds of counters.

### What the properties say

- `NoLostUpdate`: each revision was made by somebody who had been shown the one it replaces.
- `HistoryExplainsFact`: the fact row is its newest revision; numbers have no gap.
- `OncePerTruth`: a repeated call does not record its truth a second time. It needs answers
  that show the whole value.
- `AnswersAreCommitted`: no answer carries a row that a savepoint or a rollback takes back.
- `KeptAfterUse`: an event is not dropped before `Window * MonthDays - TouchMin` days have passed
  since an answered call used it. The README of the service promises the whole window; the
  debounce takes up to `l4_touch_min_days` off it, which the property makes explicit.
- `CallsFindPartition`, `RunClears`: the job prepares the next month, and leaves nothing expired. One
  call does fail, and the property excepts it: one that logs an event, begun in the month after
  that of the last run, whose INSERT comes past the midnight that ends this month
  (`raw_service.py:74, 83-84`; `NoPartition`).
- `WaitLosesNothing`: a touch that waits for a row another call is moving fails with an error
  nobody catches when the row turns up in another partition. By then the event has been renewed to
  within a day of what the failed call would have written, so only the call is lost.
- `TextApprovedUnlessRaced`, `UnbindApprovedUnlessRaced`: late answers and deletions do not defeat
  approval; only overlapping upserts do. `BindNeedsApproval` and `PolicyHasDate` hold for these too.
- `WorksInAProject`, `NoStrayProject`: two first notes race for the project. The second insert
  waits for the first and then fails, if the first has committed; no call goes on in a project
  that may still be rolled back, and an `upsert_note` that fails leaves no project behind. This is
  about `upsert_note` only: `set_project_overview` commits a project without a note by design.
- `SkippedIsStored`, `CursorLeavesNoGap`, `NamesLastEvent`: what the ledger says agrees with L4.
- `CursorMeansWrittenUnlessCut`: `models/ingest.py:55` says to advance the cursor only after the
  units were "ingested and written". The ledger row is committed with the raw event, before the
  facts, so a unit whose ingest was cut short (a session that ended, a call that failed) is
  "unchanged" for the next crawl, and the cursor passes it without facts; so is a unit that
  another crawler is still at. In all other cases the cursor means what it says.
- `KeysMatchUnlessOverlapped`: the count of facts in `upsert_namespace` takes no lock, so a write
  under way escapes it, and the property excepts the keys of such writes; in every other case a fact
  matches the template it is filed under.
- `SamePartsOnceFiled`: once parts have landed on a fact filed under their own namespace, they
  find it again. The qualification is needed: with namespace `d` (template `d.{x}.{y}`) and `d.api`
  (`d.api.{x}`), the parts x=api, y=pay given for `d` make the fact `d.api.pay`, which is filed
  under `d.api`; the template of `d` is then free to become `d.{y}.{x}`, and the same parts make
  a second fact, although the skill (`SKILL.md:100-101`) says they always land on the same one.
- `SavedIsOwned`: when an `upsert_person` commits, every account it will report as saved is its
  person's, those it has inserted and those it found to be the person's already, unless one was
  deleted after the call had read it.
- `LastListUnlessMixed`: the members are those of the last list committed. The DELETE does not
  see rows that a concurrent replacement has inserted, so two lists can be merged, which the property
  excepts until the next replacement; two
  `upsert_team` cannot, because each has the team's row first.
- `VectorOfTextUnlessOverlapped`: the UPDATE of the script names the row and nothing else. A fact
  that was written after the script had read it ends with the vector of its old text, or, if the
  server is without semantic search still, with a vector of a text it no longer has; the script
  never looks at it again, and only the next write mends it. No other order of steps does this.
- `ExitZeroMeansComplete`: with batches of at least one row (`--batch 0` is accepted, selects nothing
  and exits with 0 at once), exit 0 means that no fact is left without a vector, but for those a
  server not restarted yet has written since the last SELECT. A script that gives up (as many
  failures as successes) exits with 1, and may leave facts that the service would have accepted.
- `BackfillEnds`: the facts the service refuses are selected again in every round; the counters
  never start anew, so the failures catch up with the successes. That needs a condition, which is
  the hypothesis of the property: the writes of a server without semantic search stop
  (`PlainWritesStop`). A server that is not restarted and goes on rewriting facts gives each round
  new ones to embed, `done` grows ahead of `failed`, and the loop of the script has no end. In the
  instance `MaxRev` stops the writers, so the condition holds in all its behaviours. In a deadlock with a
  `write_facts` PostgreSQL may end the script, which guards only the embedding call.
- `SeesWhatStayed`: rows may be missed by a reader of pages, but only when a row has left the part
  of the list that the reader had passed: a note deleted, a policy demoted, a source switched
  off, a person renamed so that the query of the call does not match any more. Of a history no row
  leaves. New rows and rows that move to the front make it see rows twice, not miss any that stayed.
- `HintOrAllShown`: `get_overview` hints at further policies by a count it takes later; without
  the hint the agent has every policy, unless one it was shown has left meanwhile.
- `ReadingEnds`: a reader comes to an end, whatever limit it asks for, in a list that has at most
  four rows at a time: `list_limit` makes each page at least one row long. (A list that grows
  faster than it is read has no end; nothing in the service prevents that.)

### Findings

Three runs show a disagreement between the code and what its documentation says; the quotes
are in `PROJECT.json`.

1. `ItemsStandAlone`: the IntegrityError of a racing create leaves `write_facts` and takes the
   whole batch with it (`fact_service.py:273`).
2. `MergesSurvive`: agents merge into values cut at 1500 characters (`fact_service.py:92`).
3. `PolicyTextApproved`: overlapping saves give a policy a text nobody approved
   (`l1_service.py:287`).
## 4. Fairness

Three runs assume any. `facts_live`: strong fairness of a client's next step in its transaction
(`Work`), because a step that waits for a row is enabled and disabled as others take and leave
the row while PostgreSQL's lock queue serves every waiter in turn; and weak fairness of
`DeadlockVictim`, because a cycle of waits stays until the deadlock detector finds it, which it
does after `deadlock_timeout`. Agents need not call, and nothing makes an item be refused or a
transaction fail.

`backfill`: weak fairness of the script's own steps and of a call's commit, which nobody can
prevent once they are possible, except the `Update` of a row, which waits for calls that come and
go, and has strong fairness because PostgreSQL serves those who wait for a row in turn; strong
fairness, for the same reason, of a call that waits for a row (it gets it, or is refused when it has
it); and weak fairness of `DeadlockVictim`. The embedding service answers or fails every request,
because both HTTP clients give up after a timeout (60 s in `ollama_embedding_client.py`, the default
of the library in `litellm_client.py`). It is not assumed that it ever accepts one or that a
server is restarted. That calls stop writing facts without a vector is not fairness but the hypothesis
`PlainWritesStop` of `BackfillEnds`; `MaxRev`, the bound of the instance, makes it true there. `lists`: weak fairness of the agent's next page. An agent
that has begun to read a list goes on; that is all.

The other runs assume none.

## 5. What is proved

Every safety and action property that a passing run checks, and the refinement, is a theorem.
All theorems are proved from the named assumptions on the constants: the owner of a free lock
is no client and the null of a column no value of it, sizes are positive, `Shown(v)` is a subset
of `v`, keys of facts are no raw events, an item cites a sequence of events, the debounce is not longer than the window; for notes, there is a text; for the ledger,
there is a version and a native hash goes with one content; for the backfill, the script is no
writer and a batch is a number, zero included; for lists, limits are integers and the default and the cap are
positive; namespaces and templates are sequences of segments and slots, a template has a slot,
segments are not slots, and a slug is a segment or nothing. The sets of agents, keys, events, texts,
versions, people, accounts and namespaces, the batch size, the citations, the lengths of months, window and
debounce, `Shown`, the templates, `Slug` and the bounds of the runs are arbitrary.

**FactStoreProofs.** `IInv` is the inductive invariant. The safety properties are not inductive:
they speak of committed tables, and what a commit adds was put together steps before.
`SavepointInv` and `ItemInv` say of each row that an open transaction has flushed that it is the
successor of the committed row, that the transaction holds its lock, and that the agent had been
shown the committed row; hence no other transaction can commit to that key meanwhile.
`AnswerInv` says that what agents were shown is committed, and what an answer will show them is
committed or among the transaction's own rows. The proof has one lemma per action; the theorems
`TypeCorrect`, `NoUpdateIsLost`, `HistoryIsComplete` and `NoUncommittedAnswer` follow. The touches add
one step per event, in which the item's row and revision are flushed already. `StoreImplementsRegister` maps the revisions to the register's history and the revision
numbers of `view` to what clients know; a commit is a contribution to the keys of its rows,
`GetFact` is a `Learn`, everything else a stutter.

Two theorems have the hypothesis `ShowsWhole`, that nothing is cut from what readers are shown;
without it they are false (`facts_merge`). `OnceInv` is inductive together with `IInv`:
`NewTruth` follows a truth from the unchanged check, which finds it missing in the fact, through
the flush and the savepoint to the commit, all under the lock of the row; `TruthsKept` says that the
fact keeps the truth of each of its revisions. `TruthsAreRecordedOnce` and `WholeMergesSurvive`
follow. `MergesSurvive` has no passing run, so `WholeMergesSurvive` stands without one.

`SingleWritesDoNotDeadlock` has two hypotheses: `MaxItems = 1`, every call is a `write_fact` alone, and
`CitesOneAtMost`, an item cites one raw event at most. `SingleInv` says that such a call has no lock
when it begins to wait for a fact, only its fact's when it waits for an event, and waits for nothing
once it has an event's: so nobody in a cycle waits for an event, and nobody waits for those who wait
for a fact. Without either hypothesis TLC finds cycles in a few steps: two batches that take facts in opposite orders, or
two single writes of different facts that cite the same two events in opposite orders. `EveryCallEnds`
needs the deadlock detector for both.

**RawRetentionProofs.** `IInv` relates the calls, the locks and the job. `EventInv` has the bound
`used <= touched + TouchMin`, which the debounce keeps; `LockInv` and `CallInv` say what a call
that is about to commit has seen; `JobInv` says that a job that holds the table is alone in it,
that what it has listed is expired and complete, and that the last run left two months of
partitions. Lemmas say that `next_month` and `months_ago` are the successor and the difference of months
counted through the years, for every year. `RunsClear` and `PartitionsSuffice` follow; `UseKeeps` adds the arithmetic of
months. `WaitsLoseNothing` is proved beside it: while a call waits, the row can only be
changed by a call whose transaction began in the same days, which the invariant and the bound of
one midnight for a transaction give.

**NamespacesProofs.** `BuiltKeyMatches` is about the operators alone: what `build_key` makes of
complete parts is accepted by `key_matches`. The invariant `IInv` carries what a call has read
through its later steps. `ChangeInv`: when an upsert has counted no facts, every fact filed under
its namespace since is overlapped, so that its write of the template disturbs no other fact.
`WriteInv`: the key of a write is still what the template of now builds, and the home it found
still accepts it, or the key is overlapped. `FactInv` and `WrittenInv` say the same of committed
facts and of the parts they came from. `TypeCorrect`, `KeysMatch` and `PartsAgree` follow.

**EmbedBackfillProofs.** `BatchInv` says what the script knows of its batch: the text it holds of a
row is the current one, or the row is in `during`; hence the vectors it commits are of the text
or of an overlapped row. `LockInv` bounds the revision of locked rows. `VectorsAreOfTheText` and
`ExitZeroIsComplete` follow, for any number of facts and writers, any batch and any refused facts; the second speaks of
batches of at least one row.

**ListingProofs.** `PlaceInv` is the loop invariant of paging: as long as nothing has left the part
that was passed, a row that stayed has been seen or is still beyond the offset. The lemmas say what
inserting, removing and moving a row does to the places of the others. `NoneMissed` and
`HintIsEnough` follow, for any rows, limits, default and cap; the last
one adds that as many rows as were shown, all still there, are all there are.

**PolicyNotesProofs.** The properties speak of the note; its text was decided on when the call
asked, planned and found it, three reads of different ages. `IInv` follows a call through them:
`ConsentInv` (a channel stands for a consent to what is saved), `PlanInv` (a policy is saved only
if the plan asked for approval or found it in place), `FreshInv` and `FoundInv` (as long as
nobody overlaps, which `SoleInv` spells out, the plan is still true of the row, or the row is gone),
`CommitInv` (the row a call is about to commit is the one it read). The action properties
`UnbindingIsApproved` and `BindingIsApproved` need one more step: only a `Commit` changes a row
that stays (`NoteIsCommitted`), and it writes the caller's own text unless upserts have raced.

**IngestLedgerProofs.** Columns of a ledger row may come from different ingests, and the row
from before a reset. `RowInv` says of each hash by itself that it is that of a stored version; with
both hashes, or with one whose content it determines, a match means that this content is stored
(`SkippedUnitsAreStored`). `PageInv` carries what an open page has behind it: the cursor it will set
lies behind stored units only (`NoGapBehindCursor`). `StoredIsCovered` says that every stored unit
is settled or has a crawler at it, from which `CursorPassesWrittenUnits` follows.

**DirectoryProofs.** The invariant is about pairs of calls. `PairInv`: two calls do not claim
the same account and do not both have the team's row, and two that replace the members at once
both know it. `AccountInv` says that a claimed account is free until the commit, and one found to
be the person's still is; `OldListInv` that a replacement which met no other is
deleting the whole old list; `ListInv` that what it has inserted and still has to insert is the
new one. `SavedAccountsAreOwned` and `MembersAreTheLastList` follow.

Each inductive invariant was first run through TLC on the instance of its module, and may be put
into the `INVARIANTS` of `MCFactStore.cfg` (`OnceInv` too, and `SingleInv` with `MaxItems = 1` and one citation at most), `MCRawRetention.cfg`, `MCPolicyNotes.cfg`,
`MCIngestLedger.cfg`, `MCNamespaces.cfg`, `MCDirectory.cfg`, `MCEmbedBackfill.cfg` and
`MCListing.cfg` at any time.

Model-checked only: `EveryCallEnds`, `BackfillEnds` and `ReadingEnds` (liveness under fairness, and
ENABLED, are out of the prover's reach), and that no run deadlocks.

## 6. What is not modelled

Search and ranking, the SQL guard, secret redaction, configuration and authentication: no state
that changes, or text processing that the models abstract. Input validation appears as an item
or call that is refused. `link_facts` inserts one row by primary key; `upsert_source`,
`set_overview` and `upsert_global_note` put the columns of one row found or created by its key, the
pattern of projects in `PolicyNotes`, people in `Directory` and, for columns that are written
blindly, the watermark in `IngestLedger`. `list_watermarks` has no pages. Units keyed by their content hash, and
the composition of facts with the raw events they cite, are planned below.

## 7. Plan

Done: `FactRegister`, `FactStore`, `RawRetention`, `PolicyNotes`, `IngestLedger`, `Namespaces`,
`Directory`, `EmbedBackfill` and `Listing`, their runs, and the proofs of all their safety and action
properties and of the refinement.

Next, in this order:

1. Facts citing raw events: `FactStore` and `RawRetention` composed, so that a failing touch is
   seen to undo the fact that cites the event.
2. Units keyed by their content hash in `IngestLedger`.
