---------------------------- MODULE RawRetention ----------------------------
(***************************************************************************)
(* L4 raw events: a table partitioned by the month of last_touched_at.     *)
(* Reading the first page of an event and citing it in a fact renew it     *)
(* (touch_raw_event), at most once per TouchMin days; a daily job creates  *)
(* the partitions of this month and the next and drops the ones that are   *)
(* past the idle window.                                                   *)
(*                                                                         *)
(* An agent's call is a transaction that logs, reads or cites one event.   *)
(* The job is a transaction of its own.  A step is what happens between    *)
(* two statements that reach the database.  The job's CREATE and DROP lock *)
(* the table exclusively until it ends; every other statement on the table *)
(* holds it shared until its transaction ends.                             *)
(***************************************************************************)
EXTENDS Integers

CONSTANTS Agent,      \* callers of the service; each has at most one call in flight
          Event,      \* raw_event_ids
          Nobody,     \* the owner of a row lock nobody holds
          MonthDays,  \* days of a month: every month has as many
          Window,     \* l4_idle_retention_months
          TouchMin,   \* l4_touch_min_days
          FirstDay,   \* the day of the migration
          MaxDay      \* the last day of the behaviours that are looked at

ASSUME NobodyAssumption == Nobody \notin Agent
ASSUME EventAssumption == Event # {}
ASSUME MonthDaysAssumption == MonthDays \in Nat \ {0}
ASSUME WindowAssumption == Window \in Nat \ {0}
ASSUME TouchMinAssumption == TouchMin \in Nat /\ TouchMin <= Window * MonthDays
ASSUME DaysAssumption == FirstDay \in Nat /\ MaxDay \in Nat /\ FirstDay <= MaxDay

VARIABLES
  day,        \* today
  partitions, \* the months that have a partition
  state,      \* new: not logged yet; stored; dropped with its partition
  touched,    \* last_touched_at of each stored event, by day
  used,       \* the last day an answered call logged, read or cited the event
  rowlock,    \* the transaction that has inserted or touched the event's row
  op,         \* what an agent's call is doing
  ev,         \* the event it is about
  began,      \* the day its transaction began: now() in its statements
  pc,         \* where its transaction is
  seen,       \* last_touched_at of the event it has logged, or of the row version its touch
              \* waits for
  job,        \* where the maintenance transaction is
  jobDay,     \* the day it began
  created,    \* the months it has created a partition for
  doomed,     \* the months it has listed as expired
  lastRun     \* the day the last successful maintenance began

events == <<state, touched, used>>
calls == <<rowlock, op, ev, began, pc, seen>>
maintenance == <<job, jobDay, created, doomed, lastRun>>
vars == <<day, partitions, events, calls, maintenance>>

Days == FirstDay..MaxDay

\* month_start: months are counted through the years, and so are days.
Month(d) == d \div MonthDays
YearOf(m) == m \div 12
MonthOf(m) == (m % 12) + 1
Date(year, month) == 12 * year + month - 1

\* Mutant: the month after December is in the same year.
NextInYear(m) ==
  IF MonthOf(m) = 12 THEN Date(YearOf(m), 1) ELSE Date(YearOf(m), MonthOf(m) + 1)

next_month(m) ==
  IF MonthOf(m) = 12 THEN Date(YearOf(m) + 1, 1) ELSE Date(YearOf(m), MonthOf(m) + 1)

\* Mutant: the month before January is in the same year.
AgoInYear(m, n) ==
  LET rounds == IF n < MonthOf(m) THEN 0 ELSE ((n - MonthOf(m)) \div 12) + 1
  IN  Date(YearOf(m), MonthOf(m) - n + 12 * rounds)

\* The loop adds a year's months until the month is positive again: so many rounds.
months_ago(m, n) ==
  LET rounds == IF n < MonthOf(m) THEN 0 ELSE ((n - MonthOf(m)) \div 12) + 1
  IN  Date(YearOf(m) - rounds, MonthOf(m) - n + 12 * rounds)

TypeOK ==
  /\ day \in Days
  /\ partitions \in SUBSET Nat
  /\ state \in [Event -> {"new", "stored", "dropped"}]
  /\ touched \in [Event -> Days]
  /\ used \in [Event -> Days]
  /\ rowlock \in [Event -> Agent \cup {Nobody}]
  /\ op \in [Agent -> {"log", "read", "cite"}]
  /\ ev \in [Agent -> Event]
  /\ began \in [Agent -> Days]
  /\ pc \in [Agent -> {"idle", "begun", "touch", "blocked", "commit"}]
  /\ seen \in [Agent -> Days]
  /\ job \in {"idle", "ensured", "listed", "dropped"}
  /\ jobDay \in Days
  /\ created \in SUBSET Nat
  /\ doomed \in SUBSET Nat
  /\ lastRun \in Days

\* The migration creates the first two partitions; nothing has been logged.
Init ==
  /\ day = FirstDay
  /\ partitions = {Month(FirstDay), next_month(Month(FirstDay))}
  /\ state = [e \in Event |-> "new"]
  /\ touched = [e \in Event |-> FirstDay]
  /\ used = [e \in Event |-> FirstDay]
  /\ rowlock = [e \in Event |-> Nobody]
  /\ op = [a \in Agent |-> "log"]
  /\ ev = [a \in Agent |-> CHOOSE e \in Event : TRUE]
  /\ began = [a \in Agent |-> FirstDay]
  /\ pc = [a \in Agent |-> "idle"]
  /\ seen = [a \in Agent |-> FirstDay]
  /\ job = "idle"
  /\ jobDay = FirstDay
  /\ created = {}
  /\ doomed = {}
  /\ lastRun = FirstDay

-----------------------------------------------------------------------------
(* What the steps are made of. *)

\* The transaction has made a statement on l4_raw_events and holds the table shared.
InTable(a) == pc[a] \in {"touch", "blocked", "commit"}
TableFree == \A a \in Agent : ~InTable(a)

\* The job holds the table exclusively.
Exclusive == created # {} \/ (job = "dropped" /\ doomed # {})

Stored(a) == state[ev[a]] = "stored"

\* The WHERE clause of touch_raw_event: last_touched_at < now() - min_days.
Stale(a) == touched[ev[a]] + TouchMin < began[a]

\* The day a row that is written now gets: now_utc() of the statement for an event that is
\* logged, now() of the transaction for a touch.  Its partition must be there.
RowDay(a) == IF op[a] = "log" THEN day ELSE began[a]
HasPartition(a) == Month(RowDay(a)) \in partitions

\* last_touched_at of the row the call has written.
Stamp(a) == IF op[a] = "log" THEN seen[a] ELSE began[a]

\* The end of a call's transaction, committed or not.
EndCall(a) ==
  /\ pc' = [pc EXCEPT ![a] = "idle"]
  /\ rowlock' = [e \in Event |-> IF rowlock[e] = a THEN Nobody ELSE rowlock[e]]
  /\ op' = [op EXCEPT ![a] = "log"]
  /\ began' = [began EXCEPT ![a] = FirstDay]
  /\ seen' = [seen EXCEPT ![a] = FirstDay]
  /\ UNCHANGED ev

Abort(a) == EndCall(a) /\ UNCHANGED <<day, partitions, events, maintenance>>

\* The next statement of a call: it changes nothing but the call's own state.
Goto(a, label) ==
  /\ pc' = [pc EXCEPT ![a] = label]
  /\ UNCHANGED <<day, partitions, events, op, ev, began, maintenance>>

\* The row is written and its lock held to the end of the transaction.
WriteRow(a) ==
  /\ rowlock' = [rowlock EXCEPT ![ev[a]] = a]
  /\ Goto(a, "commit")

-----------------------------------------------------------------------------
(* The steps of a call. *)

\* An event is logged once, under a fresh id; it can be read or cited afterwards.
Begin(a, what, e) ==
  /\ pc[a] = "idle"
  /\ IF what = "log" THEN state[e] = "new" /\ \A b \in Agent : pc[b] # "idle" => ev[b] # e
                     ELSE state[e] # "new"
  /\ op' = [op EXCEPT ![a] = what]
  /\ ev' = [ev EXCEPT ![a] = e]
  /\ began' = [began EXCEPT ![a] = day]
  /\ pc' = [pc EXCEPT ![a] = "begun"]
  /\ UNCHANGED <<day, partitions, events, rowlock, seen, maintenance>>

\* add_raw_event: the INSERT needs the partition of the month it is made in, which past
\* midnight is not always that of its transaction.
AddRawEvent(a) ==
  /\ pc[a] = "begun" /\ op[a] = "log" /\ ~Exclusive
  /\ HasPartition(a)
  /\ WriteRow(a)
  /\ seen' = [seen EXCEPT ![a] = day]

\* get_raw_context finds the event: its first page is a touch.
Find(a) ==
  /\ pc[a] = "begun" /\ op[a] = "read" /\ ~Exclusive
  /\ Stored(a)
  /\ Goto(a, "touch")
  /\ UNCHANGED <<rowlock, seen>>

\* get_raw_context does not find it: raw_dropped, with the links that facts kept.
RawDropped(a) ==
  /\ pc[a] = "begun" /\ op[a] = "read" /\ ~Exclusive
  /\ ~Stored(a)
  /\ Abort(a)

\* The statement of touch_raw_event is next, or waits for the row's lock.
AtTouch(a) ==
  /\ ~Exclusive
  /\ \/ pc[a] = "begun" /\ op[a] = "cite"
     \/ pc[a] \in {"touch", "blocked"}
  /\ pc[a] = "blocked" => rowlock[ev[a]] = Nobody

\* The version it waited for was replaced by one in another partition.
Moved(a) == pc[a] = "blocked" /\ Month(seen[a]) # Month(touched[ev[a]])

\* The UPDATE moves the row into the partition of its transaction's month.
Touch(a) ==
  /\ AtTouch(a) /\ ~Moved(a)
  /\ Stored(a) /\ Stale(a)
  /\ rowlock[ev[a]] = Nobody
  /\ HasPartition(a)
  /\ WriteRow(a)
  /\ UNCHANGED seen

\* It matches no row: touched recently, or dropped.  A citation stands without the event.
TouchNothing(a) ==
  /\ AtTouch(a) /\ ~Moved(a)
  /\ ~(Stored(a) /\ Stale(a))
  /\ Goto(a, "commit")
  /\ UNCHANGED <<rowlock, seen>>

\* Another transaction has the row: the UPDATE waits for it to end.
TouchWaits(a) ==
  /\ AtTouch(a) /\ Stored(a) /\ Stale(a)
  /\ rowlock[ev[a]] # Nobody
  /\ seen' = [seen EXCEPT ![a] = touched[ev[a]]]
  /\ Goto(a, "blocked")
  /\ UNCHANGED rowlock

\* PostgreSQL follows a row it waited for only inside its partition: "tuple to be locked
\* was already moved to another partition", an error no handler expects.
TouchMoved(a) ==
  /\ AtTouch(a) /\ Moved(a)
  /\ Abort(a)

\* No partition for the row: the statement fails, and the call with it.
NoPartition(a) ==
  /\ \/ pc[a] = "begun" /\ op[a] = "log" /\ ~Exclusive
     \/ /\ AtTouch(a) /\ ~Moved(a)
        /\ Stored(a) /\ Stale(a) /\ rowlock[ev[a]] = Nobody
  /\ ~HasPartition(a)
  /\ Abort(a)

\* Mutant: a touch keeps an event for as long as the next ones may be saved.
CommitAhead(a) ==
  /\ pc[a] = "commit"
  /\ state' = [state EXCEPT ![ev[a]] = IF op[a] = "log" THEN "stored" ELSE @]
  /\ touched' = [touched EXCEPT ![ev[a]] = IF rowlock[ev[a]] = a THEN Stamp(a) + TouchMin ELSE @]
  /\ EndCall(a)
  /\ UNCHANGED <<day, partitions, used, maintenance>>

\* Mutant: a touch adds the debounce to the last one, instead of taking today.
CommitOnLast(a) ==
  /\ pc[a] = "commit"
  /\ state' = [state EXCEPT ![ev[a]] = IF op[a] = "log" THEN "stored" ELSE @]
  /\ touched' = [touched EXCEPT ![ev[a]] = IF rowlock[ev[a]] = a THEN @ + TouchMin ELSE @]
  /\ EndCall(a)
  /\ UNCHANGED <<day, partitions, used, maintenance>>

\* The transaction commits and the call is answered.
CommitCall(a) ==
  /\ pc[a] = "commit"
  /\ LET e == ev[a]
         found == op[a] = "log" \/ Stored(a)
     IN /\ state' = [state EXCEPT ![e] = IF op[a] = "log" THEN "stored" ELSE @]
        /\ touched' = [touched EXCEPT ![e] = IF rowlock[e] = a THEN Stamp(a) ELSE @]
        /\ used' = [used EXCEPT ![e] = IF found /\ @ < Stamp(a) THEN Stamp(a) ELSE @]
  /\ EndCall(a)
  /\ UNCHANGED <<day, partitions, maintenance>>

\* Anything else that ends a transaction: an error later in it, the process dying.
FailCall(a) ==
  /\ pc[a] # "idle"
  /\ Abort(a)

-----------------------------------------------------------------------------
(* The maintenance job. *)

\* ensure_partitions: this month and next month.  CREATE ... IF NOT EXISTS locks the table
\* only if there is a partition to create.
EnsurePartitions ==
  /\ job = "idle"
  /\ LET missing == {Month(day), next_month(Month(day))} \ partitions
     IN /\ missing # {} => TableFree
        /\ created' = missing
  /\ job' = "ensured"
  /\ jobDay' = day
  /\ UNCHANGED <<day, partitions, events, calls, doomed, lastRun>>

\* Mutant: only the oldest expired partition is dropped.
ListOldest ==
  /\ job = "ensured"
  /\ doomed' = {m \in partitions \cup created :
                  m < months_ago(Month(day), Window) /\ \A n \in partitions : m <= n}
  /\ job' = "listed"
  /\ UNCHANGED <<day, partitions, events, calls, jobDay, created, lastRun>>

\* expired(list_partitions()): the months before months_ago(now, Window).
ListExpired ==
  /\ job = "ensured"
  /\ doomed' = {m \in partitions \cup created : m < months_ago(Month(day), Window)}
  /\ job' = "listed"
  /\ UNCHANGED <<day, partitions, events, calls, jobDay, created, lastRun>>

\* DROP TABLE of every listed name, whatever has happened since they were listed.
DropIdlePartitions ==
  /\ job = "listed"
  /\ doomed # {} => TableFree
  /\ job' = "dropped"
  /\ UNCHANGED <<day, partitions, events, calls, jobDay, created, doomed, lastRun>>

EndJob == job' = "idle" /\ jobDay' = FirstDay /\ created' = {} /\ doomed' = {}

CommitJob ==
  /\ job = "dropped"
  /\ partitions' = (partitions \cup created) \ doomed
  /\ state' = [e \in Event |-> IF state[e] = "stored" /\ Month(touched[e]) \in doomed
                               THEN "dropped" ELSE state[e]]
  /\ lastRun' = jobDay
  /\ EndJob
  /\ UNCHANGED <<day, touched, used, calls>>

\* Rolled back and logged; the next day tries again.
FailJob ==
  /\ job # "idle"
  /\ EndJob
  /\ UNCHANGED <<day, partitions, events, calls, lastRun>>

\* A day passes.  A transaction may span midnight, but never a whole day; the job may be
\* missed, so nothing makes it run.
NextDay ==
  /\ day < MaxDay
  /\ \A a \in Agent : pc[a] # "idle" => began[a] = day
  /\ job # "idle" => jobDay = day
  /\ day' = day + 1
  /\ UNCHANGED <<partitions, events, calls, maintenance>>

Step(a) ==
  \/ AddRawEvent(a) \/ Find(a) \/ RawDropped(a)
  \/ Touch(a) \/ TouchNothing(a) \/ TouchWaits(a) \/ TouchMoved(a)
  \/ NoPartition(a) \/ CommitCall(a) \/ FailCall(a)

Job == EnsurePartitions \/ ListExpired \/ DropIdlePartitions \/ CommitJob \/ FailJob

Next ==
  \/ \E a \in Agent :
       \/ \E what \in {"log", "read", "cite"}, e \in Event : Begin(a, what, e)
       \/ Step(a)
  \/ Job
  \/ NextDay

Spec == Init /\ [][Next]_vars

-----------------------------------------------------------------------------
(* Properties. *)

\* An event that was logged, read or cited in an answered call is kept for the idle
\* window, less the days a touch may be saved: whatever the job had listed before the call
\* renewed the event, and however the debounce and the length of a month fall together.
KeptAfterUse ==
  [][\A e \in Event : state[e] = "stored" /\ state'[e] = "dropped"
                        => day + TouchMin > used[e] + Window * MonthDays]_vars

\* A call that begins in the month in which the job last succeeded, or in the next one,
\* finds its partition until it ends, past midnight too: runs may be missed for a month, around
\* the turn of a month or a year, and the job never takes the partition a call is about to
\* write to.  One case is not covered: an event that is logged past the midnight that ends
\* the second of these months, by then a month that no run has prepared.
CallsFindPartition ==
  \A a \in Agent :
    /\ pc[a] \notin {"idle", "commit"}
    /\ Month(began[a]) \in {Month(lastRun), Month(lastRun) + 1}
    => HasPartition(a) \/ (op[a] = "log" /\ Month(day) = Month(lastRun) + 2)

\* A run leaves nothing behind: no event of an expired month is still stored after it.
RunClears ==
  \A e \in Event :
    state[e] = "stored" => Month(lastRun) <= Month(touched[e]) + Window

\* A call that waits for the row of an event loses nothing by it: the event is not dropped
\* under it, and when the row has changed, and the call fails because the row is in another
\* partition, then the event has been renewed to within a day of what the call would have
\* written.
WaitLosesNothing ==
  \A a \in Agent : pc[a] = "blocked" =>
    Stored(a) /\ (touched[ev[a]] = seen[a] \/ touched[ev[a]] + 1 >= began[a])

-----------------------------------------------------------------------------
(* The inductive invariant. *)

\* What is known of an event: a use that did not renew it came within TouchMin of a touch,
\* and the row is in a partition that no run has found expired.
EventInv ==
  /\ \A e \in Event : state[e] = "new" => touched[e] = FirstDay /\ used[e] = FirstDay
  /\ \A e \in Event : used[e] <= touched[e] + TouchMin
  /\ \A e \in Event : state[e] = "stored" => Month(touched[e]) \in partitions
  /\ RunClears

\* A row is locked by the call that will log or renew it when it commits.
LockInv ==
  \A e \in Event, a \in Agent : rowlock[e] = a =>
    /\ pc[a] = "commit" /\ ev[a] = e
    /\ began[a] <= Stamp(a) /\ Month(Stamp(a)) \in partitions
    /\ op[a] # "log" => Stale(a)

\* A call that logs an event is the only one that knows its id.  A call that is about to
\* commit without a lock found nothing to renew.
CallInv(a) ==
  /\ pc[a] # "idle" => began[a] <= day /\ day <= began[a] + 1
  /\ pc[a] # "idle" /\ op[a] = "log" =>
       /\ state[ev[a]] = "new"
       /\ \A b \in Agent \ {a} : pc[b] # "idle" => ev[b] # ev[a]
  /\ pc[a] # "idle" /\ op[a] # "log" => state[ev[a]] # "new"
  /\ pc[a] = "commit" /\ rowlock[ev[a]] # a =>
       op[a] # "log" /\ ~(Stored(a) /\ Stale(a))
  /\ pc[a] \in {"touch", "blocked"} => op[a] # "log"
  /\ InTable(a) /\ op[a] = "read" => Stored(a)

\* While the job holds the table nobody else is in it.  What it drops is all that is
\* expired, and what it leaves has the partitions of its month and the next.
JobInv ==
  /\ Exclusive => TableFree
  /\ job = "idle" => created = {}
  /\ job \in {"idle", "ensured"} => doomed = {}
  /\ \A m \in doomed : m + Window < Month(day)
  /\ job # "idle" =>
       /\ jobDay <= day /\ day <= jobDay + 1
       /\ {Month(jobDay), Month(jobDay) + 1} \subseteq partitions \cup created
  /\ job \in {"listed", "dropped"} =>
       \A m \in partitions \cup created : m + Window < Month(jobDay) => m \in doomed
  /\ lastRun <= day
  /\ {Month(lastRun), Month(lastRun) + 1} \subseteq partitions

IInv ==
  /\ TypeOK
  /\ EventInv
  /\ LockInv
  /\ \A a \in Agent : CallInv(a)
  /\ JobInv
=============================================================================
