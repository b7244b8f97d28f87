------------------------- MODULE RawRetentionProofs -------------------------
(***************************************************************************)
(* Proofs about RawRetention, for every number of agents and events, every *)
(* length of a month, every idle window of at least a month and every      *)
(* debounce that is not longer than the window.                            *)
(***************************************************************************)
EXTENDS RawRetention, TLAPS

USE NobodyAssumption, MonthDaysAssumption, WindowAssumption, TouchMinAssumption,
    DaysAssumption

-----------------------------------------------------------------------------
(* Days and months. *)

LEMMA MonthBounds ==
  ASSUME NEW d \in Nat
  PROVE  Month(d) \in Nat /\ Month(d) * MonthDays <= d /\ d < (Month(d) + 1) * MonthDays
  BY DEF Month

LEMMA TimesMonthDays ==
  ASSUME NEW m \in Nat, NEW n \in Nat, m <= n
  PROVE  m * MonthDays <= n * MonthDays
  OBVIOUS

\* A later day is not in an earlier month.
LEMMA MonthMonotone ==
  ASSUME NEW c \in Nat, NEW d \in Nat, c <= d
  PROVE  Month(c) <= Month(d)
<1>1. /\ Month(c) \in Nat /\ Month(d) \in Nat
      /\ Month(c) * MonthDays <= c /\ d < (Month(d) + 1) * MonthDays
  BY MonthBounds
<1>2. SUFFICES ASSUME Month(d) + 1 <= Month(c) PROVE FALSE
  BY <1>1
<1>3. (Month(d) + 1) * MonthDays <= Month(c) * MonthDays
  BY <1>1, <1>2, TimesMonthDays
<1>4. Month(c) * MonthDays \in Nat /\ (Month(d) + 1) * MonthDays \in Nat
  BY <1>1
<1>5. QED
  BY <1>1, <1>3, <1>4

\* Tomorrow is in this month or in the next.
LEMMA MonthNext ==
  ASSUME NEW d \in Nat
  PROVE  Month(d + 1) <= Month(d) + 1
<1>1. /\ Month(d) \in Nat /\ Month(d + 1) \in Nat
      /\ Month(d + 1) * MonthDays <= d + 1 /\ d < (Month(d) + 1) * MonthDays
  BY MonthBounds
<1>2. SUFFICES ASSUME Month(d) + 2 <= Month(d + 1) PROVE FALSE
  BY <1>1
<1>3. (Month(d) + 2) * MonthDays <= Month(d + 1) * MonthDays
  BY <1>1, <1>2, TimesMonthDays
<1>4. (Month(d) + 2) * MonthDays = (Month(d) + 1) * MonthDays + MonthDays
  BY <1>1
<1>5. /\ (Month(d) + 1) * MonthDays \in Nat /\ (Month(d) + 2) * MonthDays \in Nat
      /\ Month(d + 1) * MonthDays \in Nat
  BY <1>1
<1>6. QED
  BY <1>1, <1>3, <1>4, <1>5

\* A transaction that spans midnight spans at most one turn of a month.
LEMMA MonthSpan ==
  ASSUME NEW b \in Nat, NEW d \in Nat, b <= d, d <= b + 1
  PROVE  Month(b) <= Month(d) /\ Month(d) <= Month(b) + 1
<1>1. Month(b) \in Nat /\ Month(b) <= Month(d)
  BY MonthMonotone, MonthBounds
<1>2. d = b \/ d = b + 1
  OBVIOUS
<1>3. Month(b + 1) <= Month(b) + 1
  BY MonthNext
<1>4. QED
  BY <1>1, <1>2, <1>3

\* The whole window lies between the days of two months that are more than it apart.
LEMMA MonthGap ==
  ASSUME NEW t \in Nat, NEW d \in Nat, Month(t) + Window < Month(d)
  PROVE  t + Window * MonthDays < d
<1>1. /\ Month(t) \in Nat /\ Month(d) \in Nat
      /\ t < (Month(t) + 1) * MonthDays /\ Month(d) * MonthDays <= d
  BY MonthBounds
<1>2. (Month(t) + 1 + Window) * MonthDays <= Month(d) * MonthDays
  BY <1>1, TimesMonthDays
<1>3. (Month(t) + 1 + Window) * MonthDays = (Month(t) + 1) * MonthDays + Window * MonthDays
  BY <1>1
<1>4. /\ (Month(t) + 1) * MonthDays \in Nat /\ Window * MonthDays \in Nat
      /\ Month(d) * MonthDays \in Nat
  BY <1>1
<1>5. QED
  BY <1>1, <1>2, <1>3, <1>4

\* A month is made of its year and its month of the year.
LEMMA MonthParts ==
  ASSUME NEW m \in Nat
  PROVE  /\ YearOf(m) \in Nat /\ MonthOf(m) \in 1..12
         /\ m = 12 * YearOf(m) + MonthOf(m) - 1
  BY DEF YearOf, MonthOf

\* next_month is the next one, after December too.
LEMMA NextMonth ==
  ASSUME NEW m \in Nat
  PROVE  next_month(m) = m + 1
<1>1. /\ YearOf(m) \in Nat /\ MonthOf(m) \in 1..12
      /\ m = 12 * YearOf(m) + MonthOf(m) - 1
  BY MonthParts
<1>2. CASE MonthOf(m) = 12
  BY <1>1, <1>2 DEF next_month, Date
<1>3. CASE MonthOf(m) # 12
  BY <1>1, <1>3 DEF next_month, Date
<1>4. QED
  BY <1>2, <1>3

\* months_ago goes so many months back, over any number of years: what a round adds to the
\* month it takes from the year.
LEMMA MonthsAgo ==
  ASSUME NEW m \in Nat, NEW n \in Nat
  PROVE  months_ago(m, n) = m - n
<1> DEFINE rounds == IF n < MonthOf(m) THEN 0 ELSE ((n - MonthOf(m)) \div 12) + 1
<1>1. YearOf(m) \in Int /\ MonthOf(m) \in Int /\ n \in Int
  BY MonthParts
<1>2. m = Date(YearOf(m), MonthOf(m))
  BY MonthParts DEF Date
<1>3. rounds \in Int
  BY <1>1
<1>4. months_ago(m, n) = Date(YearOf(m) - rounds, MonthOf(m) - n + 12 * rounds)
  BY DEF months_ago
<1> HIDE DEF rounds
<1>5. Date(YearOf(m) - rounds, MonthOf(m) - n + 12 * rounds)
        = Date(YearOf(m), MonthOf(m)) - n
  BY <1>1, <1>3, SMTT(20) DEF Date
<1>6. QED
  BY <1>2, <1>4, <1>5

\* What the job finds expired.
LEMMA ExpiredMonths ==
  ASSUME NEW m \in Nat, NEW d \in Nat
  PROVE  m < months_ago(Month(d), Window) <=> m + Window < Month(d)
<1>1. Month(d) \in Nat /\ Window \in Nat
  BY MonthBounds
<1>2. months_ago(Month(d), Window) = Month(d) - Window
  BY <1>1, MonthsAgo
<1>3. QED
  BY <1>1, <1>2

-----------------------------------------------------------------------------
(* The steps of a call up to its commit: the events and the job's state do not change. *)

Quiet == UNCHANGED <<day, partitions, events, maintenance>>

\* What such a step has left to show.
LEMMA QuietStep ==
  ASSUME IInv, Quiet, TypeOK', LockInv', \A a \in Agent : CallInv(a)', Exclusive => TableFree'
  PROVE  IInv'
<1>1. EventInv'
  BY DEF IInv, EventInv, Quiet, events, maintenance, RunClears, Month
<1>2. JobInv'
  BY DEF IInv, JobInv, Quiet, maintenance, Exclusive, Month
<1>3. QED
  BY <1>1, <1>2 DEF IInv

LEMMA BeginStep ==
  ASSUME IInv, NEW a \in Agent, NEW what \in {"log", "read", "cite"}, NEW e \in Event,
         Begin(a, what, e)
  PROVE  IInv'
<1>1. TypeOK'
  BY DEF IInv, TypeOK, Begin, events, maintenance
<1>2. LockInv'
  BY DEF IInv, TypeOK, LockInv, Begin, events, Stamp, Stale, Month
<1>3. ASSUME NEW b \in Agent
      PROVE  CallInv(b)'
  <2>1. CASE b = a
    <3>1. day \in Nat
      BY DEF IInv, TypeOK, Days
    <3>2. /\ pc'[a] = "begun" /\ op'[a] = what /\ ev'[a] = e /\ began'[a] = day
          /\ \A c \in Agent \ {a} : pc'[c] = pc[c] /\ ev'[c] = ev[c]
          /\ day' = day /\ state' = state
      BY DEF IInv, TypeOK, Begin, events
    <3>3. IF what = "log" THEN state[e] = "new" /\ \A c \in Agent : pc[c] # "idle" => ev[c] # e
                          ELSE state[e] # "new"
      BY DEF Begin
    <3>4. QED
      BY <2>1, <3>1, <3>2, <3>3 DEF CallInv, InTable
  <2>2. CASE b # a
    <3>1. /\ pc'[b] = pc[b] /\ op'[b] = op[b] /\ ev'[b] = ev[b] /\ began'[b] = began[b]
          /\ \A c \in Agent \ {a} : pc'[c] = pc[c] /\ ev'[c] = ev[c]
          /\ pc[a] = "idle" /\ ev'[a] = e
          /\ UNCHANGED <<day, state, touched, rowlock>>
      BY <2>2 DEF IInv, TypeOK, Begin, events
    <3>2. IF what = "log" THEN pc[b] # "idle" => ev[b] # e ELSE state[e] # "new"
      BY DEF Begin
    <3>3. CallInv(b)
      BY DEF IInv
    <3>4. QED
      BY <3>1, <3>2, <3>3 DEF CallInv, InTable, Stored, Stale
  <2>3. QED
    BY <2>1, <2>2
<1>4. Exclusive => TableFree'
  BY DEF IInv, TypeOK, JobInv, TableFree, InTable, Begin
<1>5. QED
  BY <1>1, <1>2, <1>3, <1>4, QuietStep DEF Begin, Quiet

\* A step that only moves a call on from one place to another.
LEMMA GotoStep ==
  ASSUME IInv, NEW a \in Agent, NEW label \in {"touch", "blocked", "commit"}, Goto(a, label),
         UNCHANGED rowlock, ~Exclusive,
         seen' \in [Agent -> Days], \A b \in Agent \ {a} : seen'[b] = seen[b],
         pc[a] # "idle", pc[a] # "commit", op[a] # "log",
         label # "commit" \/ ~(Stored(a) /\ Stale(a)),
         op[a] = "read" => Stored(a)
  PROVE  IInv'
<1>1. TypeOK'
  BY DEF IInv, TypeOK, Goto, events, maintenance
<1>2. LockInv'
  <2> SUFFICES ASSUME NEW e \in Event, NEW b \in Agent, rowlock'[e] = b
               PROVE  /\ pc'[b] = "commit" /\ ev'[b] = e
                      /\ began'[b] <= Stamp(b)' /\ Month(Stamp(b)') \in partitions'
                      /\ op'[b] # "log" => Stale(b)'
    BY DEF LockInv
  <2>1. rowlock[e] = b /\ b # a
    BY DEF IInv, LockInv
  <2>2. /\ pc'[b] = pc[b] /\ seen'[b] = seen[b]
        /\ UNCHANGED <<touched, partitions, op, ev, began>>
    BY <2>1 DEF IInv, TypeOK, Goto, events
  <2>3. Stamp(b)' = Stamp(b) /\ (Stale(b)' <=> Stale(b))
    BY <2>2 DEF Stamp, Stale
  <2>4. Month(Stamp(b)') = Month(Stamp(b))
    BY <2>3
  <2>5. QED
    BY <2>1, <2>2, <2>3, <2>4 DEF IInv, LockInv
<1>3. ASSUME NEW b \in Agent
      PROVE  CallInv(b)'
  <2>1. /\ UNCHANGED <<day, state, touched, rowlock, op, ev, began>>
        /\ pc'[b] = IF b = a THEN label ELSE pc[b]
        /\ \A c \in Agent : pc'[c] # "idle" => pc[c] # "idle"
    BY DEF IInv, TypeOK, Goto, events
  <2>2. CallInv(b)
    BY DEF IInv
  <2>3. QED
    BY <2>1, <2>2 DEF CallInv, InTable, Stored, Stale
<1>4. QED
  BY <1>1, <1>2, <1>3, QuietStep DEF Goto, Quiet

\* A step that inserts or touches the row, and holds its lock.
LEMMA WriteStep ==
  ASSUME IInv, NEW a \in Agent, WriteRow(a), ~Exclusive,
         seen' \in [Agent -> Days], \A b \in Agent \ {a} : seen'[b] = seen[b],
         began[a] <= Stamp(a)', Month(Stamp(a)') \in partitions,
         pc[a] # "idle", pc[a] # "commit", rowlock[ev[a]] = Nobody,
         op[a] # "log" => Stored(a) /\ Stale(a)
  PROVE  IInv'
<1> USE DEF WriteRow, Goto
<1>1. TypeOK'
  BY DEF IInv, TypeOK, events, maintenance
<1>2. LockInv'
  <2> SUFFICES ASSUME NEW e \in Event, NEW b \in Agent, rowlock'[e] = b
               PROVE  /\ pc'[b] = "commit" /\ ev'[b] = e
                      /\ began'[b] <= Stamp(b)' /\ Month(Stamp(b)') \in partitions'
                      /\ op'[b] # "log" => Stale(b)'
    BY DEF LockInv
  <2>1. UNCHANGED <<touched, partitions, op, ev, began>>
    BY DEF events
  <2>2. CASE e = ev[a]
    <3>1. b = a /\ pc'[a] = "commit"
      BY <2>2 DEF IInv, TypeOK
    <3>2. QED
      BY <2>1, <2>2, <3>1 DEF Stale
  <2>3. CASE e # ev[a]
    <3>1. rowlock[e] = b /\ pc'[b] = pc[b] /\ b # a
      BY <2>3 DEF IInv, TypeOK, LockInv
    <3>2. Stamp(b)' = Stamp(b) /\ (Stale(b)' <=> Stale(b))
      BY <2>1, <3>1 DEF Stamp, Stale
    <3>3. Month(Stamp(b)') = Month(Stamp(b))
      BY <3>2
    <3>4. QED
      BY <2>1, <3>1, <3>2, <3>3 DEF IInv, LockInv
  <2>4. QED
    BY <2>2, <2>3
<1>3. ASSUME NEW b \in Agent
      PROVE  CallInv(b)'
  <2>1. /\ UNCHANGED <<day, state, touched, op, ev, began>>
        /\ pc'[b] = IF b = a THEN "commit" ELSE pc[b]
        /\ \A c \in Agent : pc'[c] # "idle" => pc[c] # "idle"
        /\ rowlock'[ev[a]] = a
        /\ rowlock'[ev[b]] = IF ev[b] = ev[a] THEN a ELSE rowlock[ev[b]]
    BY DEF IInv, TypeOK, events
  <2>2. CallInv(b) /\ CallInv(a)
    BY DEF IInv
  <2>3. ev[b] = ev[a] /\ b # a => rowlock[ev[b]] # b
    BY DEF IInv, TypeOK
  <2>4. QED
    BY <2>1, <2>2, <2>3 DEF CallInv, InTable, Stored, Stale
<1>4. QED
  BY <1>1, <1>2, <1>3, QuietStep DEF Quiet

\* The end of a call's transaction: every lock but its own stays with its holder.
LEMMA EndCallLocks ==
  ASSUME IInv, NEW a \in Agent, EndCall(a), NEW e \in Event, NEW b \in Agent
  PROVE  rowlock'[e] = b <=> rowlock[e] = b /\ b # a
  BY DEF IInv, TypeOK, EndCall

LEMMA AbortStep ==
  ASSUME IInv, NEW a \in Agent, Abort(a)
  PROVE  IInv'
<1> USE DEF Abort
<1>1. TypeOK'
  BY DEF IInv, TypeOK, EndCall, events, maintenance, Days
<1>2. LockInv'
  <2> SUFFICES ASSUME NEW e \in Event, NEW b \in Agent, rowlock'[e] = b
               PROVE  /\ pc'[b] = "commit" /\ ev'[b] = e
                      /\ began'[b] <= Stamp(b)' /\ Month(Stamp(b)') \in partitions'
                      /\ op'[b] # "log" => Stale(b)'
    BY DEF LockInv
  <2>1. rowlock[e] = b /\ b # a
    BY EndCallLocks
  <2>2. /\ pc'[b] = pc[b] /\ op'[b] = op[b] /\ began'[b] = began[b] /\ seen'[b] = seen[b]
        /\ UNCHANGED <<touched, partitions, ev>>
    BY <2>1 DEF IInv, TypeOK, EndCall, events
  <2>3. Stamp(b)' = Stamp(b) /\ (Stale(b)' <=> Stale(b))
    BY <2>2 DEF Stamp, Stale
  <2>4. Month(Stamp(b)') = Month(Stamp(b))
    BY <2>3
  <2>5. QED
    BY <2>1, <2>2, <2>3, <2>4 DEF IInv, LockInv
<1>3. ASSUME NEW b \in Agent
      PROVE  CallInv(b)'
  <2>1. CASE b = a
    BY <2>1 DEF IInv, TypeOK, EndCall, CallInv, InTable
  <2>2. CASE b # a
    <3>1. /\ pc'[b] = pc[b] /\ op'[b] = op[b] /\ began'[b] = began[b]
          /\ \A c \in Agent : pc'[c] # "idle" => pc[c] # "idle"
          /\ UNCHANGED <<day, state, touched, ev>>
      BY <2>2 DEF IInv, TypeOK, EndCall, events
    <3>2. rowlock'[ev[b]] = b <=> rowlock[ev[b]] = b
      BY <2>2, EndCallLocks DEF IInv, TypeOK
    <3>3. CallInv(b)
      BY DEF IInv
    <3>4. QED
      BY <3>1, <3>2, <3>3 DEF CallInv, InTable, Stored, Stale
  <2>3. QED
    BY <2>1, <2>2
<1>4. Exclusive => TableFree'
  BY DEF IInv, TypeOK, JobInv, TableFree, InTable, EndCall
<1>5. QED
  BY <1>1, <1>2, <1>3, <1>4, QuietStep DEF Quiet

-----------------------------------------------------------------------------
(* The commit of a call. *)

\* What a commit does to its event, and to no other.
LEMMA CommitEffect ==
  ASSUME IInv, NEW a \in Agent, CommitCall(a), NEW e \in Event
  PROVE  IF e # ev[a]
         THEN state'[e] = state[e] /\ touched'[e] = touched[e] /\ used'[e] = used[e]
         ELSE /\ state'[e] = IF op[a] = "log" THEN "stored" ELSE state[e]
              /\ touched'[e] = IF rowlock[e] = a THEN Stamp(a) ELSE touched[e]
              /\ used'[e] = IF (op[a] = "log" \/ state[e] = "stored") /\ used[e] < Stamp(a)
                            THEN Stamp(a) ELSE used[e]
  BY DEF IInv, TypeOK, CommitCall, Stored

\* A touch is never taken back.
LEMMA CommitRenews ==
  ASSUME IInv, NEW a \in Agent, CommitCall(a), NEW e \in Event
  PROVE  touched[e] <= touched'[e]
<1>1. /\ touched[e] \in Nat /\ began[a] \in Nat /\ TouchMin \in Nat
      /\ Stamp(a) \in Nat /\ FirstDay <= Stamp(a)
  BY DEF IInv, TypeOK, Days, Stamp
<1>2. CASE e = ev[a] /\ rowlock[e] = a
  <2>1. CASE op[a] = "log"
    <3>1. state[e] = "new"
      BY <1>2, <2>1 DEF IInv, CallInv, CommitCall
    <3>2. touched[e] = FirstDay
      BY <3>1 DEF IInv, EventInv
    <3>3. QED
      BY <1>1, <1>2, <3>2, CommitEffect
  <2>2. CASE op[a] # "log"
    <3>1. touched[e] + TouchMin < began[a] /\ began[a] <= Stamp(a)
      BY <1>2, <2>2 DEF IInv, LockInv, Stale
    <3>2. QED
      BY <1>1, <1>2, <3>1, CommitEffect
  <2>3. QED
    BY <2>1, <2>2
<1>3. CASE ~(e = ev[a] /\ rowlock[e] = a)
  BY <1>1, <1>3, CommitEffect
<1>4. QED
  BY <1>2, <1>3

LEMMA CommitEvents ==
  ASSUME IInv, NEW a \in Agent, CommitCall(a)
  PROVE  EventInv'
<1>1. /\ UNCHANGED <<day, partitions, lastRun>>
      /\ pc[a] = "commit" /\ ev[a] \in Event
  BY DEF IInv, TypeOK, CommitCall, maintenance
<1>2. ASSUME NEW e \in Event
      PROVE  /\ state'[e] = "new" => touched'[e] = FirstDay /\ used'[e] = FirstDay
             /\ used'[e] <= touched'[e] + TouchMin
             /\ state'[e] = "stored" => Month(touched'[e]) \in partitions
             /\ state'[e] = "stored" => Month(lastRun) <= Month(touched'[e]) + Window
  <2>0. /\ touched[e] \in Nat /\ used[e] \in Nat /\ began[a] \in Nat /\ TouchMin \in Nat
        /\ day \in Nat /\ lastRun \in Nat
    BY DEF IInv, TypeOK, Days
  <2>1. /\ state[e] = "new" => touched[e] = FirstDay /\ used[e] = FirstDay
        /\ used[e] <= touched[e] + TouchMin
        /\ state[e] = "stored" => Month(touched[e]) \in partitions
        /\ state[e] = "stored" => Month(lastRun) <= Month(touched[e]) + Window
    BY DEF IInv, EventInv, RunClears
  <2>2. CASE e # ev[a]
    BY <2>1, <2>2, CommitEffect
  <2>3. CASE e = ev[a] /\ rowlock[e] = a
    <3>1. Stamp(a) \in Nat /\ began[a] <= Stamp(a) /\ Month(Stamp(a)) \in partitions
      BY <2>3 DEF IInv, TypeOK, LockInv, Stamp, Days
    <3>2. touched'[e] = Stamp(a)
      BY <2>3, CommitEffect
    <3>3. used'[e] <= Stamp(a) + TouchMin
      <4>1. used'[e] = Stamp(a) \/ used'[e] = used[e]
        BY <2>3, CommitEffect
      <4>2. touched[e] <= Stamp(a)
        BY <3>2, CommitRenews
      <4>3. QED
        BY <2>0, <2>1, <3>1, <4>1, <4>2
    <3>4. state'[e] # "new"
      <4>1. op[a] # "log" => state[e] # "new"
        BY <1>1, <2>3 DEF IInv, CallInv
      <4>2. QED
        BY <2>3, <4>1, CommitEffect
    <3>5. Month(lastRun) <= Month(Stamp(a)) + Window
      <4>1. lastRun <= Stamp(a) + 1
        BY <1>1, <2>0, <3>1 DEF IInv, CallInv, JobInv
      <4>2. Month(lastRun) <= Month(Stamp(a) + 1) /\ Month(Stamp(a) + 1) <= Month(Stamp(a)) + 1
        BY <2>0, <3>1, <4>1, MonthMonotone, MonthNext
      <4>3. /\ Month(lastRun) \in Nat /\ Month(Stamp(a) + 1) \in Nat
            /\ Month(Stamp(a)) \in Nat
        BY <2>0, <3>1, MonthBounds
      <4>4. QED
        BY <4>2, <4>3
    <3>6. QED
      BY <3>1, <3>2, <3>3, <3>4, <3>5
  <2>4. CASE e = ev[a] /\ rowlock[e] # a
    <3>1. /\ op[a] # "log" /\ Stamp(a) = began[a]
          /\ ~(state[e] = "stored" /\ touched[e] + TouchMin < began[a])
      <4>1. op[a] # "log" /\ ~(Stored(a) /\ Stale(a))
        BY <1>1, <2>4 DEF IInv, CallInv
      <4>2. QED
        BY <2>4, <4>1 DEF Stored, Stale, Stamp
    <3>2. state'[e] = state[e] /\ touched'[e] = touched[e]
      BY <2>4, <3>1, CommitEffect
    <3>3. used'[e] = used[e] \/ (state[e] = "stored" /\ used'[e] = began[a])
      BY <2>4, <3>1, CommitEffect
    <3>4. state[e] # "new"
      BY <1>1, <2>4, <3>1 DEF IInv, CallInv
    <3>5. QED
      BY <2>0, <2>1, <3>1, <3>2, <3>3, <3>4
  <2>5. QED
    BY <2>2, <2>3, <2>4
<1>3. partitions' = partitions /\ lastRun' = lastRun
  BY <1>1
<1>4. QED
  BY <1>2, <1>3 DEF EventInv, RunClears, Month

LEMMA CommitCalls ==
  ASSUME IInv, NEW a \in Agent, CommitCall(a), NEW b \in Agent
  PROVE  CallInv(b)'
<1>1. CallInv(a) /\ CallInv(b) /\ pc[a] = "commit" /\ ev[a] \in Event /\ ev[b] \in Event
  BY DEF IInv, TypeOK, CommitCall
<1>2. CASE b = a
  BY <1>2 DEF IInv, TypeOK, CommitCall, EndCall, CallInv, InTable
<1>3. CASE b # a
  <2>1. /\ pc'[b] = pc[b] /\ op'[b] = op[b] /\ began'[b] = began[b]
        /\ \A c \in Agent : pc'[c] # "idle" => pc[c] # "idle"
        /\ UNCHANGED <<day, ev>>
    BY <1>3 DEF IInv, TypeOK, CommitCall, EndCall
  <2>2. rowlock'[ev[b]] = b <=> rowlock[ev[b]] = b
    BY <1>1, <1>3, EndCallLocks DEF CommitCall
  <2>3. state'[ev[b]] = state[ev[b]] \/ (op[a] = "log" /\ ev[b] = ev[a] /\ state'[ev[b]] = "stored")
    BY <1>1, CommitEffect
  <2>4. pc[b] # "idle" /\ (op[a] = "log" \/ op[b] = "log") => ev[b] # ev[a]
    BY <1>1, <1>3 DEF CallInv
  <2>5. pc[b] # "idle" => state'[ev[b]] = state[ev[b]]
    BY <2>3, <2>4
  <2>6. Stale(b)' => Stale(b)
    <3>1. touched[ev[b]] <= touched'[ev[b]]
      BY <1>1, CommitRenews
    <3>2. touched[ev[b]] \in Nat /\ touched'[ev[b]] \in Nat /\ began[b] \in Nat
      <4>1. touched'[ev[b]] = touched[ev[b]] \/ touched'[ev[b]] = Stamp(a)
        BY <1>1, CommitEffect
      <4>2. Stamp(a) \in Nat
        BY DEF IInv, TypeOK, Days, Stamp
      <4>3. QED
        BY <1>1, <4>1, <4>2 DEF IInv, TypeOK, Days
    <3>3. QED
      BY <2>1, <3>1, <3>2 DEF Stale
  <2>7. Stored(b)' /\ pc[b] # "idle" => Stored(b)
    BY <2>1, <2>5 DEF Stored
  <2>8. pc[b] # "idle" /\ Stored(b) => Stored(b)'
    BY <2>1, <2>5 DEF Stored
  <2>9. QED
    BY <1>1, <2>1, <2>2, <2>5, <2>6, <2>7, <2>8 DEF CallInv, InTable
<1>4. QED
  BY <1>2, <1>3

LEMMA CommitStep ==
  ASSUME IInv, NEW a \in Agent, CommitCall(a)
  PROVE  IInv'
<1>1. TypeOK'
  <2>1. Stamp(a) \in Days
    BY DEF IInv, TypeOK, Stamp
  <2>2. QED
    BY <2>1 DEF IInv, TypeOK, CommitCall, EndCall, maintenance, Days
<1>2. LockInv'
  <2> SUFFICES ASSUME NEW e \in Event, NEW b \in Agent, rowlock'[e] = b
               PROVE  /\ pc'[b] = "commit" /\ ev'[b] = e
                      /\ began'[b] <= Stamp(b)' /\ Month(Stamp(b)') \in partitions'
                      /\ op'[b] # "log" => Stale(b)'
    BY DEF LockInv
  <2>1. rowlock[e] = b /\ b # a
    BY EndCallLocks DEF CommitCall
  <2>2. /\ pc'[b] = pc[b] /\ op'[b] = op[b] /\ began'[b] = began[b] /\ seen'[b] = seen[b]
        /\ UNCHANGED <<partitions, ev>>
    BY <2>1 DEF IInv, TypeOK, CommitCall, EndCall
  <2>3. touched'[e] = touched[e]
    BY <2>1, CommitEffect
  <2>4. ev[b] = e
    BY <2>1 DEF IInv, LockInv
  <2>5. Stamp(b)' = Stamp(b) /\ (Stale(b)' <=> Stale(b))
    BY <2>2, <2>3, <2>4 DEF Stamp, Stale
  <2>6. Month(Stamp(b)') = Month(Stamp(b))
    BY <2>5
  <2>7. QED
    BY <2>1, <2>2, <2>5, <2>6 DEF IInv, LockInv
<1>3. JobInv'
  <2>1. ~Exclusive
    BY DEF IInv, JobInv, TableFree, InTable, CommitCall
  <2>2. QED
    BY <2>1 DEF IInv, JobInv, Exclusive, CommitCall, maintenance, Month
<1>4. QED
  BY <1>1, <1>2, <1>3, CommitCalls, CommitEvents DEF IInv

-----------------------------------------------------------------------------
(* The steps of the job and of the calendar. *)

\* The calls do not notice them unless rows are dropped.
LEMMA CallsAlone ==
  ASSUME IInv, UNCHANGED <<partitions, events, calls>>, day' = day \/ NextDay
  PROVE  LockInv' /\ \A a \in Agent : CallInv(a)'
<1>1. LockInv'
  BY DEF IInv, LockInv, calls, events, Stamp, Stale, Month
<1>2. ASSUME NEW a \in Agent
      PROVE  CallInv(a)'
  <2>1. pc[a] # "idle" => began[a] <= day' /\ day' <= began[a] + 1
    <3>1. began[a] \in Nat /\ day \in Nat
      BY DEF IInv, TypeOK, Days
    <3>2. CASE day' = day
      BY <3>2 DEF IInv, CallInv
    <3>3. CASE NextDay
      BY <3>1, <3>3 DEF NextDay
    <3>4. QED
      BY <3>2, <3>3
  <2>2. CallInv(a)
    BY DEF IInv
  <2>3. QED
    BY <2>1, <2>2 DEF CallInv, calls, events, InTable, Stored, Stale
<1>3. QED
  BY <1>1, <1>2

LEMMA EnsureStep ==
  ASSUME IInv, EnsurePartitions
  PROVE  IInv'
<1>1. TypeOK'
  <2>1. day \in Nat /\ Month(day) \in Nat /\ next_month(Month(day)) \in Nat
    BY MonthBounds, NextMonth DEF IInv, TypeOK, Days
  <2>2. QED
    BY <2>1 DEF IInv, TypeOK, EnsurePartitions, events, calls
<1>2. EventInv'
  BY DEF IInv, EventInv, EnsurePartitions, events, RunClears, Month
<1>3. LockInv' /\ \A a \in Agent : CallInv(a)'
  BY CallsAlone DEF EnsurePartitions
<1>4. JobInv'
  <2>1. TableFree' <=> TableFree
    BY DEF EnsurePartitions, calls, TableFree, InTable
  <2>2. day \in Nat /\ next_month(Month(day)) = Month(day) + 1
    BY MonthBounds, NextMonth DEF IInv, TypeOK, Days
  <2>3. QED
    BY <2>1, <2>2 DEF IInv, JobInv, EnsurePartitions, Exclusive, Month
<1>5. QED
  BY <1>1, <1>2, <1>3, <1>4 DEF IInv

LEMMA ListStep ==
  ASSUME IInv, ListExpired
  PROVE  IInv'
<1>1. TypeOK'
  BY DEF IInv, TypeOK, ListExpired, events, calls
<1>2. EventInv'
  BY DEF IInv, EventInv, ListExpired, events, RunClears, Month
<1>3. LockInv' /\ \A a \in Agent : CallInv(a)'
  BY CallsAlone DEF ListExpired
<1>4. JobInv'
  <2>1. TableFree' <=> TableFree
    BY DEF ListExpired, calls, TableFree, InTable
  <2>2. Month(jobDay) <= Month(day) /\ Month(jobDay) \in Nat /\ Month(day) \in Nat
    <3>1. jobDay \in Nat /\ day \in Nat /\ jobDay <= day
      BY DEF IInv, TypeOK, Days, JobInv, ListExpired
    <3>2. QED
      BY <3>1, MonthMonotone, MonthBounds
  <2>3. \A m \in partitions \cup created : m \in Nat
    BY DEF IInv, TypeOK
  <2>4. doomed' = {m \in partitions \cup created : m + Window < Month(day)}
    <3>1. day \in Nat
      BY DEF IInv, TypeOK, Days
    <3>2. \A m \in partitions \cup created :
            m < months_ago(Month(day), Window) <=> m + Window < Month(day)
      BY <2>3, <3>1, ExpiredMonths
    <3>3. QED
      BY <3>2 DEF ListExpired
  <2>5. \A m \in partitions \cup created : m + Window < Month(jobDay) => m \in doomed'
    BY <2>2, <2>3, <2>4
  <2>6. \A m \in doomed' : m + Window < Month(day)
    BY <2>4
  <2>7. QED
    BY <2>1, <2>5, <2>6 DEF IInv, JobInv, ListExpired, Exclusive, Month
<1>5. QED
  BY <1>1, <1>2, <1>3, <1>4 DEF IInv

LEMMA DropStep ==
  ASSUME IInv, DropIdlePartitions
  PROVE  IInv'
<1>1. TypeOK'
  BY DEF IInv, TypeOK, DropIdlePartitions, events, calls
<1>2. EventInv'
  BY DEF IInv, EventInv, DropIdlePartitions, events, RunClears, Month
<1>3. LockInv' /\ \A a \in Agent : CallInv(a)'
  BY CallsAlone DEF DropIdlePartitions
<1>4. JobInv'
  <2>1. TableFree' <=> TableFree
    BY DEF DropIdlePartitions, calls, TableFree, InTable
  <2>2. QED
    BY <2>1 DEF IInv, JobInv, DropIdlePartitions, Exclusive, Month
<1>5. QED
  BY <1>1, <1>2, <1>3, <1>4 DEF IInv

LEMMA FailJobStep ==
  ASSUME IInv, FailJob
  PROVE  IInv'
<1>1. TypeOK'
  BY DEF IInv, TypeOK, FailJob, EndJob, events, calls, Days
<1>2. EventInv'
  BY DEF IInv, EventInv, FailJob, events, RunClears, Month
<1>3. LockInv' /\ \A a \in Agent : CallInv(a)'
  BY CallsAlone DEF FailJob
<1>4. JobInv'
  BY DEF IInv, JobInv, FailJob, EndJob, Exclusive, Month
<1>5. QED
  BY <1>1, <1>2, <1>3, <1>4 DEF IInv

LEMMA NextDayStep ==
  ASSUME IInv, NextDay
  PROVE  IInv'
<1>1. /\ day \in Nat /\ day' = day + 1 /\ jobDay \in Nat /\ lastRun \in Nat
      /\ UNCHANGED <<partitions, events, calls, job, jobDay, created, doomed, lastRun>>
  BY DEF IInv, TypeOK, NextDay, Days, maintenance
<1>2. TypeOK'
  BY <1>1 DEF IInv, TypeOK, NextDay, events, calls, Days
<1>3. EventInv'
  BY <1>1 DEF IInv, EventInv, events, RunClears, Month
<1>4. LockInv' /\ \A a \in Agent : CallInv(a)'
  BY <1>1, CallsAlone
<1>5. JobInv'
  <2>1. Month(day) <= Month(day') /\ Month(day) \in Nat /\ Month(day') \in Nat
    <3>1. day \in Nat /\ day' \in Nat /\ day <= day' /\ day' <= day + 1
      BY <1>1
    <3>2. Month(day) <= Month(day')
      BY <3>1, MonthSpan
    <3>3. Month(day) \in Nat /\ Month(day') \in Nat
      BY <3>1, MonthBounds
    <3>4. QED
      BY <3>2, <3>3
  <2>2. \A m \in doomed : m \in Nat
    BY DEF IInv, TypeOK
  <2>3. \A m \in doomed : m + Window < Month(day')
    BY <2>1, <2>2 DEF IInv, JobInv
  <2>4. TableFree' <=> TableFree
    BY <1>1 DEF calls, TableFree, InTable
  <2>5. job # "idle" => jobDay <= day' /\ day' <= jobDay + 1
    BY <1>1 DEF NextDay
  <2>6. lastRun <= day'
    BY <1>1 DEF IInv, JobInv
  <2>7. QED
    BY <1>1, <2>3, <2>4, <2>5, <2>6 DEF IInv, JobInv, Exclusive, Month
<1>6. QED
  BY <1>2, <1>3, <1>4, <1>5 DEF IInv

\* Nobody is in the table when the partitions go.
LEMMA CommitJobAlone ==
  ASSUME IInv, CommitJob, doomed # {}, NEW a \in Agent
  PROVE  ~InTable(a)
  BY DEF IInv, JobInv, CommitJob, Exclusive, TableFree

LEMMA CommitJobEvents ==
  ASSUME IInv, CommitJob
  PROVE  EventInv'
<1> SUFFICES ASSUME NEW e \in Event
             PROVE  /\ state'[e] = "new" => touched'[e] = FirstDay /\ used'[e] = FirstDay
                    /\ used'[e] <= touched'[e] + TouchMin
                    /\ state'[e] = "stored" => Month(touched'[e]) \in partitions'
                    /\ state'[e] = "stored" => Month(lastRun') <= Month(touched'[e]) + Window
  BY DEF EventInv, RunClears, Month
<1>1. /\ UNCHANGED <<touched, used>>
      /\ state'[e] = IF state[e] = "stored" /\ Month(touched[e]) \in doomed
                     THEN "dropped" ELSE state[e]
      /\ partitions' = (partitions \cup created) \ doomed
      /\ lastRun' = jobDay
  BY DEF CommitJob
<1>2. /\ state[e] = "new" => touched[e] = FirstDay /\ used[e] = FirstDay
      /\ used[e] <= touched[e] + TouchMin
      /\ state[e] = "stored" => Month(touched[e]) \in partitions
  BY DEF IInv, EventInv
<1>3. state'[e] = "stored" => state[e] = "stored" /\ Month(touched[e]) \notin doomed
  BY <1>1
<1>4. state'[e] = "stored" => ~(Month(touched[e]) + Window < Month(jobDay))
  BY <1>2, <1>3 DEF IInv, JobInv, CommitJob
<1>5. Month(touched[e]) \in Nat /\ Month(jobDay) \in Nat
  <2>1. touched[e] \in Nat /\ jobDay \in Nat
    BY DEF IInv, TypeOK, Days
  <2>2. QED
    BY <2>1, MonthBounds
<1>6. state'[e] = "stored" => Month(jobDay) <= Month(touched[e]) + Window
  BY <1>4, <1>5
<1>7. QED
  BY <1>1, <1>2, <1>3, <1>6

LEMMA CommitJobPartitions ==
  ASSUME IInv, CommitJob
  PROVE  {Month(jobDay), Month(jobDay) + 1} \subseteq partitions'
<1>1. /\ jobDay \in Nat /\ day \in Nat /\ jobDay <= day /\ day <= jobDay + 1
      /\ {Month(jobDay), Month(jobDay) + 1} \subseteq partitions \cup created
  BY DEF IInv, TypeOK, Days, JobInv, CommitJob
<1>2. /\ Month(jobDay) \in Nat /\ Month(day) \in Nat /\ Month(day) <= Month(jobDay) + 1
  BY <1>1, MonthSpan, MonthBounds
<1>3. \A m \in doomed : m + Window < Month(day)
  BY DEF IInv, JobInv
<1>4. Month(jobDay) \notin doomed /\ Month(jobDay) + 1 \notin doomed
  BY <1>2, <1>3
<1>5. QED
  BY <1>1, <1>4 DEF CommitJob

LEMMA CommitJobStep ==
  ASSUME IInv, CommitJob
  PROVE  IInv'
<1>1. TypeOK'
  BY DEF IInv, TypeOK, CommitJob, EndJob, calls, Days
<1>2. LockInv'
  <2> SUFFICES ASSUME NEW e \in Event, NEW b \in Agent, rowlock'[e] = b
               PROVE  /\ pc'[b] = "commit" /\ ev'[b] = e
                      /\ began'[b] <= Stamp(b)' /\ Month(Stamp(b)') \in partitions'
                      /\ op'[b] # "log" => Stale(b)'
    BY DEF LockInv
  <2>1. /\ pc[b] = "commit" /\ ev[b] = e
        /\ began[b] <= Stamp(b) /\ Month(Stamp(b)) \in partitions
        /\ op[b] # "log" => Stale(b)
    BY DEF IInv, LockInv, CommitJob, calls
  <2>2. doomed = {}
    BY <2>1, CommitJobAlone DEF InTable
  <2>3. Month(Stamp(b)) \in partitions'
    BY <2>1, <2>2 DEF CommitJob
  <2>4. QED
    BY <2>1, <2>3 DEF CommitJob, calls, Stamp, Stale, Month
<1>3. ASSUME NEW a \in Agent
      PROVE  CallInv(a)'
  <2>1. \A e \in Event : /\ state'[e] = "stored" => state[e] = "stored"
                         /\ state'[e] = "new" <=> state[e] = "new"
    BY DEF IInv, TypeOK, CommitJob
  <2>2. ev[a] \in Event
    BY DEF IInv, TypeOK
  <2>3. InTable(a) => (Stored(a) => Stored(a)')
    <3>1. InTable(a) => doomed = {}
      BY CommitJobAlone
    <3>2. doomed = {} => state'[ev[a]] = state[ev[a]]
      BY <2>2 DEF CommitJob
    <3>3. QED
      BY <3>1, <3>2 DEF CommitJob, calls, Stored
  <2>4. CallInv(a)
    BY DEF IInv
  <2>5. UNCHANGED <<day, touched, rowlock, op, ev, began, pc>>
    BY DEF CommitJob, calls
  <2>6. QED
    BY <2>1, <2>2, <2>3, <2>4, <2>5 DEF CallInv, InTable, Stored, Stale
<1>4. JobInv'
  <2>1. lastRun' = jobDay /\ jobDay <= day /\ day' = day
    BY DEF IInv, JobInv, CommitJob
  <2>2. QED
    BY <2>1, CommitJobPartitions DEF CommitJob, EndJob, JobInv, Exclusive, Month
<1>5. QED
  BY <1>1, <1>2, <1>3, <1>4, CommitJobEvents DEF IInv

-----------------------------------------------------------------------------
(* The invariant. *)

LEMMA InitIInv == Init => IInv
<1> SUFFICES ASSUME Init PROVE IInv
  OBVIOUS
<1>1. Month(FirstDay) \in Nat /\ next_month(Month(FirstDay)) = Month(FirstDay) + 1
  BY MonthBounds, NextMonth
<1>2. TypeOK
  <2>1. (CHOOSE e \in Event : TRUE) \in Event
    BY EventAssumption
  <2>2. QED
    BY <1>1, <2>1 DEF Init, TypeOK, Days
<1>3. EventInv /\ LockInv
  BY <1>1, NobodyAssumption DEF Init, EventInv, LockInv, RunClears
<1>4. \A a \in Agent : CallInv(a)
  BY DEF Init, CallInv, InTable
<1>5. JobInv
  BY <1>1 DEF Init, JobInv, Exclusive, TableFree, InTable
<1>6. QED
  BY <1>2, <1>3, <1>4, <1>5 DEF IInv

LEMMA StepIInv ==
  ASSUME IInv, NEW a \in Agent, Step(a)
  PROVE  IInv'
<1>1. CASE AddRawEvent(a) \/ Touch(a)
  <2>1. rowlock[ev[a]] = Nobody
    <3>1. CASE AddRawEvent(a)
      <4>1. ASSUME NEW b \in Agent, rowlock[ev[a]] = b
            PROVE  FALSE
        <5>1. pc[b] = "commit" /\ ev[b] = ev[a]
          BY <4>1 DEF IInv, TypeOK, LockInv
        <5>2. pc[a] = "begun" /\ op[a] = "log"
          BY <3>1 DEF AddRawEvent
        <5>3. QED
          BY <5>1, <5>2 DEF IInv, CallInv
      <4>2. QED
        BY <4>1 DEF IInv, TypeOK
    <3>2. CASE Touch(a)
      BY <3>2 DEF Touch
    <3>3. QED
      BY <1>1, <3>1, <3>2
  <2>2. ~Exclusive /\ HasPartition(a) /\ WriteRow(a) /\ pc[a] # "idle" /\ pc[a] # "commit"
    BY <1>1 DEF AddRawEvent, Touch, AtTouch
  <2>3. op[a] # "log" => Stored(a) /\ Stale(a)
    BY <1>1 DEF AddRawEvent, Touch
  <2>4. /\ seen' \in [Agent -> Days] /\ \A b \in Agent \ {a} : seen'[b] = seen[b]
        /\ Stamp(a)' = RowDay(a)
    <3>1. op' = op /\ began' = began /\ seen \in [Agent -> Days] /\ day \in Days
      BY <2>2 DEF WriteRow, Goto, IInv, TypeOK
    <3>2. CASE AddRawEvent(a)
      BY <3>1, <3>2 DEF AddRawEvent, Stamp, RowDay
    <3>3. CASE Touch(a)
      <4>1. op[a] # "log"
        BY <3>3 DEF Touch, AtTouch, IInv, CallInv
      <4>2. seen' = seen
        BY <3>3 DEF Touch
      <4>3. QED
        BY <3>1, <4>1, <4>2 DEF Stamp, RowDay
    <3>4. QED
      BY <1>1, <3>2, <3>3
  <2>5. began[a] <= RowDay(a)
    BY <2>2 DEF RowDay, IInv, TypeOK, CallInv, Days
  <2>6. began[a] <= Stamp(a)' /\ Month(Stamp(a)') \in partitions
    BY <2>2, <2>4, <2>5 DEF HasPartition
  <2>7. QED
    BY <2>1, <2>2, <2>3, <2>4, <2>6, WriteStep
<1>2. CASE Find(a)
  BY <1>2, GotoStep DEF Find, IInv, TypeOK
<1>3. CASE TouchNothing(a) \/ TouchWaits(a)
  <2>1. /\ ~Exclusive /\ pc[a] # "idle" /\ pc[a] # "commit" /\ op[a] # "log"
        /\ op[a] = "read" => Stored(a)
    BY <1>3 DEF TouchNothing, TouchWaits, AtTouch, IInv, CallInv, InTable
  <2>2. /\ \E label \in {"blocked", "commit"} :
             Goto(a, label) /\ (label # "commit" \/ ~(Stored(a) /\ Stale(a)))
        /\ UNCHANGED rowlock /\ seen' \in [Agent -> Days]
        /\ \A b \in Agent \ {a} : seen'[b] = seen[b]
    BY <1>3 DEF TouchNothing, TouchWaits, IInv, TypeOK
  <2>3. QED
    BY <2>1, <2>2, GotoStep
<1>4. CASE RawDropped(a) \/ TouchMoved(a) \/ NoPartition(a) \/ FailCall(a)
  BY <1>4, AbortStep DEF RawDropped, TouchMoved, NoPartition, FailCall
<1>5. CASE CommitCall(a)
  BY <1>5, CommitStep
<1>6. QED
  BY <1>1, <1>2, <1>3, <1>4, <1>5 DEF Step

LEMMA NextIInv == IInv /\ [Next]_vars => IInv'
<1> SUFFICES ASSUME IInv, [Next]_vars PROVE IInv'
  OBVIOUS
<1>1. CASE UNCHANGED vars
  BY <1>1 DEF vars, events, calls, maintenance, IInv, TypeOK, EventInv, LockInv, CallInv, JobInv,
     RunClears, Stamp, Stale, Stored, InTable, TableFree, Exclusive, Month
<1>2. ASSUME NEW a \in Agent, NEW what \in {"log", "read", "cite"}, NEW e \in Event,
             Begin(a, what, e)
      PROVE  IInv'
  BY <1>2, BeginStep
<1>3. ASSUME NEW a \in Agent, Step(a)
      PROVE  IInv'
  BY <1>3, StepIInv
<1>4. CASE Job
  BY <1>4, EnsureStep, ListStep, DropStep, CommitJobStep, FailJobStep DEF Job
<1>5. CASE NextDay
  BY <1>5, NextDayStep
<1>6. QED
  BY <1>1, <1>2, <1>3, <1>4, <1>5 DEF Next

\* The strengthening that the results below rest on.
THEOREM Invariance == Spec => []IInv
  BY InitIInv, NextIInv, PTL DEF Spec

\* Every variable keeps its type.
THEOREM TypeCorrect == Spec => []TypeOK
<1>1. IInv => TypeOK
  BY DEF IInv
<1>2. QED
  BY <1>1, Invariance, PTL

\* The maintenance job leaves no expired event behind.
THEOREM RunsClear == Spec => []RunClears
<1>1. IInv => RunClears
  BY DEF IInv, EventInv
<1>2. QED
  BY <1>1, Invariance, PTL

\* A successful run is enough for the calls that begin in its month or in the next, also for
\* what they do past midnight, except to log an event once these two months are over.
THEOREM PartitionsSuffice == Spec => []CallsFindPartition
<1>1. ASSUME IInv, NEW a \in Agent, pc[a] \notin {"idle", "commit"},
             Month(began[a]) \in {Month(lastRun), Month(lastRun) + 1},
             ~(op[a] = "log" /\ Month(day) = Month(lastRun) + 2)
      PROVE  HasPartition(a)
  <2>1. Month(lastRun) \in partitions /\ Month(lastRun) + 1 \in partitions
    BY <1>1 DEF IInv, JobInv
  <2>2. CASE op[a] = "log"
    <3>1. /\ began[a] \in Nat /\ day \in Nat /\ lastRun \in Nat
          /\ began[a] <= day /\ day <= began[a] + 1
      BY <1>1 DEF IInv, TypeOK, CallInv, Days
    <3>2. Month(began[a]) <= Month(day) /\ Month(day) <= Month(began[a]) + 1
      BY <3>1, MonthSpan
    <3>3. Month(began[a]) \in Nat /\ Month(day) \in Nat /\ Month(lastRun) \in Nat
      BY <3>1, MonthBounds
    <3>4. Month(day) \in {Month(lastRun), Month(lastRun) + 1}
      BY <1>1, <2>2, <3>2, <3>3
    <3>5. QED
      BY <2>1, <2>2, <3>4 DEF HasPartition, RowDay
  <2>3. CASE op[a] # "log"
    BY <1>1, <2>1, <2>3 DEF HasPartition, RowDay
  <2>4. QED
    BY <2>2, <2>3
<1>2. IInv => CallsFindPartition
  BY <1>1 DEF CallsFindPartition
<1>3. QED
  BY <1>2, Invariance, PTL

\* Reading and citing an event keeps it, for the idle window less the debounce.
THEOREM UseKeeps == Spec => KeptAfterUse
<1>1. ASSUME IInv, [Next]_vars, NEW e \in Event, state[e] = "stored", state'[e] = "dropped"
      PROVE  day + TouchMin > used[e] + Window * MonthDays
  <2>1. CommitJob
    <3>1. UNCHANGED state => FALSE
      BY <1>1
    <3>2. ASSUME NEW a \in Agent, CommitCall(a)
          PROVE  FALSE
      BY <1>1, <3>2, CommitEffect
    <3>3. QED
      BY <1>1, <3>1, <3>2 DEF Next, vars, events, Begin, Step, AddRawEvent, Find, RawDropped,
         Touch, TouchNothing, TouchWaits, TouchMoved, NoPartition, FailCall, Job,
         EnsurePartitions, ListExpired, DropIdlePartitions, FailJob, NextDay, WriteRow, Goto,
         Abort
  <2>2. Month(touched[e]) \in doomed
    BY <1>1, <2>1 DEF CommitJob
  <2>3. Month(touched[e]) + Window < Month(day)
    BY <1>1, <2>2 DEF IInv, JobInv
  <2>4. touched[e] \in Nat /\ used[e] \in Nat /\ day \in Nat
    BY <1>1 DEF IInv, TypeOK, Days
  <2>5. touched[e] + Window * MonthDays < day
    BY <2>3, <2>4, MonthGap
  <2>6. used[e] <= touched[e] + TouchMin
    BY <1>1 DEF IInv, EventInv
  <2>7. Window * MonthDays \in Nat
    OBVIOUS
  <2>8. QED
    BY <2>4, <2>5, <2>6, <2>7
<1>2. IInv /\ [Next]_vars =>
        [\A e \in Event : state[e] = "stored" /\ state'[e] = "dropped"
                            => day + TouchMin > used[e] + Window * MonthDays]_vars
  BY <1>1
<1>3. QED
  BY <1>2, Invariance, PTL DEF Spec, KeptAfterUse

\* The steps of a call other than a commit leave the events alone.
LEMMA CallsQuiet ==
  ASSUME NEW a \in Agent, Step(a) \/ \E what \in {"log", "read", "cite"}, e \in Event : Begin(a, what, e)
  PROVE  CommitCall(a) \/ UNCHANGED <<day, state, touched>>
BY DEF Step, Begin, AddRawEvent, Find, RawDropped, Touch, TouchNothing, TouchWaits, TouchMoved,
   NoPartition, FailCall, WriteRow, Goto, Abort, events

\* A commit of another call leaves an event that is waited for as it is, or renews it.
LEMMA WaitedForLemma ==
  ASSUME IInv, WaitLosesNothing, NEW b \in Agent, CommitCall(b), NEW a \in Agent,
         pc[a] = "blocked"
  PROVE  Stored(a)' /\ (touched'[ev[a]] = seen'[a] \/ touched'[ev[a]] + 1 >= began'[a])
<1>1. a # b
  BY DEF CommitCall
<1>2. seen'[a] = seen[a] /\ began'[a] = began[a] /\ ev' = ev /\ ev[a] \in Event
  BY <1>1 DEF IInv, TypeOK, CommitCall, EndCall
<1>3. Stored(a) /\ (touched[ev[a]] = seen[a] \/ touched[ev[a]] + 1 >= began[a])
  BY DEF WaitLosesNothing
<1>4. state'[ev[a]] = "stored"
  BY <1>2, <1>3, CommitEffect DEF Stored
<1>5. began[a] <= day /\ day <= began[b] + 1
  BY DEF IInv, CallInv, CommitCall
<1>6. /\ day \in Nat /\ began[a] \in Nat /\ began[b] \in Nat /\ Stamp(b) \in Nat
  BY DEF IInv, TypeOK, Days, Stamp
<1>7. touched'[ev[a]] = touched[ev[a]] \/ touched'[ev[a]] + 1 >= began[a]
  <2>1. CASE rowlock[ev[a]] = b
    <3>1. began[b] <= Stamp(b) /\ ev[b] = ev[a]
      BY <1>2, <2>1 DEF IInv, LockInv
    <3>2. touched'[ev[a]] = Stamp(b)
      BY <1>2, <2>1, <3>1, CommitEffect
    <3>3. QED
      BY <1>5, <1>6, <3>1, <3>2
  <2>2. CASE rowlock[ev[a]] # b
    BY <1>2, <2>2, CommitEffect
  <2>3. QED
    BY <2>1, <2>2
<1>8. QED
  BY <1>2, <1>3, <1>4, <1>7 DEF Stored

LEMMA WaitStep ==
  ASSUME IInv, WaitLosesNothing, [Next]_vars
  PROVE  WaitLosesNothing'
<1> SUFFICES ASSUME NEW a \in Agent, pc'[a] = "blocked"
             PROVE  Stored(a)' /\ (touched'[ev'[a]] = seen'[a] \/ touched'[ev'[a]] + 1 >= began'[a])
  BY DEF WaitLosesNothing
<1>1. pc[a] = "blocked" => Stored(a) /\ (touched[ev[a]] = seen[a] \/ touched[ev[a]] + 1 >= began[a])
  BY DEF WaitLosesNothing
<1>2. ASSUME UNCHANGED <<state, touched, calls>>
      PROVE  Stored(a)' /\ (touched'[ev'[a]] = seen'[a] \/ touched'[ev'[a]] + 1 >= began'[a])
  BY <1>1, <1>2 DEF Stored, calls
<1>3. ASSUME NEW b \in Agent,
             Step(b) \/ \E what \in {"log", "read", "cite"}, e \in Event : Begin(b, what, e)
      PROVE  Stored(a)' /\ (touched'[ev'[a]] = seen'[a] \/ touched'[ev'[a]] + 1 >= began'[a])
  <2>1. CASE TouchWaits(a)
    BY <2>1 DEF TouchWaits, Goto, Stored, events, IInv, TypeOK
  <2>2. CASE CommitCall(b)
    <3>1. pc[a] = "blocked" /\ ev' = ev
      BY <2>2 DEF IInv, TypeOK, CommitCall, EndCall
    <3>2. QED
      BY <2>2, <3>1, WaitedForLemma
  <2>3. CASE ~CommitCall(b) /\ ~TouchWaits(a)
    <3>1. /\ pc[a] = "blocked" /\ ev'[a] = ev[a] /\ seen'[a] = seen[a] /\ began'[a] = began[a]
      BY <1>3, <2>3 DEF Step, Begin, AddRawEvent, Find, RawDropped, Touch, TouchNothing,
         TouchWaits, TouchMoved, NoPartition, FailCall, WriteRow, Goto, Abort, EndCall,
         IInv, TypeOK
    <3>2. UNCHANGED <<state, touched>>
      BY <1>3, <2>3, CallsQuiet
    <3>3. QED
      BY <1>1, <3>1, <3>2 DEF Stored
  <2>4. QED
    BY <2>1, <2>2, <2>3
<1>4. CASE CommitJob
  <2>1. pc[a] = "blocked" /\ UNCHANGED <<touched, calls>>
    BY <1>4 DEF CommitJob, calls
  <2>2. doomed = {}
    BY <1>4, <2>1, CommitJobAlone DEF InTable
  <2>3. state'[ev[a]] = state[ev[a]]
    BY <1>4, <2>2 DEF CommitJob, IInv, TypeOK
  <2>4. QED
    BY <1>1, <2>1, <2>3 DEF Stored, calls
<1>5. CASE (Job /\ ~CommitJob) \/ NextDay
  <2>1. UNCHANGED <<state, touched, calls>>
    BY <1>5 DEF Job, EnsurePartitions, ListExpired, DropIdlePartitions, FailJob, NextDay, events
  <2>2. QED
    BY <1>2, <2>1
<1>6. CASE UNCHANGED vars
  BY <1>2, <1>6 DEF vars, events
<1>7. QED
  BY <1>3, <1>4, <1>5, <1>6 DEF Next

\* A call that waited for an event's row, and may fail for it, finds the event kept.
THEOREM WaitsLoseNothing == Spec => []WaitLosesNothing
<1>1. Init => WaitLosesNothing
  BY DEF Init, WaitLosesNothing
<1>2. IInv /\ WaitLosesNothing /\ [Next]_vars => WaitLosesNothing'
  BY WaitStep
<1>3. QED
  BY <1>1, <1>2, Invariance, PTL DEF Spec
=============================================================================
