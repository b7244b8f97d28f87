------------------------- MODULE IngestLedgerProofs -------------------------
(***************************************************************************)
(* Proofs about IngestLedger, for every set of crawlers, every number of   *)
(* units, events and resets, and any versions that the native hashes tell  *)
(* apart.                                                                  *)
(***************************************************************************)
EXTENDS IngestLedger, SequenceTheorems, TLAPS

USE UnitsAssumption, SomeVersionAssumption, NobodyAssumption, BoundsAssumption

Place == {"idle", "check", "lookup", "touch", "flush", "commit", "write", "get", "set", "reset"}

LEMMA AnyVersionIsVersion == AnyVersion \in Version
  BY DEF AnyVersion

LEMMA OneIsUnit == 1 \in Unit
  BY DEF Unit

LEMMA HashesAreTyped ==
  ASSUME NEW v \in Version
  PROVE  v.content \in Content /\ v.native \in Native
  BY DEF Content, Native

LEMMA CopyIsEvent ==
  ASSUME TypeOK, NEW c \in Crawler
  PROVE  Copy(c) \in Event
<1>1. unit[c] \in Unit /\ fetched[c] \in Version
  BY DEF TypeOK
<1>2. fetched[c].content \in Content
  BY <1>1, HashesAreTyped
<1>3. QED
  BY <1>1, <1>2 DEF Copy, Event

\* What a commit adds to what is stored.
LEMMA AppendCopies ==
  ASSUME TypeOK, NEW e \in Event, events' = Append(events, e)
  PROVE  Copies' = Copies \cup {e}
<1>1. /\ DOMAIN events = 1..Len(events) /\ Len(events) \in Nat
      /\ DOMAIN events' = 1..(Len(events) + 1)
      /\ \A i \in 1..Len(events) : events'[i] = events[i]
      /\ events'[Len(events) + 1] = e
  <2>1. events \in Seq(Event)
    BY DEF TypeOK
  <2>2. QED
    BY <2>1, LenProperties, AppendProperties
<1>2. ASSUME NEW s \in Copies' PROVE s \in Copies \cup {e}
  <2>1. PICK i \in 1..(Len(events) + 1) : s = events'[i]
    BY <1>1 DEF Copies
  <2>2. i \in 1..Len(events) \/ i = Len(events) + 1
    BY <1>1, <2>1
  <2>3. QED
    BY <1>1, <2>1, <2>2 DEF Copies
<1>3. ASSUME NEW s \in Copies PROVE s \in Copies'
  <2>1. PICK i \in 1..Len(events) : s = events[i]
    BY <1>1 DEF Copies
  <2>2. i \in 1..(Len(events) + 1)
    BY <1>1, <2>1
  <2>3. QED
    BY <1>1, <2>1, <2>2 DEF Copies
<1>4. e \in Copies'
  <2>1. Len(events) + 1 \in 1..(Len(events) + 1)
    BY <1>1
  <2>2. QED
    BY <1>1, <2>1 DEF Copies
<1>5. QED
  BY <1>2, <1>3, <1>4

LEMMA InitInv == Init => IInv
<1> SUFFICES ASSUME Init PROVE IInv
  OBVIOUS
<1>1. TypeOK
  <2>1. events \in Seq(Event) /\ Len(events) <= MaxEvents
    BY DEF Init
  <2>2. /\ ledger \in [Unit -> Row \cup {NoRow}]
        /\ lock \in [Unit -> Crawler \cup {Nobody}]
        /\ base \in [Crawler -> Row \cup {NoRow}]
    BY DEF Init
  <2>3. mark \in 0..Units /\ resets \in 0..MaxResets /\ settled \in SUBSET Unit
    BY DEF Init
  <2>4. /\ pc \in [Crawler -> Place]
        /\ ahead \in [Crawler -> BOOLEAN]
    BY DEF Init, Place
  <2>5. /\ unit \in [Crawler -> Unit]
        /\ fetched \in [Crawler -> Version]
        /\ seen \in [Crawler -> 0..Units]
    BY OneIsUnit, AnyVersionIsVersion DEF Init
  <2>6. QED
    BY <2>1, <2>2, <2>3, <2>4, <2>5 DEF TypeOK, Place
<1>2. CursorLeavesNoGap
  BY DEF Init, CursorLeavesNoGap
<1>3. NamesLastEvent /\ \A u \in Unit : RowInv(u)
  BY DEF Init, NamesLastEvent, RowInv
<1>4. StoredIsCovered
  BY DEF Init, StoredIsCovered, Copies
<1>5. \A c \in Crawler : PageInv(c)
  BY DEF Init, PageInv
<1>6. QED
  BY <1>1, <1>2, <1>3, <1>4, <1>5 DEF IInv

-----------------------------------------------------------------------------
(* What a step of one crawler leaves of the others. *)

\* The page of d stays as it is, and so does a row that its transaction has written.
Kept(d) ==
  /\ pc'[d] = pc[d] /\ unit'[d] = unit[d] /\ fetched'[d] = fetched[d] /\ base'[d] = base[d]
  /\ pc[d] = "commit" => lock'[unit[d]] = d /\ ledger'[unit[d]] = ledger[unit[d]]

OthersKept(c) == \A d \in Crawler \ {c} : Kept(d)

\* A crawler does not leave a unit unsettled that it is ingesting.
Settles(c) ==
  /\ settled \subseteq settled'
  /\ Ingesting(c) => \/ unit[c] \in settled'
                     \/ Ingesting(c)' /\ unit'[c] = unit[c]

LEMMA CoveredKept ==
  ASSUME NEW c \in Crawler, OthersKept(c), Settles(c), NEW u, Covered(u)
  PROVE  Covered(u)'
<1>1. CASE u \in settled
  BY <1>1 DEF Settles, Covered
<1>2. CASE \E d \in Crawler : Ingesting(d) /\ unit[d] = u
  <2>1. PICK d \in Crawler : Ingesting(d) /\ unit[d] = u
    BY <1>2
  <2>2. CASE d = c
    BY <2>1, <2>2 DEF Settles, Covered
  <2>3. CASE d # c
    <3>1. Ingesting(d)' /\ unit'[d] = u
      BY <2>1, <2>3 DEF OthersKept, Kept, Ingesting
    <3>2. QED
      BY <3>1 DEF Covered
  <2>4. QED
    BY <2>2, <2>3
<1>3. QED
  BY <1>1, <1>2 DEF Covered

LEMMA KeptPage ==
  ASSUME IInv, NEW d \in Crawler, Kept(d), Copies \subseteq Copies'
  PROVE  PageInv(d)'
<1>1. PageInv(d)
  BY DEF IInv
<1>2. \A u : Stored(u) => Stored(u)'
  BY DEF Stored
<1>3. pc'[d] \notin {"idle", "reset"} => \A u \in 1..(unit'[d] - 1) : Stored(u)'
  BY <1>1, <1>2 DEF Kept, PageInv
<1>4. pc'[d] \in {"write", "get", "set"} => Stored(unit[d])'
  BY <1>1 DEF Kept, PageInv, Stored
<1>5. pc'[d] = "touch" => Copy(d)' \in Copies'
  BY <1>1 DEF Kept, PageInv, Copy
<1>6. pc'[d] = "commit" => lock'[unit'[d]] = d /\ SameRow(d)'
  BY <1>1 DEF Kept, PageInv, SameRow
<1>7. QED
  BY <1>3, <1>4, <1>5, <1>6 DEF PageInv

\* What a step has to show that stores nothing: the page it moves is in order.
LEMMA PageStep ==
  ASSUME IInv, NEW c \in Crawler, OthersKept(c), Settles(c), UNCHANGED events,
         \A u \in Unit : ledger'[u] \in {ledger[u], NoRow},
         \A u \in 1..mark' : Stored(u),
         TypeOK', PageInv(c)'
  PROVE  IInv'
<1>1. Copies' = Copies
  BY DEF Copies
<1>2. CursorLeavesNoGap'
  BY <1>1 DEF CursorLeavesNoGap, Stored
<1>3. NamesLastEvent'
  BY DEF IInv, NamesLastEvent
<1>4. StoredIsCovered'
  <2>1. \A u : Covered(u) => Covered(u)'
    BY CoveredKept
  <2>2. ASSUME NEW s \in Copies' PROVE Covered(s.unit)'
    <3>1. Covered(s.unit)
      BY <1>1, <2>2 DEF IInv, StoredIsCovered
    <3>2. QED
      BY <2>1, <3>1
  <2>3. QED
    BY <2>2 DEF StoredIsCovered, Covered
<1>5. ASSUME NEW u \in Unit PROVE RowInv(u)'
  BY <1>1 DEF IInv, RowInv
<1>6. ASSUME NEW d \in Crawler PROVE PageInv(d)'
  <2>1. CASE d = c
    BY <2>1
  <2>2. CASE d # c
    BY <1>1, <2>2, KeptPage DEF OthersKept
  <2>3. QED
    BY <2>1, <2>2
<1>7. QED
  BY <1>2, <1>3, <1>4, <1>5, <1>6 DEF IInv

\* The cursor as it is.
LEMMA MarkKept ==
  ASSUME IInv, UNCHANGED mark
  PROVE  \A u \in 1..mark' : Stored(u)
  BY DEF IInv, CursorLeavesNoGap, Stored

\* A step that moves a page and leaves what the transactions share.
LEMMA QuietStep ==
  ASSUME IInv, NEW c \in Crawler, OthersKept(c), Settles(c), UNCHANGED <<events, ledger, mark>>,
         TypeOK', PageInv(c)'
  PROVE  IInv'
<1>1. \A u \in Unit : ledger'[u] \in {ledger[u], NoRow}
  OBVIOUS
<1>2. \A u \in 1..mark' : Stored(u)
  BY MarkKept
<1>3. QED
  BY <1>1, <1>2, PageStep

\* A step of a crawler within its page.
LEMMA GotoInv ==
  ASSUME IInv, NEW c \in Crawler, NEW l \in Place \ {"idle", "reset"},
         pc[c] \notin {"idle", "reset"}, Goto(c, l),
         UNCHANGED <<events, ledger, mark, resets, unit, fetched, ahead>>,
         lock' \in [Unit -> Crawler \cup {Nobody}],
         \A d \in Crawler \ {c} : \A u \in Unit : lock[u] = d => lock'[u] = d,
         NEW b \in Row \cup {NoRow}, base' = [base EXCEPT ![c] = b],
         seen' \in [Crawler -> 0..Units], settled' \in SUBSET Unit, Settles(c),
         l = "touch" => Copy(c) \in Copies,
         l \in {"write", "get", "set"} => Stored(unit[c]),
         l = "commit" => lock'[unit[c]] = c /\ SameRow(c)'
  PROVE  IInv'
<1>1. TypeOK
  BY DEF IInv
<1>2. TypeOK'
  <2>1. pc' \in [Crawler -> Place]
    BY <1>1 DEF TypeOK, Goto, Place
  <2>2. base' \in [Crawler -> Row \cup {NoRow}]
    BY <1>1 DEF TypeOK
  <2>3. QED
    BY <1>1, <2>1, <2>2 DEF TypeOK, Place
<1>3. ASSUME NEW d \in Crawler \ {c} PROVE Kept(d)
  <2>1. pc'[d] = pc[d] /\ unit'[d] = unit[d] /\ fetched'[d] = fetched[d] /\ base'[d] = base[d]
    BY <1>1 DEF TypeOK, Goto
  <2>2. pc[d] = "commit" => lock[unit[d]] = d
    BY DEF IInv, PageInv
  <2>3. unit[d] \in Unit
    BY <1>1 DEF TypeOK
  <2>4. QED
    BY <2>1, <2>2, <2>3 DEF Kept
<1>4. pc'[c] = l /\ unit'[c] = unit[c] /\ fetched'[c] = fetched[c] /\ Copies' = Copies
  BY <1>1 DEF TypeOK, Goto, Copies
<1>5. PageInv(c)'
  <2>1. pc'[c] \notin {"idle", "reset"} => \A u \in 1..(unit'[c] - 1) : Stored(u)'
    BY <1>4 DEF IInv, PageInv, Stored
  <2>2. pc'[c] = "touch" => Copy(c)' \in Copies'
    BY <1>4 DEF Copy
  <2>3. pc'[c] \in {"write", "get", "set"} => Stored(unit[c])'
    BY <1>4 DEF Stored
  <2>4. pc'[c] = "commit" => lock'[unit'[c]] = c /\ SameRow(c)'
    BY <1>4
  <2>5. QED
    BY <2>1, <2>2, <2>3, <2>4 DEF PageInv
<1>6. OthersKept(c)
  BY <1>3 DEF OthersKept
<1>7. QED
  BY <1>2, <1>5, <1>6, QuietStep

\* The end of a page, in a transaction that may have taken rows that it had locked.
LEMMA LeaveInv ==
  ASSUME IInv, NEW c \in Crawler, Leave(c), Settles(c), UNCHANGED events,
         ledger' \in [Unit -> Row \cup {NoRow}],
         \A u \in Unit : ledger'[u] \in {ledger[u], NoRow},
         \A u \in Unit : lock[u] # c => ledger'[u] = ledger[u],
         mark' \in 0..Units, \A u \in 1..mark' : Stored(u),
         resets' \in 0..MaxResets, settled' \in SUBSET Unit
  PROVE  IInv'
<1>1. TypeOK
  BY DEF IInv
<1>2. TypeOK'
  <2>1. pc' \in [Crawler -> Place] /\ ahead' \in [Crawler -> BOOLEAN]
    BY <1>1 DEF TypeOK, Leave, Goto, Place
  <2>2. unit' \in [Crawler -> Unit]
    BY <1>1, OneIsUnit DEF TypeOK, Leave
  <2>3. fetched' \in [Crawler -> Version]
    BY <1>1, AnyVersionIsVersion DEF TypeOK, Leave
  <2>4. base' \in [Crawler -> Row \cup {NoRow}]
    BY <1>1 DEF TypeOK, Leave
  <2>5. seen' \in [Crawler -> 0..Units]
    BY <1>1 DEF TypeOK, Leave
  <2>6. lock' \in [Unit -> Crawler \cup {Nobody}]
    BY <1>1 DEF TypeOK, Leave, Released
  <2>7. QED
    BY <1>1, <2>1, <2>2, <2>3, <2>4, <2>5, <2>6 DEF TypeOK, Place
<1>3. ASSUME NEW d \in Crawler \ {c} PROVE Kept(d)
  <2>1. pc'[d] = pc[d] /\ unit'[d] = unit[d] /\ fetched'[d] = fetched[d] /\ base'[d] = base[d]
    BY <1>1 DEF TypeOK, Leave, Goto
  <2>2. pc[d] = "commit" => lock[unit[d]] = d
    BY DEF IInv, PageInv
  <2>3. unit[d] \in Unit
    BY <1>1 DEF TypeOK
  <2>4. lock[unit[d]] = d => lock'[unit[d]] = d
    BY <2>3 DEF Leave, Released
  <2>5. QED
    BY <2>1, <2>2, <2>3, <2>4 DEF Kept
<1>4. pc'[c] = "idle"
  BY <1>1 DEF TypeOK, Leave, Goto
<1>5. PageInv(c)'
  BY <1>4 DEF PageInv
<1>6. OthersKept(c)
  BY <1>3 DEF OthersKept
<1>7. QED
  BY <1>2, <1>5, <1>6, PageStep

-----------------------------------------------------------------------------
(* The crawlers' way through a page. *)

LEMMA OpenInv ==
  ASSUME IInv, NEW c \in Crawler, NEW u \in Unit, NEW v \in Version, Open(c, u, v)
  PROVE  IInv'
<1>1. /\ TypeOK /\ pc[c] = "idle" /\ u <= mark + 1
      /\ ahead' = [ahead EXCEPT ![c] = u > mark]
      /\ unit' = [unit EXCEPT ![c] = u]
      /\ fetched' = [fetched EXCEPT ![c] = v]
      /\ pc' = [pc EXCEPT ![c] = "check"]
      /\ UNCHANGED <<events, ledger, mark, lock, resets, base, seen, settled>>
  BY DEF IInv, Open, Goto, tables
<1>2. TypeOK'
  BY <1>1 DEF TypeOK
<1>3. ASSUME NEW d \in Crawler \ {c} PROVE Kept(d)
  <2>1. pc'[d] = pc[d] /\ unit'[d] = unit[d] /\ fetched'[d] = fetched[d] /\ base'[d] = base[d]
    BY <1>1 DEF TypeOK
  <2>2. pc[d] = "commit" => lock[unit[d]] = d
    BY DEF IInv, PageInv
  <2>3. QED
    BY <1>1, <2>1, <2>2 DEF Kept
<1>4. Settles(c)
  BY <1>1 DEF Settles, Ingesting
<1>5. pc'[c] = "check" /\ unit'[c] = u
  BY <1>1 DEF TypeOK
<1>6. \A w \in 1..(u - 1) : Stored(w)'
  <2>1. \A w \in 1..mark : Stored(w)'
    BY <1>1 DEF IInv, CursorLeavesNoGap, Stored, Copies
  <2>2. u \in Nat /\ mark \in Nat
    BY <1>1 DEF TypeOK, Unit
  <2>3. \A w \in 1..(u - 1) : w \in 1..mark
    BY <1>1, <2>2
  <2>4. QED
    BY <2>1, <2>3
<1>7. PageInv(c)'
  BY <1>5, <1>6 DEF PageInv
<1>8. QED
  BY <1>1, <1>2, <1>3, <1>4, <1>7, QuietStep DEF OthersKept

\* Any hash by which a row agrees with what was fetched tells that this is stored.
LEMMA AgreedIsStored ==
  ASSUME IInv, NEW c \in Crawler, NEW h \in Hashes, ledger[unit[c]] # NoRow,
         ledger[unit[c]][h] = fetched[c][h]
  PROVE  Copy(c) \in Copies
<1> DEFINE row == ledger[unit[c]]
           v == fetched[c]
<1>1. unit[c] \in Unit /\ v \in Version
  BY DEF IInv, TypeOK
<1>2. /\ [unit |-> unit[c], content |-> row.content] \in Copies
      /\ \E w \in Version : /\ w.native = row.native
                            /\ [unit |-> unit[c], content |-> w.content] \in Copies
  BY <1>1 DEF IInv, RowInv
<1>3. CASE h = "content"
  <2>1. row.content = v.content
    BY <1>3
  <2>2. QED
    BY <1>2, <2>1 DEF Copy
<1>4. CASE h = "native"
  <2>1. row.native = v.native
    BY <1>4
  <2>2. PICK w \in Version : /\ w.native = v.native
                             /\ [unit |-> unit[c], content |-> w.content] \in Copies
    BY <1>2, <2>1
  <2>3. w.content = v.content
    BY <1>1, <2>2, VersionAssumption
  <2>4. QED
    BY <2>2, <2>3 DEF Copy
<1>5. QED
  BY <1>3, <1>4 DEF Hashes

LEMMA CopyIsStored ==
  ASSUME NEW c \in Crawler, Copy(c) \in Copies
  PROVE  Stored(unit[c])
<1>1. Copy(c).unit = unit[c]
  BY DEF Copy
<1>2. QED
  BY <1>1 DEF Stored

LEMMA CheckKnownStored ==
  ASSUME IInv, NEW c \in Crawler, CheckKnown(c)
  PROVE  Copy(c) \in Copies
<1>1. PICK hashes \in (SUBSET Hashes) \ {{}} : Agrees(ledger[unit[c]], fetched[c], hashes)
  BY DEF CheckKnown
<1>2. PICK h \in hashes : h \in Hashes
  <2>1. hashes # {} /\ hashes \subseteq Hashes
    OBVIOUS
  <2>2. QED
    BY <2>1
<1>3. ledger[unit[c]] # NoRow /\ ledger[unit[c]][h] = fetched[c][h]
  BY <1>1, <1>2 DEF Agrees
<1>4. QED
  BY <1>2, <1>3, AgreedIsStored

\* What a page holds stays as it is.
LEMMA BaseKept ==
  ASSUME TypeOK, NEW c \in Crawler, UNCHANGED base
  PROVE  base[c] \in Row \cup {NoRow} /\ base' = [base EXCEPT ![c] = base[c]]
  BY DEF TypeOK

LEMMA CheckKnownInv ==
  ASSUME IInv, NEW c \in Crawler, CheckKnown(c)
  PROVE  IInv'
<1>1. /\ TypeOK /\ pc[c] = "check" /\ Goto(c, "get")
      /\ UNCHANGED <<events, ledger, mark, lock, resets, unit, fetched, ahead, base, seen, settled>>
  BY DEF IInv, CheckKnown, tables, page
<1>2. Stored(unit[c])
  BY CheckKnownStored, CopyIsStored
<1>3. Settles(c)
  BY <1>1 DEF Settles, Ingesting
<1>4. /\ "get" \in Place \ {"idle", "reset"}
      /\ lock' \in [Unit -> Crawler \cup {Nobody}]
      /\ seen' \in [Crawler -> 0..Units] /\ settled' \in SUBSET Unit
  BY <1>1 DEF TypeOK, Place
<1>5. QED
  BY <1>1, <1>2, <1>3, <1>4, BaseKept, GotoInv

LEMMA CheckNewsInv ==
  ASSUME IInv, NEW c \in Crawler, CheckNews(c)
  PROVE  IInv'
<1>1. /\ TypeOK /\ pc[c] = "check" /\ Goto(c, "lookup")
      /\ UNCHANGED <<events, ledger, mark, lock, resets, unit, fetched, ahead, base, seen, settled>>
  BY DEF IInv, CheckNews, tables, page
<1>2. Settles(c)
  BY <1>1 DEF Settles, Ingesting
<1>3. /\ "lookup" \in Place \ {"idle", "reset"}
      /\ lock' \in [Unit -> Crawler \cup {Nobody}]
      /\ seen' \in [Crawler -> 0..Units] /\ settled' \in SUBSET Unit
  BY <1>1 DEF TypeOK, Place
<1>4. QED
  BY <1>1, <1>2, <1>3, BaseKept, GotoInv

LEMMA WriteFactsInv ==
  ASSUME IInv, NEW c \in Crawler, WriteFacts(c)
  PROVE  IInv'
<1>1. /\ TypeOK /\ pc[c] = "write" /\ Goto(c, "get")
      /\ settled' = settled \cup {unit[c]}
      /\ UNCHANGED <<events, ledger, mark, lock, resets, unit, fetched, ahead, base, seen>>
  BY DEF IInv, WriteFacts, tables, page
<1>2. Stored(unit[c])
  BY <1>1 DEF IInv, PageInv
<1>3. Settles(c)
  BY <1>1 DEF Settles
<1>4. /\ "get" \in Place \ {"idle", "reset"}
      /\ lock' \in [Unit -> Crawler \cup {Nobody}]
      /\ seen' \in [Crawler -> 0..Units] /\ settled' \in SUBSET Unit
  BY <1>1 DEF TypeOK, Place
<1>5. QED
  BY <1>1, <1>2, <1>3, <1>4, BaseKept, GotoInv

LEMMA ResendInv ==
  ASSUME IInv, NEW c \in Crawler, Resend(c)
  PROVE  IInv'
<1>1. /\ TypeOK /\ pc[c] = "write" /\ Goto(c, "lookup")
      /\ base' = [base EXCEPT ![c] = NoRow]
      /\ UNCHANGED <<events, ledger, mark, lock, resets, unit, fetched, ahead, seen, settled>>
  BY DEF IInv, Resend, tables
<1>2. pc'[c] = "lookup"
  BY <1>1 DEF TypeOK, Goto
<1>3. Settles(c)
  BY <1>1, <1>2 DEF Settles, Ingesting
<1>4. /\ "lookup" \in Place \ {"idle", "reset"}
      /\ lock' \in [Unit -> Crawler \cup {Nobody}]
      /\ seen' \in [Crawler -> 0..Units] /\ settled' \in SUBSET Unit
  BY <1>1 DEF TypeOK, Place
<1>5. QED
  BY <1>1, <1>3, <1>4, GotoInv

\* The end of a page that leaves the tables as they are.
LEMMA LeaveQuietly ==
  ASSUME IInv, NEW c \in Crawler, Leave(c), Settles(c), UNCHANGED <<events, ledger, mark, resets>>,
         settled' \in SUBSET Unit
  PROVE  IInv'
<1>1. /\ ledger' \in [Unit -> Row \cup {NoRow}] /\ mark' \in 0..Units
      /\ resets' \in 0..MaxResets
  BY DEF IInv, TypeOK
<1>2. \A u \in 1..mark' : Stored(u)
  BY MarkKept
<1>3. QED
  BY <1>1, <1>2, LeaveInv

LEMMA GiveUpInv ==
  ASSUME IInv, NEW c \in Crawler, GiveUp(c)
  PROVE  IInv'
<1>1. /\ unit[c] \in Unit /\ settled \in SUBSET Unit
      /\ settled' = IF Ingesting(c) THEN settled \cup {unit[c]} ELSE settled
      /\ Leave(c) /\ UNCHANGED <<events, ledger, mark, resets>>
  BY DEF IInv, TypeOK, GiveUp, tables
<1>2. settled' \in SUBSET Unit /\ Settles(c)
  BY <1>1 DEF Settles
<1>3. QED
  BY <1>1, <1>2, LeaveQuietly

LEMMA RereadInv ==
  ASSUME IInv, NEW c \in Crawler, Reread(c) \/ SetMarkFails(c)
  PROVE  IInv'
<1>1. /\ pc[c] \in {"get", "set"} /\ settled \in SUBSET Unit
      /\ Leave(c) /\ UNCHANGED <<events, ledger, mark, resets, settled>>
  BY DEF IInv, TypeOK, Reread, SetMarkFails, tables
<1>2. Settles(c)
  BY <1>1 DEF Settles, Ingesting
<1>3. QED
  BY <1>1, <1>2, LeaveQuietly

-----------------------------------------------------------------------------
(* ingest_source_unit. *)

LEMMA LookupKnownInv ==
  ASSUME IInv, NEW c \in Crawler, LookupKnown(c)
  PROVE  IInv'
<1>1. /\ TypeOK /\ pc[c] = "lookup" /\ Goto(c, "touch")
      /\ Matches(ledger[unit[c]], fetched[c])
      /\ base' = [base EXCEPT ![c] = ledger[unit[c]]]
      /\ UNCHANGED <<events, ledger, mark, lock, resets, unit, fetched, ahead, seen, settled>>
  BY DEF IInv, LookupKnown, tables
<1>2. pc'[c] = "touch" /\ unit[c] \in Unit /\ ledger[unit[c]] \in Row \cup {NoRow}
  BY <1>1 DEF TypeOK, Goto
<1>3. Settles(c)
  BY <1>1, <1>2 DEF Settles, Ingesting
<1>4. Copy(c) \in Copies
  <2>1. "content" \in Hashes
    BY DEF Hashes
  <2>2. ledger[unit[c]] # NoRow /\ ledger[unit[c]]["content"] = fetched[c]["content"]
    BY <1>1, <2>1 DEF Matches, Agrees
  <2>3. QED
    BY <2>1, <2>2, AgreedIsStored
<1>5. /\ "touch" \in Place \ {"idle", "reset"}
      /\ lock' \in [Unit -> Crawler \cup {Nobody}]
      /\ seen' \in [Crawler -> 0..Units] /\ settled' \in SUBSET Unit
  BY <1>1 DEF TypeOK, Place
<1>6. QED
  BY <1>1, <1>2, <1>3, <1>4, <1>5, GotoInv

LEMMA TouchInv ==
  ASSUME IInv, NEW c \in Crawler, Touch(c)
  PROVE  IInv'
<1>1. /\ TypeOK /\ pc[c] = "touch" /\ Goto(c, "write")
      /\ UNCHANGED <<events, ledger, mark, lock, resets, unit, fetched, ahead, base, seen, settled>>
  BY DEF IInv, Touch, tables, page
<1>2. pc'[c] = "write"
  BY <1>1 DEF TypeOK, Goto
<1>3. Settles(c)
  BY <1>1, <1>2 DEF Settles, Ingesting
<1>4. Stored(unit[c])
  BY <1>1, CopyIsStored DEF IInv, PageInv
<1>5. /\ "write" \in Place \ {"idle", "reset"}
      /\ lock' \in [Unit -> Crawler \cup {Nobody}]
      /\ seen' \in [Crawler -> 0..Units] /\ settled' \in SUBSET Unit
  BY <1>1 DEF TypeOK, Place
<1>6. QED
  BY <1>1, <1>3, <1>4, <1>5, BaseKept, GotoInv

LEMMA LookupNewsInv ==
  ASSUME IInv, NEW c \in Crawler, LookupNews(c)
  PROVE  IInv'
<1>1. /\ TypeOK /\ pc[c] = "lookup" /\ Goto(c, "flush")
      /\ base' = [base EXCEPT ![c] = ledger[unit[c]]]
      /\ UNCHANGED <<events, ledger, mark, lock, resets, unit, fetched, ahead, seen, settled>>
  BY DEF IInv, LookupNews, tables
<1>2. pc'[c] = "flush" /\ unit[c] \in Unit /\ ledger[unit[c]] \in Row \cup {NoRow}
  BY <1>1 DEF TypeOK, Goto
<1>3. Settles(c)
  BY <1>1, <1>2 DEF Settles, Ingesting
<1>4. /\ "flush" \in Place \ {"idle", "reset"}
      /\ lock' \in [Unit -> Crawler \cup {Nobody}]
      /\ seen' \in [Crawler -> 0..Units] /\ settled' \in SUBSET Unit
  BY <1>1 DEF TypeOK, Place
<1>5. QED
  BY <1>1, <1>2, <1>3, <1>4, GotoInv

LEMMA FlushInv ==
  ASSUME IInv, NEW c \in Crawler, Flush(c)
  PROVE  IInv'
<1>1. /\ TypeOK /\ pc[c] = "flush" /\ Goto(c, "commit")
      /\ lock[unit[c]] = Nobody /\ SameRow(c)
      /\ lock' = [lock EXCEPT ![unit[c]] = c]
      /\ UNCHANGED <<events, ledger, mark, resets, unit, fetched, ahead, base, seen, settled>>
  BY DEF IInv, Flush, tables, page
<1>2. pc'[c] = "commit" /\ unit[c] \in Unit
  BY <1>1 DEF TypeOK, Goto
<1>3. Settles(c)
  BY <1>1, <1>2 DEF Settles, Ingesting
<1>4. /\ lock' \in [Unit -> Crawler \cup {Nobody}] /\ lock'[unit[c]] = c
      /\ \A d \in Crawler \ {c} : \A u \in Unit : lock[u] = d => lock'[u] = d
  BY <1>1, <1>2 DEF TypeOK
<1>5. SameRow(c)'
  BY <1>1 DEF SameRow
<1>6. /\ "commit" \in Place \ {"idle", "reset"}
      /\ seen' \in [Crawler -> 0..Units] /\ settled' \in SUBSET Unit
  BY <1>1 DEF TypeOK, Place
<1>7. QED
  BY <1>1, <1>3, <1>4, <1>5, <1>6, BaseKept, GotoInv

-----------------------------------------------------------------------------
(* The commit. *)

\* The row that a transaction leaves names the event it adds, and has hashes of the version it
\* stores or of the row that was there.
LEMMA WrittenRow ==
  ASSUME IInv, NEW c \in Crawler, pc[c] = "commit", Len(events) < MaxEvents
  PROVE  /\ Written(c) \in Row
         /\ Written(c).event = Len(events) + 1
         /\ \/ Written(c).content = fetched[c].content
            \/ /\ ledger[unit[c]] # NoRow
               /\ Written(c).content = ledger[unit[c]].content
         /\ \/ Written(c).native = fetched[c].native
            \/ /\ ledger[unit[c]] # NoRow
               /\ Written(c).native = ledger[unit[c]].native
<1>1. TypeOK /\ SameRow(c)
  BY DEF IInv, PageInv
<1>2. /\ fetched[c].content \in Content /\ fetched[c].native \in Native
      /\ unit[c] \in Unit /\ ledger[unit[c]] \in Row \cup {NoRow}
  BY <1>1, HashesAreTyped DEF TypeOK
<1>3. Len(events) + 1 \in 1..MaxEvents
  <2>1. Len(events) \in Nat
    BY <1>1, LenProperties DEF TypeOK
  <2>2. QED
    BY <2>1
<1>4. CASE base[c] = NoRow
  BY <1>2, <1>3, <1>4 DEF Written, Row
<1>5. CASE base[c] # NoRow
  <2>1. ledger[unit[c]] # NoRow /\ ledger[unit[c]] \in Row
    BY <1>1, <1>2, <1>5 DEF SameRow
  <2>2. Written(c) \in Row
    BY <1>2, <1>3, <1>5, <2>1 DEF Written, Row
  <2>3. Written(c).event = Len(events) + 1
    BY <1>5 DEF Written
  <2>4. \/ Written(c).content = fetched[c].content
        \/ Written(c).content = ledger[unit[c]].content
    BY <1>5 DEF Written
  <2>5. \/ Written(c).native = fetched[c].native
        \/ Written(c).native = ledger[unit[c]].native
    BY <1>5 DEF Written
  <2>6. QED
    BY <2>1, <2>2, <2>3, <2>4, <2>5
<1>6. QED
  BY <1>4, <1>5

\* Event and row come together: the row has hashes of versions that are stored by then.
LEMMA CommitRow ==
  ASSUME IInv, NEW c \in Crawler, Commit(c), Copies' = Copies \cup {Copy(c)}
  PROVE  RowInv(unit[c])'
<1> DEFINE u == unit[c]
           w == Written(c)
<1>1. /\ u \in Unit /\ fetched[c] \in Version
      /\ ledger' = [ledger EXCEPT ![u] = w] /\ ledger'[u] = w
      /\ pc[c] = "commit" /\ Len(events) < MaxEvents /\ unit'[c] = u
  BY DEF IInv, TypeOK, Commit, page
<1>2. [unit |-> u, content |-> fetched[c].content] \in Copies'
  BY DEF Copy
<1>3. ledger[u] # NoRow =>
        /\ [unit |-> u, content |-> ledger[u].content] \in Copies'
        /\ \E v \in Version : /\ v.native = ledger[u].native
                              /\ [unit |-> u, content |-> v.content] \in Copies'
  BY <1>1 DEF IInv, RowInv
<1>4. /\ \/ w.content = fetched[c].content
         \/ ledger[u] # NoRow /\ w.content = ledger[u].content
      /\ \/ w.native = fetched[c].native
         \/ ledger[u] # NoRow /\ w.native = ledger[u].native
  BY <1>1, WrittenRow
<1> HIDE DEF w
<1>5. [unit |-> u, content |-> w.content] \in Copies'
  BY <1>2, <1>3, <1>4
<1>6. \E v \in Version : v.native = w.native /\ [unit |-> u, content |-> v.content] \in Copies'
  BY <1>1, <1>2, <1>3, <1>4
<1>7. QED
  BY <1>1, <1>5, <1>6 DEF RowInv

\* The new event is the last one, and its unit's row names it.
LEMMA CommitNames ==
  ASSUME IInv, NEW c \in Crawler, Commit(c)
  PROVE  NamesLastEvent'
<1> DEFINE n == Len(events)
           u == unit[c]
<1>1. /\ TypeOK /\ u \in Unit /\ pc[c] = "commit" /\ n < MaxEvents
      /\ events' = Append(events, Copy(c))
      /\ ledger' = [ledger EXCEPT ![u] = Written(c)]
  BY DEF IInv, TypeOK, Commit
<1>2. /\ n \in Nat /\ DOMAIN events = 1..n /\ DOMAIN events' = 1..(n + 1)
      /\ \A i \in 1..n : events'[i] = events[i]
      /\ events'[n + 1].unit = u
  <2>1. events \in Seq(Event) /\ Copy(c) \in Event /\ Copy(c).unit = u
    BY <1>1, CopyIsEvent DEF TypeOK, Copy
  <2>2. QED
    BY <1>1, <2>1, LenProperties, AppendProperties
<1>3. Written(c).event = n + 1
  BY <1>1, WrittenRow
<1>4. SUFFICES ASSUME NEW w \in Unit, ledger'[w] # NoRow
               PROVE  /\ ledger'[w].event \in DOMAIN events'
                      /\ \A i \in DOMAIN events' : events'[i].unit = w => i <= ledger'[w].event
  BY DEF NamesLastEvent
<1>5. CASE w = u
  <2>1. ledger'[w].event = n + 1
    BY <1>1, <1>3, <1>5 DEF TypeOK
  <2>2. QED
    BY <1>2, <2>1
<1>6. CASE w # u
  <2>1. ledger'[w] = ledger[w]
    BY <1>1, <1>6 DEF TypeOK
  <2>2. /\ ledger[w].event \in 1..n
        /\ \A i \in 1..n : events[i].unit = w => i <= ledger[w].event
    BY <1>2, <1>4, <2>1 DEF IInv, NamesLastEvent
  <2>3. ledger'[w].event \in DOMAIN events'
    BY <1>2, <2>1, <2>2
  <2>4. ASSUME NEW i \in 1..(n + 1), events'[i].unit = w PROVE i <= ledger'[w].event
    <3>1. i # n + 1
      BY <1>2, <1>6, <2>4
    <3>2. i \in 1..n
      BY <1>2, <3>1
    <3>3. QED
      BY <1>2, <2>1, <2>2, <2>4, <3>2
  <2>5. QED
    BY <1>2, <2>3, <2>4
<1>7. QED
  BY <1>5, <1>6

LEMMA CommitType ==
  ASSUME TypeOK, NEW c \in Crawler, Commit(c), Written(c) \in Row
  PROVE  TypeOK'
<1>1. events' \in Seq(Event) /\ Len(events') <= MaxEvents
  <2>1. events \in Seq(Event) /\ Copy(c) \in Event
    BY CopyIsEvent DEF TypeOK
  <2>2. Len(events') = Len(events) + 1 /\ Len(events) \in Nat /\ events' \in Seq(Event)
    BY <2>1, LenProperties, AppendProperties DEF Commit
  <2>3. Len(events) < MaxEvents
    BY DEF Commit
  <2>4. QED
    BY <2>2, <2>3
<1>2. ledger' \in [Unit -> Row \cup {NoRow}]
  BY DEF TypeOK, Commit
<1>3. lock' \in [Unit -> Crawler \cup {Nobody}]
  BY DEF TypeOK, Commit, Released
<1>4. pc' \in [Crawler -> Place]
  BY DEF TypeOK, Commit, Goto, Place
<1>5. UNCHANGED <<mark, resets, unit, fetched, ahead, base, seen, settled>>
  BY DEF Commit, page
<1>6. QED
  BY <1>1, <1>2, <1>3, <1>4, <1>5 DEF TypeOK, Place

LEMMA CommitIInv ==
  ASSUME IInv, NEW c \in Crawler, Commit(c)
  PROVE  IInv'
<1>1. /\ TypeOK /\ pc[c] = "commit" /\ Len(events) < MaxEvents
      /\ events' = Append(events, Copy(c))
      /\ ledger' = [ledger EXCEPT ![unit[c]] = Written(c)]
      /\ lock' = Released(c) /\ lock[unit[c]] = c
      /\ pc' = [pc EXCEPT ![c] = "write"]
      /\ UNCHANGED <<mark, resets, unit, fetched, ahead, base, seen, settled>>
  BY DEF IInv, PageInv, Commit, Goto, page
<1>2. Copies' = Copies \cup {Copy(c)}
  BY <1>1, CopyIsEvent, AppendCopies
<1>3. TypeOK'
  BY <1>1, WrittenRow, CommitType
<1>4. ASSUME NEW d \in Crawler \ {c} PROVE Kept(d)
  <2>1. pc'[d] = pc[d] /\ unit'[d] = unit[d] /\ fetched'[d] = fetched[d] /\ base'[d] = base[d]
    BY <1>1 DEF TypeOK
  <2>2. pc[d] = "commit" => lock[unit[d]] = d
    BY DEF IInv, PageInv
  <2>3. unit[d] \in Unit
    BY <1>1 DEF TypeOK
  <2>4. lock[unit[d]] = d => lock'[unit[d]] = d /\ ledger'[unit[d]] = ledger[unit[d]]
    BY <1>1, <2>3 DEF TypeOK, Released
  <2>5. QED
    BY <2>1, <2>2, <2>3, <2>4 DEF Kept
<1>5. pc'[c] = "write" /\ unit'[c] = unit[c]
  BY <1>1 DEF TypeOK
<1>6. CursorLeavesNoGap'
  BY <1>1, <1>2 DEF IInv, CursorLeavesNoGap
<1>7. NamesLastEvent'
  BY CommitNames
<1>8. StoredIsCovered'
  <2>1. OthersKept(c)
    BY <1>4 DEF OthersKept
  <2>2. Settles(c)
    BY <1>1, <1>5 DEF Settles, Ingesting
  <2>3. \A u : Covered(u) => Covered(u)'
    BY <2>1, <2>2, CoveredKept
  <2>4. Covered(unit[c])'
    BY <1>5 DEF Covered, Ingesting
  <2>5. Copy(c).unit = unit[c]
    BY DEF Copy
  <2>6. ASSUME NEW s \in Copies'
        PROVE  s.unit \in settled' \/ \E d \in Crawler : Ingesting(d)' /\ unit'[d] = s.unit
    <3>1. CASE s \in Copies
      BY <2>3, <3>1 DEF IInv, StoredIsCovered, Covered
    <3>2. CASE s = Copy(c)
      BY <1>5, <2>5, <3>2 DEF Ingesting
    <3>3. QED
      BY <1>2, <3>1, <3>2
  <2>7. QED
    BY <2>6 DEF StoredIsCovered, Covered
<1>9. ASSUME NEW u \in Unit PROVE RowInv(u)'
  <2>1. CASE u = unit[c]
    <3>1. RowInv(unit[c])'
      BY <1>2, CommitRow
    <3>2. QED
      BY <1>5, <2>1, <3>1 DEF RowInv
  <2>2. CASE u # unit[c]
    <3>1. ledger'[u] = ledger[u]
      BY <1>1, <2>2 DEF TypeOK
    <3>2. QED
      BY <1>2, <3>1 DEF IInv, RowInv
  <2>3. QED
    BY <2>1, <2>2
<1>10. ASSUME NEW d \in Crawler PROVE PageInv(d)'
  <2>1. CASE d = c
    <3>1. \A u \in 1..(unit'[c] - 1) : Stored(u)'
      BY <1>1, <1>2, <1>5 DEF IInv, PageInv, Stored
    <3>2. Stored(unit[c])'
      <4>1. Copy(c).unit = unit[c] /\ Copy(c) \in Copies'
        BY <1>2 DEF Copy
      <4>2. QED
        BY <1>5, <4>1 DEF Stored
    <3>3. QED
      BY <1>5, <2>1, <3>1, <3>2 DEF PageInv
  <2>2. CASE d # c
    BY <1>2, <1>4, <2>2, KeptPage
  <2>3. QED
    BY <2>1, <2>2
<1>11. QED
  BY <1>3, <1>6, <1>7, <1>8, <1>9, <1>10 DEF IInv

-----------------------------------------------------------------------------
(* upsert_watermark and reset_source_ingest. *)

LEMMA GetMarkInv ==
  ASSUME IInv, NEW c \in Crawler, GetMark(c)
  PROVE  IInv'
<1>1. /\ TypeOK /\ pc[c] = "get" /\ Goto(c, "set")
      /\ seen' = [seen EXCEPT ![c] = mark]
      /\ UNCHANGED <<events, ledger, mark, lock, resets, unit, fetched, ahead, base, settled>>
  BY DEF IInv, GetMark, tables
<1>2. Stored(unit[c])
  BY <1>1 DEF IInv, PageInv
<1>3. Settles(c)
  BY <1>1 DEF Settles, Ingesting
<1>4. /\ "set" \in Place \ {"idle", "reset"}
      /\ lock' \in [Unit -> Crawler \cup {Nobody}]
      /\ seen' \in [Crawler -> 0..Units] /\ settled' \in SUBSET Unit
  BY <1>1 DEF TypeOK, Place
<1>5. QED
  BY <1>1, <1>2, <1>3, <1>4, BaseKept, GotoInv

\* The cursor moves to a unit that is stored, with all that come before it.
LEMMA SetMarkInv ==
  ASSUME IInv, NEW c \in Crawler, SetMark(c)
  PROVE  IInv'
<1>1. /\ TypeOK /\ pc[c] = "set" /\ Leave(c)
      /\ mark' = IF unit[c] # seen[c] THEN unit[c] ELSE mark
      /\ UNCHANGED <<events, ledger, resets, settled>>
  BY DEF IInv, SetMark
<1>2. unit[c] \in 1..Units /\ mark \in 0..Units
  BY <1>1 DEF TypeOK, Unit
<1>3. Stored(unit[c]) /\ \A u \in 1..(unit[c] - 1) : Stored(u)
  BY <1>1 DEF IInv, PageInv
<1>4. \A u \in 1..unit[c] : Stored(u)
  <2>1. \A u \in 1..unit[c] : u = unit[c] \/ u \in 1..(unit[c] - 1)
    BY <1>2
  <2>2. QED
    BY <1>3, <2>1
<1>5. \A u \in 1..mark : Stored(u)
  BY DEF IInv, CursorLeavesNoGap, Stored
<1>6. mark' \in 0..Units /\ \A u \in 1..mark' : Stored(u)
  BY <1>1, <1>2, <1>4, <1>5
<1>7. Settles(c)
  BY <1>1 DEF Settles, Ingesting
<1>8. /\ ledger' \in [Unit -> Row \cup {NoRow}] /\ resets' \in 0..MaxResets
      /\ settled' \in SUBSET Unit
  BY <1>1 DEF TypeOK
<1>9. QED
  BY <1>1, <1>6, <1>7, <1>8, LeaveInv

\* The rows that others have written are not there for a reset to lock.
LEMMA ResetUnitsInv ==
  ASSUME IInv, NEW c \in Crawler, ResetUnits(c)
  PROVE  IInv'
<1>1. /\ TypeOK /\ pc[c] = "idle" /\ resets < MaxResets
      /\ \A u \in Unit : ledger[u] # NoRow => lock[u] = Nobody
      /\ lock' = [u \in Unit |-> IF ledger[u] # NoRow THEN c ELSE lock[u]]
      /\ resets' = resets + 1
      /\ pc' = [pc EXCEPT ![c] = "reset"]
      /\ UNCHANGED <<events, ledger, mark, unit, fetched, ahead, base, seen, settled>>
  BY DEF IInv, ResetUnits, Goto, tables, page
<1>2. TypeOK'
  <2>1. resets' \in 0..MaxResets
    BY <1>1 DEF TypeOK
  <2>2. lock' \in [Unit -> Crawler \cup {Nobody}]
    BY <1>1 DEF TypeOK
  <2>3. pc' \in [Crawler -> Place]
    BY <1>1 DEF TypeOK, Place
  <2>4. QED
    BY <1>1, <2>1, <2>2, <2>3 DEF TypeOK, Place
<1>3. ASSUME NEW d \in Crawler \ {c} PROVE Kept(d)
  <2>1. pc'[d] = pc[d] /\ unit'[d] = unit[d] /\ fetched'[d] = fetched[d] /\ base'[d] = base[d]
    BY <1>1 DEF TypeOK
  <2>2. pc[d] = "commit" => lock[unit[d]] = d
    BY DEF IInv, PageInv
  <2>3. unit[d] \in Unit
    BY <1>1 DEF TypeOK
  <2>4. lock[unit[d]] = d => lock'[unit[d]] = d
    BY <1>1, <2>3
  <2>5. QED
    BY <1>1, <2>1, <2>2, <2>4 DEF Kept
<1>4. pc'[c] = "reset"
  BY <1>1 DEF TypeOK
<1>5. PageInv(c)'
  BY <1>4 DEF PageInv
<1>6. Settles(c)
  BY <1>1 DEF Settles, Ingesting
<1>7. OthersKept(c)
  BY <1>3 DEF OthersKept
<1>8. QED
  BY <1>1, <1>2, <1>5, <1>6, <1>7, QuietStep

LEMMA ResetMarkInv ==
  ASSUME IInv, NEW c \in Crawler, ResetMark(c)
  PROVE  IInv'
<1>1. /\ TypeOK /\ pc[c] = "reset" /\ Leave(c)
      /\ ledger' = [u \in Unit |-> IF lock[u] = c THEN NoRow ELSE ledger[u]]
      /\ mark' = 0
      /\ UNCHANGED <<events, resets, settled>>
  BY DEF IInv, ResetMark
<1>2. /\ ledger' \in [Unit -> Row \cup {NoRow}]
      /\ \A u \in Unit : ledger'[u] \in {ledger[u], NoRow}
      /\ \A u \in Unit : lock[u] # c => ledger'[u] = ledger[u]
  BY <1>1 DEF TypeOK
<1>3. mark' \in 0..Units /\ \A u \in 1..mark' : Stored(u)
  BY <1>1
<1>4. Settles(c)
  BY <1>1 DEF Settles, Ingesting
<1>5. resets' \in 0..MaxResets /\ settled' \in SUBSET Unit
  BY <1>1 DEF TypeOK
<1>6. QED
  BY <1>1, <1>2, <1>3, <1>4, <1>5, LeaveInv

-----------------------------------------------------------------------------
(* Every step. *)

LEMMA CrawlInv ==
  ASSUME IInv, NEW c \in Crawler, Crawl(c)
  PROVE  IInv'
<1>1. CASE CheckKnown(c) \/ CheckNews(c)
  BY <1>1, CheckKnownInv, CheckNewsInv
<1>2. CASE LookupKnown(c) \/ LookupNews(c) \/ Touch(c)
  BY <1>2, LookupKnownInv, LookupNewsInv, TouchInv
<1>3. CASE Flush(c) \/ Commit(c)
  BY <1>3, FlushInv, CommitIInv
<1>4. CASE FlushFails(c) \/ Fail(c)
  <2>1. GiveUp(c)
    BY <1>4 DEF FlushFails, Fail
  <2>2. QED
    BY <2>1, GiveUpInv
<1>5. CASE Resend(c) \/ WriteFacts(c)
  BY <1>5, ResendInv, WriteFactsInv
<1>6. CASE Reread(c) \/ SetMarkFails(c)
  BY <1>6, RereadInv
<1>7. CASE GetMark(c) \/ SetMark(c)
  BY <1>7, GetMarkInv, SetMarkInv
<1>8. CASE ResetUnits(c) \/ ResetMark(c)
  BY <1>8, ResetUnitsInv, ResetMarkInv
<1>9. QED
  BY <1>1, <1>2, <1>3, <1>4, <1>5, <1>6, <1>7, <1>8 DEF Crawl

LEMMA StutterInv ==
  ASSUME IInv, UNCHANGED vars
  PROVE  IInv'
<1>1. UNCHANGED <<events, ledger, mark, lock, resets, pc, unit, fetched, ahead, base, seen, settled>>
  BY DEF vars, tables, page
<1>2. TypeOK' /\ NamesLastEvent' /\ Copies' = Copies
  BY <1>1 DEF IInv, TypeOK, NamesLastEvent, Copies
<1>3. CursorLeavesNoGap'
  BY <1>1, <1>2 DEF IInv, CursorLeavesNoGap
<1>4. StoredIsCovered'
  BY <1>1, <1>2 DEF IInv, StoredIsCovered, Covered, Ingesting
<1>5. \A u \in Unit : RowInv(u)'
  BY <1>1, <1>2 DEF IInv, RowInv
<1>6. ASSUME NEW d \in Crawler PROVE PageInv(d)'
  <2>1. Kept(d)
    BY <1>1 DEF IInv, PageInv, Kept
  <2>2. QED
    BY <1>2, <2>1, KeptPage
<1>7. QED
  BY <1>2, <1>3, <1>4, <1>5, <1>6 DEF IInv

LEMMA NextInv == IInv /\ [Next]_vars => IInv'
<1> SUFFICES ASSUME IInv, [Next]_vars PROVE IInv'
  OBVIOUS
<1>1. ASSUME NEW c \in Crawler, NEW u \in Unit, NEW v \in Version, Open(c, u, v) PROVE IInv'
  BY <1>1, OpenInv
<1>2. ASSUME NEW c \in Crawler, Crawl(c) PROVE IInv'
  BY <1>2, CrawlInv
<1>3. CASE UNCHANGED vars
  BY <1>3, StutterInv
<1>4. QED
  BY <1>1, <1>2, <1>3 DEF Next

LEMMA Invariance == Spec => []IInv
<1>1. QED
  BY InitInv, NextInv, PTL DEF Spec

-----------------------------------------------------------------------------
(* The theorems. *)

\* Ledger, cursor and pages stay what their types say.
THEOREM TypeCorrect == Spec => []TypeOK
<1>1. IInv => TypeOK
  BY DEF IInv
<1>2. QED
  BY <1>1, Invariance, PTL

\* The cursor has passed nothing that is not stored, whatever crawlers, errors, lost answers
\* and resets do to it.
THEOREM NoGapBehindCursor == Spec => []CursorLeavesNoGap
<1>1. IInv => CursorLeavesNoGap
  BY DEF IInv
<1>2. QED
  BY <1>1, Invariance, PTL

\* A ledger row names the last event of its unit.
THEOREM RowsNameTheLastEvent == Spec => []NamesLastEvent
<1>1. IInv => NamesLastEvent
  BY DEF IInv
<1>2. QED
  BY <1>1, Invariance, PTL

\* The cursor passes a unit only once its facts are written, unless a crawler is at it or one
\* gave it up.
THEOREM CursorPassesWrittenUnits == Spec => []CursorMeansWrittenUnlessCut
<1>1. ASSUME IInv PROVE CursorMeansWrittenUnlessCut
  <2>1. SUFFICES ASSUME NEW u \in 1..mark
                 PROVE  u \in settled \cup {unit[c] : c \in {d \in Crawler : Ingesting(d)}}
    BY DEF CursorMeansWrittenUnlessCut
  <2>2. PICK s \in Copies : s.unit = u
    BY <1>1 DEF IInv, CursorLeavesNoGap
  <2>3. Covered(u)
    BY <1>1, <2>2 DEF IInv, StoredIsCovered
  <2>4. QED
    BY <2>3 DEF Covered
<1>2. QED
  BY <1>1, Invariance, PTL

\* A crawler is told to skip only what has been stored, with one hash or both.
THEOREM SkippedUnitsAreStored == Spec => SkippedIsStored
<1>1. ASSUME IInv, NEW c \in Crawler, CheckKnown(c) \/ Touch(c)
      PROVE  Copy(c) \in Copies
  <2>1. CASE CheckKnown(c)
    BY <1>1, <2>1, CheckKnownStored
  <2>2. CASE Touch(c)
    BY <1>1, <2>2 DEF IInv, PageInv, Touch
  <2>3. QED
    BY <1>1, <2>1, <2>2
<1>2. IInv /\ [Next]_vars
        => [\A c \in Crawler : CheckKnown(c) \/ Touch(c) => Copy(c) \in Copies]_vars
  BY <1>1
<1>3. QED
  BY <1>2, Invariance, PTL DEF Spec, SkippedIsStored
=============================================================================
