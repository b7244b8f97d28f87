------------------------------- MODULE Listing -------------------------------
(***************************************************************************)
(* Lists that are read page by page while calls of others change them.     *)
(* Every list of the service is ORDER BY ... OFFSET ... LIMIT, one         *)
(* statement for each page, and nothing is kept between two pages but the  *)
(* offset the agent asks for next.  The lists differ in what may happen to *)
(* their rows:                                                             *)
(*   history  the revisions of a fact, newest first: rows only come, and   *)
(*            only at the front                                            *)
(*   keys     namespaces, people, global notes, by key: rows come          *)
(*            anywhere, and leave when the call asked for a query that a   *)
(*            row matches no more, as its name or title has changed        *)
(*   index    the facts of a namespace, the last written first: a fact     *)
(*            that is written moves towards the front, and leaves the list *)
(*            when the call asked for one status and it gets another       *)
(*   notes    notes, policies and active sources: rows come, move with     *)
(*            their priority, are deleted, demoted or switched off         *)
(* get_overview shows the first policies and counts them in a statement of *)
(* its own, to hint at the rest.                                           *)
(***************************************************************************)
EXTENDS Integers, Sequences, FiniteSets, SequencesExt

CONSTANTS Row,       \* rows that may be in the list
          Asked,     \* the limits agents ask for
          Unsaid,    \* no limit asked for
          Default,   \* default_limit
          Cap        \* max_list_limit

ASSUME AskedAssumption == Asked \subseteq Int /\ Unsaid \notin Int
ASSUME LimitAssumption == Default \in Nat \ {0} /\ Cap \in Nat \ {0}

VARIABLES
  kind,    \* which of the lists it is
  list,    \* its rows in their order
  pc,      \* where the reader is
  limit,   \* the limit the reader asked for
  offset,  \* the offset it asks for next
  seen,    \* the rows it has been given
  hint,    \* the overview told it that there are more policies
  stayed,  \* the rows that have been where they are, but for rows that came or left, since
           \* the reader began
  left     \* a row that the reader counts on has left: the part of the list it had passed, or
           \* what its overview had shown

reader == <<pc, limit, offset, seen, hint>>
vars == <<kind, list, reader, stayed, left>>

Kind == {"history", "keys", "index", "notes"}

TypeOK ==
  /\ kind \in Kind
  /\ list \in Seq(Row)
  /\ pc \in {"idle", "page", "count", "read", "told"}
  /\ limit \in Asked \cup {Unsaid}
  /\ offset \in Nat
  /\ seen \subseteq Row
  /\ hint \in BOOLEAN
  /\ stayed \subseteq Row
  /\ left \in BOOLEAN

Init ==
  /\ kind \in Kind
  /\ list = <<>>
  /\ pc = "idle"
  /\ limit = Unsaid
  /\ offset = 0
  /\ seen = {}
  /\ hint = FALSE
  /\ stayed = {}
  /\ left = FALSE

Reading == pc \in {"page", "count"}

\* Mutant: limits are not brought up to one.
list_limit_of_zero(n) == IF n = Unsaid THEN Default ELSE IF n > Cap THEN Cap ELSE n

\* The page size of a call, and the "limit" of its answer.
list_limit(n) ==
  IF n = Unsaid THEN Default
  ELSE IF n > Cap THEN Cap
  ELSE IF n < 1 THEN 1 ELSE n

\* The rows of the page at an offset.
Page(skip, size) == {list[n] : n \in {m \in DOMAIN list : skip < m /\ m <= skip + size}}

-----------------------------------------------------------------------------
(* What others do to the list. *)

New(r) == r \notin Range(list)

\* get_fact_history: the newest revision is the first.
AddRevision(r) ==
  /\ kind = "history" /\ New(r)
  /\ list' = <<r>> \o list
  /\ UNCHANGED <<kind, reader, stayed, left>>

\* A list in the order of a key takes a new row anywhere, and so does one in the order of
\* priority; a fact is written at a time, but a call that commits late puts it behind others.
AddRow(r, i) ==
  /\ kind # "history" /\ New(r)
  /\ list' = InsertAt(list, i, r)
  /\ UNCHANGED <<kind, reader, stayed, left>>

\* The reader of pages has passed this place of the list.
Passed(i) == pc = "page" /\ i <= offset

\* A row that leaves here is one that the reader counts on: in the part it has passed, or
\* shown by its overview.
CountedOn(i) == Passed(i) \/ (pc = "count" /\ list[i] \in seen)

\* Mutant: a row that is gone still takes its place.
LeaveHole(i) ==
  /\ kind # "history"
  /\ i \in DOMAIN list
  /\ list' = [list EXCEPT ![i] = Unsaid]
  /\ stayed' = stayed \ {list[i]}
  /\ left' = (left \/ CountedOn(i))
  /\ UNCHANGED <<kind, reader>>

\* delete_note, a policy made a note, a source switched off, a fact with another status, a
\* person, note or namespace that the reader's query does not match any more.
Leave(i) ==
  /\ kind # "history"
  /\ i \in DOMAIN list
  /\ list' = RemoveAt(list, i)
  /\ stayed' = stayed \ {list[i]}
  /\ left' = (left \/ CountedOn(i))
  /\ UNCHANGED <<kind, reader>>

\* The row at i moves to j.
Move(i, j) ==
  /\ i \in DOMAIN list /\ j \in DOMAIN list /\ i # j
  /\ list' = InsertAt(RemoveAt(list, i), j, list[i])
  /\ stayed' = stayed \ {list[i]}
  /\ left' = (left \/ (Passed(i) /\ ~Passed(j)))
  /\ UNCHANGED <<kind, reader>>

\* list_fact_index: updated_at of a fact that is written only grows.
WriteFact(i, j) == kind = "index" /\ j < i /\ Move(i, j)

\* list_notes: a note gets another priority.
Reprioritise(i, j) == kind = "notes" /\ Move(i, j)

-----------------------------------------------------------------------------
(* The reader. *)

Begin(n, label) ==
  /\ ~Reading
  /\ pc' = label
  /\ limit' = n
  /\ hint' = FALSE
  /\ left' = FALSE

\* The agent starts to read the list, with the limit it will ask for.
Open(n) ==
  /\ Begin(n, "page")
  /\ offset' = 0 /\ seen' = {}
  /\ stayed' = Range(list)
  /\ UNCHANGED <<kind, list>>

\* Mutant: the answer's limit is the one that was asked for.
NextPageAsAsked ==
  /\ pc = "page"
  /\ LET size == list_limit(limit)
     IN /\ seen' = seen \cup Page(offset, size)
        /\ offset' = offset + IF limit = Unsaid \/ limit < 1 THEN size ELSE limit
        /\ pc' = IF offset + size > Len(list) THEN "read" ELSE "page"
  /\ UNCHANGED <<kind, list, limit, hint, stayed, left>>

\* One call: the rows at the offset.  The agent adds the limit of the answer to the offset,
\* until a page is not full.
NextPage ==
  /\ pc = "page"
  /\ LET size == list_limit(limit)
     IN /\ seen' = seen \cup Page(offset, size)
        /\ offset' = offset + size
        /\ pc' = IF offset + size > Len(list) THEN "read" ELSE "page"
  /\ UNCHANGED <<kind, list, limit, hint, stayed, left>>

\* get_overview: the policies, with the default limit.
ShowPolicies ==
  /\ kind = "notes"
  /\ Begin(Unsaid, "count")
  /\ seen' = Page(0, list_limit(Unsaid))
  /\ offset' = list_limit(Unsaid)
  /\ stayed' = Range(list)
  /\ UNCHANGED <<kind, list>>

\* Mutant: the count of what is shown stands for the count of the policies.
CountShown ==
  /\ pc = "count"
  /\ hint' = (Cardinality(seen) > list_limit(limit))
  /\ pc' = "told"
  /\ UNCHANGED <<kind, list, limit, offset, seen, stayed, left>>

\* Its count, in a later statement, and the hint that is made of both.
CountPolicies ==
  /\ pc = "count"
  /\ hint' = (Len(list) > Cardinality(seen))
  /\ pc' = "told"
  /\ UNCHANGED <<kind, list, limit, offset, seen, stayed, left>>

Read == NextPage \/ CountPolicies

Next ==
  \/ \E r \in Row : AddRevision(r) \/ \E i \in 1..(Len(list) + 1) : AddRow(r, i)
  \/ \E i \in DOMAIN list : Leave(i)
  \/ \E i, j \in DOMAIN list : WriteFact(i, j) \/ Reprioritise(i, j)
  \/ \E n \in Asked \cup {Unsaid} : Open(n)
  \/ ShowPolicies \/ Read

\* An agent that reads a list goes on.
Spec == Init /\ [][Next]_vars /\ WF_vars(Read)

-----------------------------------------------------------------------------
(* Properties. *)

\* A reader misses no row that stayed where it was, whatever came meanwhile and whatever
\* limit it asked for, unless a row had left the part it had passed: then the others moved
\* up, past its offset.
SeesWhatStayed ==
  pc = "read" => left \/ stayed \subseteq seen

\* An overview without the hint has shown every policy there is, unless one that it had
\* shown left the list before the count.
HintOrAllShown ==
  [][CountPolicies => left \/ hint' \/ Range(list) \subseteq seen]_vars

\* A reader comes to an end, whatever limit it asked for.
ReadingEnds == Reading ~> ~Reading

-----------------------------------------------------------------------------
(* The inductive invariant. *)

\* While pages are read, a row that stayed has been seen or is still ahead.  What an overview
\* has shown is still there.
PlaceInv ==
  /\ pc = "page" /\ ~left =>
       \A r \in stayed : r \in seen \/ \E n \in DOMAIN list : offset < n /\ list[n] = r
  /\ pc = "count" /\ ~left => seen \subseteq Range(list)
  /\ pc = "count" => IsFiniteSet(seen)

IInv ==
  /\ TypeOK
  /\ PlaceInv
  /\ SeesWhatStayed
=============================================================================
