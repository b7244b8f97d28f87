----------------------------- MODULE PolicyNotes -----------------------------
(***************************************************************************)
(* L1 policies: a note that is_policy binds every agent of its project, so *)
(* adding, changing or removing one is the user's call.  The MCP tool asks *)
(* the user in a dialog, from a plan made in one transaction, and saves in *)
(* another, where upsert_note plans again and then reads the row a second  *)
(* time to write it.  A person may also save or delete through REST.       *)
(*                                                                         *)
(* One note of one project: the notes of different keys share nothing but  *)
(* the project's row, which the first call that saves something inserts.   *)
(* A text stands for title, content and priority together.  A step is what *)
(* happens between two statements that reach the database.                 *)
(***************************************************************************)
EXTENDS Naturals

CONSTANTS Caller,   \* MCP agents and REST clients; each has one call in flight
          Text,     \* texts a note may have
          NoText,   \* the text of a note that does not exist
          Nobody,   \* the owner of a row lock nobody holds
          MaxRows   \* how often the note may be created

ASSUME NobodyAssumption == Nobody \notin Caller
ASSUME NoTextAssumption == NoText \notin Text
\* The text of a call that is not in flight is any of them.
ASSUME TextAssumption == Text # {}
ASSUME MaxRowsAssumption == MaxRows \in Nat \ {0}

VARIABLES
  project,    \* the row of the project is committed
  maker,      \* the transaction that has inserted it and not ended yet
  note,       \* the committed row of the note, or NoNote
  made,       \* how many rows the note has had: the id of the last one
  lock,       \* the transaction that has written the row
  pc,         \* where a caller's upsert_project_note is
  text,       \* the text it would save
  policy,     \* whether it would save it as a policy
  via,        \* its approved_via: the channel the user approved it through, or "none"
  change,     \* what plan_note told upsert_note
  base,       \* the row upsert_note is about to change, as it read it
  consents,   \* what users have approved, through either channel
  raced       \* two upserts of the note have been between plan and commit at once

call == <<text, policy, via, change, base>>
vars == <<project, maker, note, made, lock, pc, call, consents, raced>>

Channel == {"none", "mcp_elicitation", "rest"}
Note == [id : 0..MaxRows, text : Text \cup {NoText}, policy : BOOLEAN,
         dated : BOOLEAN, via : Channel]
NoNote == [id |-> 0, text |-> NoText, policy |-> FALSE, dated |-> FALSE, via |-> "none"]
Consent == [text : Text, policy : BOOLEAN]
Change == [unchanged : BOOLEAN, needs : BOOLEAN]

TypeOK ==
  /\ project \in BOOLEAN
  /\ maker \in Caller \cup {Nobody}
  /\ note \in Note
  /\ made \in 0..MaxRows
  /\ lock \in Caller \cup {Nobody}
  /\ pc \in [Caller -> {"idle", "dialog", "plan", "project", "create", "find", "flush", "commit"}]
  /\ text \in [Caller -> Text]
  /\ policy \in [Caller -> BOOLEAN]
  /\ via \in [Caller -> Channel]
  /\ change \in [Caller -> Change]
  /\ base \in [Caller -> Note]
  /\ consents \in SUBSET Consent
  /\ raced \in BOOLEAN

NoChange == [unchanged |-> FALSE, needs |-> FALSE]

Init ==
  /\ project = FALSE
  /\ maker = Nobody
  /\ note = NoNote
  /\ made = 0
  /\ lock = Nobody
  /\ pc = [c \in Caller |-> "idle"]
  /\ text = [c \in Caller |-> CHOOSE t \in Text : TRUE]
  /\ policy = [c \in Caller |-> FALSE]
  /\ via = [c \in Caller |-> "none"]
  /\ change = [c \in Caller |-> NoChange]
  /\ base = [c \in Caller |-> NoNote]
  /\ consents = {}
  /\ raced = FALSE

-----------------------------------------------------------------------------
(* What the steps are made of. *)

Exists == note # NoNote

\* plan_note's unchanged, for a request to save t with is_policy p.
Same(t, p) == Exists /\ note.text = t /\ note.policy = p

\* Mutant: adding a policy is not thought of.
NeedsIfPolicy(t, p) == ~Same(t, p) /\ note.policy

\* NoteChange.needs_approval.
NeedsApproval(t, p) == ~Same(t, p) /\ (p \/ note.policy)

\* The end of the call's transaction.
Finish(c) ==
  /\ pc' = [pc EXCEPT ![c] = "idle"]
  /\ text' = [text EXCEPT ![c] = CHOOSE t \in Text : TRUE]
  /\ policy' = [policy EXCEPT ![c] = FALSE]
  /\ via' = [via EXCEPT ![c] = "none"]
  /\ change' = [change EXCEPT ![c] = NoChange]
  /\ base' = [base EXCEPT ![c] = NoNote]
  /\ lock' = IF lock = c THEN Nobody ELSE lock
  /\ maker' = IF maker = c THEN Nobody ELSE maker
  /\ UNCHANGED <<consents, raced>>

\* Nothing is saved: refused, declined, unchanged or failed.
Drop(c) == Finish(c) /\ UNCHANGED <<project, note, made>>

\* A step of a call that writes nothing.
Reads == UNCHANGED <<project, maker, note, made, lock, consents>>

Request(c, t, p, next) ==
  /\ pc[c] = "idle"
  /\ text' = [text EXCEPT ![c] = t]
  /\ policy' = [policy EXCEPT ![c] = p]
  /\ pc' = [pc EXCEPT ![c] = next]
  /\ UNCHANGED <<project, maker, note, made, lock, change, base, raced>>

-----------------------------------------------------------------------------
(* The MCP tool and the REST routes. *)

\* _policy_approval finds that nobody has to be asked.
AskNobody(c, t, p) ==
  /\ ~NeedsApproval(t, p)
  /\ Request(c, t, p, "plan")
  /\ UNCHANGED <<via, consents>>

\* It puts the question to the user; its transaction ends before the user answers.  A
\* client without elicitation is refused: nothing happens.
AskUser(c, t, p) ==
  /\ NeedsApproval(t, p)
  /\ Request(c, t, p, "dialog")
  /\ UNCHANGED <<via, consents>>

\* The user approves the exact text, any time later.
Accept(c) ==
  /\ pc[c] = "dialog"
  /\ pc' = [pc EXCEPT ![c] = "plan"]
  /\ via' = [via EXCEPT ![c] = "mcp_elicitation"]
  /\ consents' = consents \cup {[text |-> text[c], policy |-> policy[c]]}
  /\ UNCHANGED <<project, maker, note, made, lock, text, policy, change, base, raced>>

Decline(c) ==
  /\ pc[c] = "dialog"
  /\ Drop(c)

\* put_note: a person saves the note, which counts as approved by them.
PutNote(c, t, p) ==
  /\ Request(c, t, p, "plan")
  /\ via' = [via EXCEPT ![c] = "rest"]
  /\ consents' = consents \cup {[text |-> t, policy |-> p]}

\* delete_note: a person deletes the note.  The DELETE waits for a transaction that has
\* written the row.
DeleteNote(c) ==
  /\ pc[c] = "idle"
  /\ Exists /\ lock = Nobody
  /\ note' = NoNote
  /\ UNCHANGED <<project, maker, made, lock, pc, call, consents, raced>>

-----------------------------------------------------------------------------
(* upsert_note. *)

\* Where a call is once it has planned.
Planned == {"project", "create", "find", "flush", "commit"}

\* Its own plan_note, on the note as it is by now.  A project that it finds is there for
\* good, so get_or_create_project finds it again.
PlanNote(c) ==
  /\ pc[c] = "plan"
  /\ change' = [change EXCEPT ![c] = [unchanged |-> Same(text[c], policy[c]),
                                      needs     |-> NeedsApproval(text[c], policy[c])]]
  /\ pc' = [pc EXCEPT ![c] = IF project THEN "find" ELSE "project"]
  /\ raced' = (raced \/ \E d \in Caller : pc[d] \in Planned)
  /\ Reads /\ UNCHANGED <<text, policy, via, base>>

\* get_or_create_project: the SELECT.
FindProject(c) ==
  /\ pc[c] = "project"
  /\ pc' = [pc EXCEPT ![c] = IF project THEN "find" ELSE "create"]
  /\ Reads /\ UNCHANGED <<call, raced>>

\* Mutant: the INSERT does nothing when another call has inserted the project.
InsertIfFree(c) ==
  /\ pc[c] = "create" /\ ~project
  /\ maker' = IF maker = Nobody THEN c ELSE maker
  /\ pc' = [pc EXCEPT ![c] = "find"]
  /\ UNCHANGED <<project, note, made, lock, call, consents, raced>>

\* Mutant: the project is committed by itself.
InsertAtOnce(c) ==
  /\ pc[c] = "create" /\ ~project
  /\ maker = Nobody
  /\ project' = TRUE
  /\ pc' = [pc EXCEPT ![c] = "find"]
  /\ UNCHANGED <<maker, note, made, lock, call, consents, raced>>

\* The INSERT of a project and its first source.  It waits for a transaction that has
\* inserted the project.
InsertProject(c) ==
  /\ pc[c] = "create" /\ ~project
  /\ maker = Nobody
  /\ maker' = c
  /\ pc' = [pc EXCEPT ![c] = "find"]
  /\ UNCHANGED <<project, note, made, lock, call, consents, raced>>

\* Another call has made the project since the SELECT: an error no handler expects.
ProjectTaken(c) ==
  /\ pc[c] = "create" /\ project
  /\ Drop(c)

\* The second read finds the row that the plan was about, and nothing to do.
Unchanged(c) ==
  /\ pc[c] = "find"
  /\ change[c].unchanged /\ Exists
  /\ Drop(c)

\* PolicyApprovalRequired.
Refuse(c) ==
  /\ pc[c] = "find"
  /\ ~(change[c].unchanged /\ Exists)
  /\ change[c].needs /\ via[c] = "none"
  /\ Drop(c)

\* Mutant: whoever gets here has been asked.
FindAnyNote(c) ==
  /\ pc[c] = "find"
  /\ ~(change[c].unchanged /\ Exists)
  /\ base' = [base EXCEPT ![c] = note]
  /\ pc' = [pc EXCEPT ![c] = "flush"]
  /\ Reads /\ UNCHANGED <<text, policy, via, change, raced>>

\* The row it read second is the one it sets the columns of.
FindNote(c) ==
  /\ pc[c] = "find"
  /\ ~(change[c].unchanged /\ Exists)
  /\ change[c].needs => via[c] # "none"
  /\ base' = [base EXCEPT ![c] = note]
  /\ pc' = [pc EXCEPT ![c] = "flush"]
  /\ Reads /\ UNCHANGED <<text, policy, via, change, raced>>

\* The row as the INSERT, or the UPDATE, leaves it.  An UPDATE has only the columns whose
\* value differs from what upsert_note read, and leaves the others as it finds them;
\* approved_at is the time of the save, which is never the one it read.
Written(c) ==
  LET dated == policy[c]
      channel == IF policy[c] THEN via[c] ELSE "none"
  IN IF base[c] = NoNote
     THEN [id |-> made + 1, text |-> text[c], policy |-> policy[c],
           dated |-> dated, via |-> channel]
     ELSE [id     |-> note.id,
           text   |-> IF text[c] # base[c].text THEN text[c] ELSE note.text,
           policy |-> IF policy[c] # base[c].policy THEN policy[c] ELSE note.policy,
           dated  |-> IF dated \/ base[c].dated THEN dated ELSE note.dated,
           via    |-> IF channel # base[c].via THEN channel ELSE note.via]

\* ck_l1_notes_policy_approved.
Checked(row) == row.policy => row.dated

\* Mutant: the table has no check.
FlushUnchecked(c) ==
  /\ pc[c] = "flush"
  /\ lock = Nobody
  /\ note.id = base[c].id
  /\ base[c] = NoNote => made < MaxRows
  /\ lock' = c
  /\ pc' = [pc EXCEPT ![c] = "commit"]
  /\ UNCHANGED <<project, maker, note, made, call, consents, raced>>

\* The INSERT or UPDATE reaches the database once no other transaction has written the row.
Flush(c) ==
  /\ pc[c] = "flush"
  /\ lock = Nobody
  /\ note.id = base[c].id
  /\ base[c] = NoNote => made < MaxRows
  /\ Checked(Written(c))
  /\ lock' = c
  /\ pc' = [pc EXCEPT ![c] = "commit"]
  /\ UNCHANGED <<project, maker, note, made, call, consents, raced>>

\* uq_l1_notes_project_key, the check, or an UPDATE of a row that has been deleted: errors no
\* handler expects.
FlushFails(c) ==
  /\ pc[c] = "flush"
  /\ lock = Nobody
  /\ note.id # base[c].id \/ ~Checked(Written(c))
  /\ Drop(c)

\* Mutant: a row without its id.
CommitNoId(c) ==
  /\ pc[c] = "commit"
  /\ note' = [text |-> text[c], policy |-> policy[c], dated |-> policy[c], via |-> via[c]]
  /\ UNCHANGED <<project, made>>
  /\ Finish(c)

\* The row, which nobody else could write since, is there for all to see.
Commit(c) ==
  /\ pc[c] = "commit"
  /\ project' = (project \/ maker = c)
  /\ note' = Written(c)
  /\ made' = IF base[c] = NoNote THEN made + 1 ELSE made
  /\ Finish(c)

\* The connection, the process, the client going away.
Fail(c) ==
  /\ pc[c] # "idle"
  /\ Drop(c)

Step(c) ==
  \/ Accept(c) \/ Decline(c) \/ DeleteNote(c) \/ PlanNote(c)
  \/ FindProject(c) \/ InsertProject(c) \/ ProjectTaken(c) \/ Unchanged(c) \/ Refuse(c)
  \/ FindNote(c) \/ Flush(c) \/ FlushFails(c) \/ Commit(c) \/ Fail(c)

Next ==
  \E c \in Caller :
    \/ \E t \in Text, p \in BOOLEAN : AskNobody(c, t, p) \/ AskUser(c, t, p) \/ PutNote(c, t, p)
    \/ Step(c)

Spec == Init /\ [][Next]_vars

-----------------------------------------------------------------------------
(* Properties. *)

\* The same row before and after a step.
SameRow == note' # NoNote /\ note'.id = note.id

\* models/l1.py: every policy has been approved by the user, with this text.
PolicyTextApproved ==
  note.policy => [text |-> note.text, policy |-> TRUE] \in consents

\* Every policy has the time of an approval, also after upserts that overlap have left an
\* approved_at on a note that is no policy, and one of them then takes it away.
PolicyHasDate == note.policy => note.dated

\* As long as no two upserts of a note overlap, the text of a policy is one the user
\* approved as a policy: the user may answer the dialog at any time, about a note that has
\* changed since, and an agent that was told nobody had to be asked may come too late.
TextApprovedUnlessRaced == raced \/ PolicyTextApproved

\* And a policy stops being one, other than by deletion, only as the user approved.
UnbindApprovedUnlessRaced ==
  [][SameRow /\ note.policy /\ ~note'.policy
       => raced \/ [text |-> note'.text, policy |-> FALSE] \in consents]_vars

\* A note that is no policy is made one only by a call that carries an approval, also when
\* upserts overlap and each writes its own columns only.
BindNeedsApproval ==
  [][SameRow /\ ~note.policy /\ note'.policy
       => \E c \in Caller : pc[c] = "commit" /\ via[c] # "none" /\ policy[c]]_vars

\* First calls that race leave one project, and a call goes on only in a project that is
\* committed or its own: never in one that another call may still take back.
WorksInAProject ==
  \A c \in Caller : pc[c] \in {"find", "flush", "commit"} => project \/ maker = c

\* A project that upsert_note makes is made together with the first note that is saved in
\* it: a call that fails or is refused after it has inserted the project leaves none behind.
\* (set_project_overview, which is not modelled, makes a project without a note.)
NoStrayProject == project => made > 0

-----------------------------------------------------------------------------
(* The inductive invariant. *)

\* A row, once there, has a number that was given out.
NumberInv ==
  /\ note.id <= made
  /\ note.id = 0 <=> note = NoNote

\* Until upserts overlap, one call at a time is past its plan.
SoleInv == raced \/ \A c, d \in Caller : pc[c] \in Planned /\ pc[d] \in Planned => c = d

\* The row lock is held from the flush to the end of the transaction.
LockInv(c) == pc[c] = "commit" <=> lock = c

ProjectInv(c) == pc[c] \in {"find", "flush", "commit"} => project \/ maker = c

\* A channel stands for a consent to what the call would save.
ConsentInv(c) ==
  /\ pc[c] \in {"idle", "dialog"} => via[c] = "none"
  /\ via[c] # "none" => [text |-> text[c], policy |-> policy[c]] \in consents

\* A call that would save a policy was told to ask, or that the policy is there.
PlanInv(c) == pc[c] \in Planned /\ policy[c] => change[c].needs \/ change[c].unchanged

\* And that policy had been approved, as long as no upserts overlap; what the plan said
\* holds of the note until the note is deleted.
FreshInv(c) ==
  pc[c] \in Planned /\ ~raced =>
    /\ policy[c] /\ change[c].unchanged => [text |-> text[c], policy |-> TRUE] \in consents
    /\ note.policy /\ ~policy[c] => change[c].needs

\* A call that writes has its approval, and does not change a row its plan found as it should be.
FoundInv(c) ==
  pc[c] \in {"flush", "commit"} =>
    /\ change[c].needs => via[c] # "none"
    /\ change[c].unchanged => base[c] = NoNote
    /\ base[c].id = 0 <=> base[c] = NoNote
    /\ raced \/ note = NoNote \/ note = base[c]

\* Nobody changes the row that a call has written and not committed.
CommitInv(c) ==
  pc[c] = "commit" =>
    /\ note.id = base[c].id
    /\ base[c] = NoNote => made < MaxRows
    /\ Checked(Written(c))

CallerInv(c) ==
  /\ LockInv(c)
  /\ ProjectInv(c)
  /\ ConsentInv(c)
  /\ PlanInv(c)
  /\ FreshInv(c)
  /\ FoundInv(c)
  /\ CommitInv(c)

IInv ==
  /\ TypeOK
  /\ NumberInv
  /\ PolicyHasDate
  /\ TextApprovedUnlessRaced
  /\ NoStrayProject
  /\ SoleInv
  /\ \A c \in Caller : CallerInv(c)
=============================================================================
