------------------------------ MODULE Directory ------------------------------
(***************************************************************************)
(* The global directory: people, the accounts they have in other systems,  *)
(* and the members of a team.  upsert_person finds or creates a person and *)
(* puts accounts; delete_identity frees an account; set_team_members and   *)
(* upsert_team replace the member list, by a DELETE and an INSERT for each *)
(* member.                                                                 *)
(*                                                                         *)
(* One team: teams share nothing.  Each call is one transaction at READ    *)
(* COMMITTED, and a step is what happens between two statements that reach *)
(* the database.  What a call has written is its own until it commits; who *)
(* needs the same row or key waits until then.                             *)
(***************************************************************************)
EXTENDS Naturals

CONSTANTS Caller,   \* agents and REST clients; each has one call in flight
          Person,   \* person keys
          Account,  \* accounts: a system and a handle
          NoOwner,  \* the owner of an account that has no row
          None      \* no person, no account

ASSUME NoneAssumption == NoOwner \notin Person /\ None \notin Person \cup Account

VARIABLES
  people,   \* g_people
  owner,    \* g_identities: the person of each account
  team,     \* the team has a row in g_teams
  members,  \* g_team_members of the team
  pc,       \* where a caller is
  call,     \* the arguments of its call, what is left to do, and what it has written
  last,     \* the list of the last replacement to commit
  mixed     \* whether that one overlapped another, one of them by set_team_members

tables == <<people, owner, team, members>>
vars == <<tables, pc, call, last, mixed>>

\* person, accounts and list are arguments; todo and left are what is still to be done of
\* them.  new: the row of the person or team is inserted; next: an account found to be free;
\* claims and kept: the accounts it has inserted and those it found to be the person's; lost:
\* accounts deleted since it read them.  alone: the team is put without a member list; row: it
\* has the team's row; target, deleted, inserted: the members its DELETE has seen, has
\* deleted, and those inserted; overlap: it met another.
Call == [person : Person \cup {None}, new : BOOLEAN, todo : SUBSET Account,
         next : Account \cup {None}, claims : SUBSET Account, kept : SUBSET Account,
         lost : SUBSET Account,
         alone : BOOLEAN, list : SUBSET Person, left : SUBSET Person, row : BOOLEAN,
         target : SUBSET Person, deleted : SUBSET Person,
         inserted : SUBSET Person, overlap : BOOLEAN]

NoCall == [person |-> None, new |-> FALSE, todo |-> {}, next |-> None, claims |-> {},
           kept |-> {}, lost |-> {}, alone |-> FALSE, list |-> {}, left |-> {}, row |-> FALSE,
           target |-> {}, deleted |-> {}, inserted |-> {}, overlap |-> FALSE]

TypeOK ==
  /\ people \subseteq Person
  /\ owner \in [Account -> people \cup {NoOwner}]
  /\ team \in BOOLEAN
  /\ members \subseteq people
  /\ pc \in [Caller -> {"idle", "person", "accounts", "team", "delete", "deleting", "members"}]
  /\ call \in [Caller -> Call]
  /\ last \subseteq Person
  /\ mixed \in BOOLEAN

Init ==
  /\ people = {}
  /\ owner = [a \in Account |-> NoOwner]
  /\ team = FALSE
  /\ members = {}
  /\ pc = [c \in Caller |-> "idle"]
  /\ call = [c \in Caller |-> NoCall]
  /\ last = {}
  /\ mixed = FALSE

Goto(c, l) == pc' = [pc EXCEPT ![c] = l]
Start(c, r, l) == pc[c] = "idle" /\ call' = [call EXCEPT ![c] = r] /\ Goto(c, l)
Leave(c) == Goto(c, "idle")

\* The call is refused, or fails, and is rolled back.
Drop(c) ==
  /\ Leave(c)
  /\ call' = [call EXCEPT ![c] = NoCall]
  /\ UNCHANGED <<tables, last, mixed>>

Others(c) == Caller \ {c}

-----------------------------------------------------------------------------
(* People and accounts. *)

\* upsert_person, with its SELECT.
UpsertPerson(c, p, accounts) ==
  /\ Start(c, [NoCall EXCEPT !.person = p, !.new = p \notin people, !.todo = accounts], "person")
  /\ UNCHANGED <<tables, last, mixed>>

\* The INSERT, if g_people has not got the key meanwhile, or the UPDATE of the person.
FlushPerson(c) ==
  /\ pc[c] = "person"
  /\ call[c].new => call[c].person \notin people
  /\ ~\E d \in Others(c) : pc[d] = "accounts" /\ call[d].row /\ call[d].person = call[c].person
  /\ call' = [call EXCEPT ![c].row = TRUE]
  /\ Goto(c, "accounts")
  /\ UNCHANGED <<tables, last, mixed>>

\* upsert_identity, for a person that exists.
UpsertIdentity(c, p, a) ==
  /\ p \in people
  /\ Start(c, [NoCall EXCEPT !.person = p, !.todo = {a}], "accounts")
  /\ UNCHANGED <<tables, last, mixed>>

\* Mutant: an account that has a row is left alone, whoever has it.
FindAnyIdentity(c, a) ==
  /\ pc[c] = "accounts" /\ call[c].next = None /\ a \in call[c].todo
  /\ call' = [call EXCEPT
       ![c].todo = @ \ {a},
       ![c].next = IF owner[a] = NoOwner THEN a ELSE None,
       ![c].kept = IF owner[a] = NoOwner THEN @ ELSE @ \cup {a}]
  /\ UNCHANGED <<tables, pc, last, mixed>>

\* _put_identity reads the row of an account, which nobody has or the person has.
FindIdentity(c, a) ==
  /\ pc[c] = "accounts" /\ call[c].next = None /\ a \in call[c].todo
  /\ owner[a] \in {NoOwner, call[c].person}
  /\ call' = [call EXCEPT
       ![c].todo = @ \ {a},
       ![c].next = IF owner[a] = NoOwner THEN a ELSE None,
       ![c].kept = IF owner[a] = NoOwner THEN @ ELSE @ \cup {a}]
  /\ UNCHANGED <<tables, pc, last, mixed>>

\* "already belongs to another person".
RefuseIdentity(c, a) ==
  /\ pc[c] = "accounts" /\ call[c].next = None /\ a \in call[c].todo
  /\ owner[a] \notin {NoOwner, call[c].person}
  /\ Drop(c)

\* The INSERT of a free account, before the next statement, unless it is not free any more.
InsertIdentity(c) ==
  /\ pc[c] = "accounts" /\ call[c].next # None
  /\ owner[call[c].next] = NoOwner
  /\ ~\E d \in Others(c) : pc[d] = "accounts" /\ call[c].next \in call[d].claims
  /\ call' = [call EXCEPT ![c].next = None, ![c].claims = @ \cup {call[c].next}]
  /\ UNCHANGED <<tables, pc, last, mixed>>

CommitPerson(c) ==
  /\ pc[c] = "accounts" /\ call[c].next = None /\ call[c].todo = {}
  /\ people' = people \cup {call[c].person}
  /\ owner' = [a \in Account |-> IF a \in call[c].claims THEN call[c].person ELSE owner[a]]
  /\ Leave(c)
  /\ call' = [call EXCEPT ![c] = NoCall]
  /\ UNCHANGED <<team, members, last, mixed>>

\* delete_identity: one statement, and its commit.
DeleteIdentity(a) ==
  /\ owner[a] # NoOwner
  /\ owner' = [owner EXCEPT ![a] = NoOwner]
  /\ call' = [d \in Caller |-> [call[d] EXCEPT !.lost = IF a \in call[d].kept THEN @ \cup {a} ELSE @]]
  /\ UNCHANGED <<people, team, members, pc, last, mixed>>

-----------------------------------------------------------------------------
(* The members of the team. *)

\* set_team_members, of a team that exists.
SetTeamMembers(c, list) ==
  /\ team
  /\ Start(c, [NoCall EXCEPT !.list = list, !.left = list], "delete")
  /\ UNCHANGED <<tables, last, mixed>>

\* upsert_team, with its SELECT.
UpsertTeam(c, r) ==
  /\ Start(c, [r EXCEPT !.new = ~team], "team")
  /\ UNCHANGED <<tables, last, mixed>>

UpsertTeamMembers(c, list) == UpsertTeam(c, [NoCall EXCEPT !.list = list, !.left = list])
UpsertTeamAlone(c) == UpsertTeam(c, [NoCall EXCEPT !.alone = TRUE])

HasTeam(d) == pc[d] \in {"delete", "deleting", "members"} /\ call[d].row

\* Mutant: the team's row is not written.
FlushNoTeam(c) ==
  /\ pc[c] = "team"
  /\ call' = [call EXCEPT ![c].row = TRUE]
  /\ Goto(c, "delete")
  /\ UNCHANGED <<tables, last, mixed>>

\* The INSERT of the team, if there is still none, or its UPDATE: the call has the row then;
\* set_team_members does without.
FlushTeam(c) ==
  /\ pc[c] = "team"
  /\ call[c].new => ~team
  /\ ~\E d \in Others(c) : HasTeam(d)
  /\ call' = [call EXCEPT ![c].row = TRUE]
  /\ Goto(c, "delete")
  /\ UNCHANGED <<tables, last, mixed>>

CommitTeam(c) ==
  /\ pc[c] = "delete" /\ call[c].alone
  /\ team' = TRUE
  /\ Leave(c)
  /\ call' = [call EXCEPT ![c] = NoCall]
  /\ UNCHANGED <<people, owner, members, last, mixed>>

\* Replacements under way that share the list with that of c, not kept apart by the team's row.
Met(c) == {d \in Others(c) : pc[d] \in {"deleting", "members"} /\ ~(call[c].row /\ call[d].row)}

\* _replace_members: the DELETE looks for the rows there are.
SeeMembers(c) ==
  /\ pc[c] = "delete" /\ ~call[c].alone
  /\ call' = [d \in Caller |->
       IF d = c THEN [call[c] EXCEPT !.target = members, !.overlap = Met(c) # {}]
       ELSE [call[d] EXCEPT !.overlap = @ \/ d \in Met(c)]]
  /\ Goto(c, "deleting")
  /\ UNCHANGED <<tables, last, mixed>>

\* It waits for those that others have deleted, and deletes what is left of them.
DeleteMembers(c) ==
  /\ pc[c] = "deleting"
  /\ \A d \in Others(c) : pc[d] = "members" => call[d].deleted \cap call[c].target = {}
  /\ call' = [call EXCEPT ![c].deleted = call[c].target, ![c].target = {}]
  /\ Goto(c, "members")
  /\ UNCHANGED <<tables, last, mixed>>

\* Nobody else has put or deleted this member's row.
OwnMember(c, p) ==
  \A d \in Others(c) : pc[d] = "members" => p \notin call[d].deleted \cup call[d].inserted

\* Mutant: the person is not looked up.
InsertAnyMember(c, p) ==
  /\ pc[c] = "members" /\ p \in call[c].left
  /\ OwnMember(c, p)
  /\ p \notin members \ call[c].deleted
  /\ call' = [call EXCEPT ![c].inserted = @ \cup {p}, ![c].left = @ \ {p}]
  /\ UNCHANGED <<tables, pc, last, mixed>>

\* The INSERT of a member that exists, unless the primary key is taken.
InsertMember(c, p) ==
  /\ pc[c] = "members" /\ p \in call[c].left
  /\ p \in people
  /\ OwnMember(c, p)
  /\ p \notin members \ call[c].deleted
  /\ call' = [call EXCEPT ![c].inserted = @ \cup {p}, ![c].left = @ \ {p}]
  /\ UNCHANGED <<tables, pc, last, mixed>>

\* The rows it deleted are gone for the DELETEs that wait, though it may have put new ones.
CommitMembers(c) ==
  /\ pc[c] = "members" /\ call[c].left = {}
  /\ team' = TRUE
  /\ members' = (members \ call[c].deleted) \cup call[c].inserted
  /\ call' = [d \in Caller |-> IF d = c THEN NoCall
                               ELSE [call[d] EXCEPT !.target = @ \ call[c].deleted]]
  /\ last' = call[c].list
  /\ mixed' = call[c].overlap
  /\ Leave(c)
  /\ UNCHANGED <<people, owner>>

-----------------------------------------------------------------------------
\* A key that is taken, a member that does not exist, a deadlock, or any other error.
Fail(c) == pc[c] # "idle" /\ Drop(c)

Next ==
  \/ \E a \in Account : DeleteIdentity(a)
  \/ \E c \in Caller :
       \/ \E p \in Person, accounts \in SUBSET Account : UpsertPerson(c, p, accounts)
       \/ \E p \in Person, a \in Account : UpsertIdentity(c, p, a)
       \/ FlushPerson(c) \/ InsertIdentity(c) \/ CommitPerson(c)
       \/ \E a \in Account : FindIdentity(c, a) \/ RefuseIdentity(c, a)
       \/ \E list \in SUBSET Person : SetTeamMembers(c, list) \/ UpsertTeamMembers(c, list)
       \/ UpsertTeamAlone(c) \/ FlushTeam(c) \/ CommitTeam(c)
       \/ SeeMembers(c) \/ DeleteMembers(c) \/ CommitMembers(c)
       \/ \E p \in Person : InsertMember(c, p)
       \/ Fail(c)

Spec == Init /\ [][Next]_vars

-----------------------------------------------------------------------------
(* Properties. *)

\* An account that a call has been told is saved belongs to that person when it commits,
\* unless it was deleted since the call read it: also one that the call found to be the
\* person's already, while others claim it.
SavedIsOwned ==
  [][\A c \in Caller : CommitPerson(c) =>
       \A a \in (call[c].claims \cup call[c].kept) \ call[c].lost :
         owner'[a] = call[c].person]_vars

\* The members are those of the last replacement, unless that one overlapped another and one
\* of the two was a set_team_members, which does not take the team's row.
LastListUnlessMixed == ~mixed => members = last

-----------------------------------------------------------------------------
(* The inductive invariant. *)

\* A call that puts a person has one, and no accounts before its statement on the person.
PersonInv(c) ==
  /\ pc[c] \in {"person", "accounts"} => call[c].person \in Person
  /\ pc[c] = "person" => call[c].claims = {} /\ call[c].kept = {}

\* An account that is claimed is nobody's, and one that was found to be the person's is.
AccountInv(c) ==
  pc[c] = "accounts" =>
    /\ \A a \in call[c].claims : owner[a] = NoOwner
    /\ \A a \in call[c].kept \ call[c].lost : owner[a] = call[c].person

\* The new list is what is inserted and what is left to insert; only people are inserted.
ListInv(c) ==
  /\ call[c].inserted \cup call[c].left = call[c].list
  /\ call[c].inserted \subseteq people

\* A replacement that met no other has the whole old list to delete, then has deleted it.
OldListInv(c) ==
  ~call[c].overlap =>
    /\ pc[c] = "deleting" => call[c].target = members
    /\ pc[c] = "members" => call[c].deleted = members

CallerInv(c) == PersonInv(c) /\ AccountInv(c) /\ ListInv(c) /\ OldListInv(c)

Replacing(c) == pc[c] \in {"deleting", "members"}

\* Two calls claim different accounts, do not both have the team's row, and know of each other
\* when they replace its members at once.
PairInv(c, d) ==
  c # d =>
    /\ pc[c] = "accounts" /\ pc[d] = "accounts" => call[c].claims \cap call[d].claims = {}
    /\ ~(HasTeam(c) /\ HasTeam(d))
    /\ Replacing(c) /\ Replacing(d) => call[c].overlap

IInv ==
  /\ TypeOK
  /\ LastListUnlessMixed
  /\ \A c \in Caller : CallerInv(c)
  /\ \A c, d \in Caller : PairInv(c, d)
=============================================================================
