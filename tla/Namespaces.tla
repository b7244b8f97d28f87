----------------------------- MODULE Namespaces -----------------------------
(***************************************************************************)
(* L2 namespaces and the fact-key rule.  A namespace owns a key template;  *)
(* write_fact builds the key of a fact from the template and the caller's  *)
(* parts, validates it against all templates, and files the fact under the *)
(* longest namespace it matches.  upsert_namespace may change a template   *)
(* only while no fact is filed under its namespace.                        *)
(*                                                                         *)
(* Names and keys are sequences of the segments between their dots.  A     *)
(* template is what follows the namespace in it: literal segments and      *)
(* slots.  One project; each call is a transaction, and a step is what     *)
(* happens between two statements that reach the database.  A call writes  *)
(* one row, last: a flush and its commit are one step, because others do   *)
(* not see the row before, and who writes the same row waits until then.   *)
(***************************************************************************)
EXTENDS Naturals, Sequences

CONSTANTS Caller,     \* agents; each has one call in flight
          Segment,    \* what may stand between two dots of a key
          Name,       \* the namespaces: sequences of segments
          Slot,       \* the names of slots
          Templates(_), \* the templates a namespace may be given
          Parts,      \* what callers give: functions from some slots to texts
          Slug(_),    \* slugify: from a text to a segment, or to NoSlug
          NoSlug,     \* the slug of a text without a letter or a digit
          NoRow       \* no row for a namespace, no home for a fact

ASSUME SegmentsAssumption ==
  /\ Name \subseteq Seq(Segment)
  /\ \A n \in Name : \A t \in Templates(n) :
       /\ t \in Seq(Segment \cup Slot)
       /\ \E i \in DOMAIN t : t[i] \in Slot   \* parse_template wants one
  /\ \A p \in Parts : \A s \in DOMAIN p : Slug(p[s]) \in Segment \cup {NoSlug}
  /\ Segment \cap (Slot \cup {NoSlug}) = {}
ASSUME NoRowAssumption == /\ NoRow \notin Name
                          /\ \A n \in Name : NoRow \notin Templates(n)

VARIABLES
  template,   \* the committed template of each namespace, or NoRow
  home,       \* the namespace each committed fact is filed under, by fact_key
  pc,         \* where a caller is
  call,       \* what it is doing: the arguments and what it has read
  written,    \* the parts that committed writes were given, and the key they wrote
  overlapped  \* keys that were written while their namespace's template changed

vars == <<template, home, pc, call, written, overlapped>>

-----------------------------------------------------------------------------
(* Keys and templates. *)

\* parts.get(name, ""), slugified.
SlugOf(parts, slot) == IF slot \in DOMAIN parts THEN Slug(parts[slot]) ELSE NoSlug

\* Nothing is missing.
Complete(tail, parts) == \A i \in DOMAIN tail : tail[i] \in Slot => SlugOf(parts, tail[i]) # NoSlug

\* build_key.
BuildKey(name, tail, parts) ==
  name \o [i \in DOMAIN tail |-> IF tail[i] \in Slot THEN SlugOf(parts, tail[i]) ELSE tail[i]]

\* key_matches.
KeyMatches(name, tail, key) ==
  /\ Len(key) = Len(name) + Len(tail)
  /\ \A i \in DOMAIN name : key[i] = name[i]
  /\ \A i \in DOMAIN tail : tail[i] \in Slot \/ tail[i] = key[Len(name) + i]

Tails == UNION {Templates(n) : n \in Name}
KeysOf(n, t) == {BuildKey(n, t, p) : p \in {q \in Parts : Complete(t, q)}}
Key == UNION {UNION {KeysOf(n, t) : t \in Templates(n)} : n \in Name}

\* What a namespace's template says of a key.
Accepts(n, key) == template[n] # NoRow /\ KeyMatches(n, template[n], key)

\* Of the namespaces that accept the key, the longest.
IsHome(n, key) == Accepts(n, key) /\ \A m \in Name : Accepts(m, key) => Len(m) <= Len(n)

-----------------------------------------------------------------------------
NoCall == [name |-> NoRow, tail |-> NoRow, parts |-> NoRow, key |-> NoRow, home |-> NoRow]
Call == [name : Name \cup {NoRow}, tail : Tails \cup {NoRow}, parts : Parts \cup {NoRow},
         key : Key \cup {NoRow}, home : Name \cup {NoRow}]
Write == [name : Name, parts : Parts, key : Key]

TypeOK ==
  /\ template \in [Name -> Tails \cup {NoRow}]
  /\ \A n \in Name : template[n] \in Templates(n) \cup {NoRow}
  /\ home \in [Key -> Name \cup {NoRow}]
  /\ pc \in [Caller -> {"idle", "create", "count", "update", "built", "validate", "find",
                         "insert"}]
  /\ call \in [Caller -> Call]
  /\ written \subseteq Write
  /\ overlapped \subseteq Key

Init ==
  /\ template = [n \in Name |-> NoRow]
  /\ home = [k \in Key |-> NoRow]
  /\ pc = [c \in Caller |-> "idle"]
  /\ call = [c \in Caller |-> NoCall]
  /\ written = {}
  /\ overlapped = {}

Goto(c, l) == pc' = [pc EXCEPT ![c] = l]

\* The end of the transaction and of the call.
Leave(c) == Goto(c, "idle") /\ call' = [call EXCEPT ![c] = NoCall]

\* The call changes nothing: it is refused, or fails and is rolled back.
Drop(c) == Leave(c) /\ UNCHANGED <<template, home, written, overlapped>>

-----------------------------------------------------------------------------
(* upsert_namespace. *)

\* Mutant: templates of one length are taken for the same.
FindSameLength(c, n, t) ==
  /\ pc[c] = "idle"
  /\ template[n] # t
  /\ call' = [call EXCEPT ![c] = [NoCall EXCEPT !.name = n, !.tail = t]]
  /\ Goto(c, IF template[n] = NoRow THEN "create"
             ELSE IF Len(template[n]) = Len(t) THEN "update" ELSE "count")
  /\ UNCHANGED <<template, home, written, overlapped>>

\* Its row is read; an upsert of the template it has changes nothing here.
FindNamespace(c, n, t) ==
  /\ pc[c] = "idle"
  /\ template[n] # t
  /\ call' = [call EXCEPT ![c] = [NoCall EXCEPT !.name = n, !.tail = t]]
  /\ Goto(c, IF template[n] = NoRow THEN "create" ELSE "count")
  /\ UNCHANGED <<template, home, written, overlapped>>

Used(n) == \E k \in Key : home[k] = n

\* Mutant: facts that use the template do not keep it from changing.
CountNothing(c) ==
  /\ pc[c] = "count"
  /\ Goto(c, "update")
  /\ UNCHANGED <<template, home, call, written, overlapped>>

\* No fact is filed under the namespace.
CountFacts(c) ==
  /\ pc[c] = "count"
  /\ ~Used(call[c].name)
  /\ Goto(c, "update")
  /\ UNCHANGED <<template, home, call, written, overlapped>>

RefuseTemplate(c) ==
  /\ pc[c] = "count"
  /\ Used(call[c].name)
  /\ Drop(c)

\* The writes that have a key of this namespace, or have it as the home of their fact.
OpenWrites(n) ==
  {d \in Caller : /\ pc[d] \in {"built", "validate", "find", "insert"}
                  /\ n \in {call[d].name, call[d].home}}

\* The INSERT, unless uq_l2_namespaces_project_ns has the name by now, or the UPDATE; the commit.
PutNamespace(c) ==
  /\ \/ pc[c] = "create" /\ template[call[c].name] = NoRow
     \/ pc[c] = "update"
  /\ template' = [template EXCEPT ![call[c].name] = call[c].tail]
  /\ overlapped' = overlapped \cup {call[d].key : d \in OpenWrites(call[c].name)}
  /\ Leave(c)
  /\ UNCHANGED <<home, written>>

-----------------------------------------------------------------------------
(* write_fact and build_fact_key. *)

\* Mutant: a missing part is not noticed.
BuildIncomplete(c, n, p, l) ==
  /\ pc[c] = "idle"
  /\ template[n] # NoRow
  /\ call' = [call EXCEPT ![c] = [NoCall EXCEPT !.name = n, !.parts = p,
                                               !.key = BuildKey(n, template[n], p)]]
  /\ Goto(c, l)
  /\ UNCHANGED <<template, home, written, overlapped>>

\* get_namespace and build_key, in write_fact or as the tool build_fact_key.
Build(c, n, p, l) ==
  /\ pc[c] = "idle"
  /\ template[n] # NoRow
  /\ Complete(template[n], p)
  /\ call' = [call EXCEPT ![c] = [NoCall EXCEPT !.name = n, !.parts = p,
                                               !.key = BuildKey(n, template[n], p)]]
  /\ Goto(c, l)
  /\ UNCHANGED <<template, home, written, overlapped>>

ResolveKey(c, n, p) == Build(c, n, p, "validate")
BuildFactKey(c, n, p) == Build(c, n, p, "built")

\* write_fact with the fact_key that build_fact_key has answered.
GiveKey(c) ==
  /\ pc[c] = "built"
  /\ Goto(c, "validate")
  /\ UNCHANGED <<template, home, call, written, overlapped>>

\* validate_fact_key, which reads all templates again.
ValidateKey(c) ==
  /\ pc[c] = "validate"
  /\ \E n \in Name : /\ IsHome(n, call[c].key)
                    /\ call' = [call EXCEPT ![c].home = n]
  /\ Goto(c, "find")
  /\ UNCHANGED <<template, home, written, overlapped>>

\* KeyRuleError: no template matches.
RefuseKey(c) ==
  /\ pc[c] = "validate"
  /\ ~\E n \in Name : Accepts(n, call[c].key)
  /\ Drop(c)

Wrote(c) == [name |-> call[c].name, parts |-> call[c].parts, key |-> call[c].key]

\* _lock_fact finds the fact: the write adds a revision, the fact stays where it is filed.
WriteRevision(c) ==
  /\ pc[c] = "find"
  /\ home[call[c].key] # NoRow
  /\ written' = written \cup {Wrote(c)}
  /\ Leave(c)
  /\ UNCHANGED <<template, home, overlapped>>

FindNothing(c) ==
  /\ pc[c] = "find"
  /\ home[call[c].key] = NoRow
  /\ Goto(c, "insert")
  /\ UNCHANGED <<template, home, call, written, overlapped>>

\* Upserts that have counted the facts of the namespace and not committed.
OpenChanges(n) == {d \in Caller : pc[d] = "update" /\ call[d].name = n}

\* The INSERT, unless uq_l3_facts_project_key has the key by now, and the commit.
InsertFact(c) ==
  /\ pc[c] = "insert"
  /\ home[call[c].key] = NoRow
  /\ home' = [home EXCEPT ![call[c].key] = call[c].home]
  /\ written' = written \cup {Wrote(c)}
  /\ overlapped' = IF OpenChanges(call[c].home) = {} THEN overlapped
                   ELSE overlapped \cup {call[c].key}
  /\ Leave(c)
  /\ UNCHANGED template

\* An error, or the end of the agent or of the service; a unique violation is one.
Fail(c) == pc[c] # "idle" /\ Drop(c)

Next ==
  \E c \in Caller :
    \/ \E n \in Name : \/ \E t \in Templates(n) : FindNamespace(c, n, t)
                       \/ \E p \in Parts : ResolveKey(c, n, p) \/ BuildFactKey(c, n, p)
    \/ CountFacts(c) \/ RefuseTemplate(c) \/ PutNamespace(c)
    \/ GiveKey(c) \/ ValidateKey(c) \/ RefuseKey(c)
    \/ WriteRevision(c) \/ FindNothing(c) \/ InsertFact(c) \/ Fail(c)

Spec == Init /\ [][Next]_vars

-----------------------------------------------------------------------------
(* Properties. *)

\* namespace_service.py: every fact key matches the template of the namespace it is filed
\* under, unless the template changed while the fact was being written, which the count of
\* facts cannot see.
KeysMatchUnlessOverlapped ==
  \A k \in Key \ overlapped : home[k] # NoRow => Accepts(home[k], k)

\* SKILL.md: the same parts always land on the same fact, once they have landed on one filed
\* under the namespace they were given for, and with the same exception.
SamePartsOnceFiled ==
  \A v, w \in written :
    /\ v.name = w.name /\ v.parts = w.parts
    /\ \A k \in {v.key, w.key} : k \notin overlapped /\ home[k] = v.name
    => v.key = w.key

\* What makes these two hold in every step: a template that is in use does not change.
FactInv ==
  \A k \in Key : home[k] # NoRow =>
    /\ template[home[k]] # NoRow
    /\ k \in overlapped \/ Accepts(home[k], k)

\* A call's upsert has a row to change, and the facts filed since it counted are overlapped.
ChangeInv(c) ==
  /\ pc[c] \in {"create", "count", "update"} =>
       call[c].name \in Name /\ call[c].tail \in Templates(call[c].name)
  /\ pc[c] = "update" => \A k \in Key : home[k] = call[c].name => k \in overlapped

\* A call's write has a key and a home by the templates of now, or is overlapped.
WriteInv(c) ==
  /\ pc[c] \in {"built", "validate", "find", "insert"} =>
       /\ call[c].name \in Name /\ call[c].parts \in Parts /\ call[c].key \in Key
       /\ \/ call[c].key \in overlapped
          \/ call[c].key = BuildKey(call[c].name, template[call[c].name], call[c].parts)
  /\ pc[c] \in {"find", "insert"} =>
       /\ call[c].home \in Name /\ template[call[c].home] # NoRow
       /\ call[c].key \in overlapped \/ Accepts(call[c].home, call[c].key)

WrittenInv ==
  \A w \in written :
    /\ home[w.key] # NoRow
    /\ \/ w.key \in overlapped
       \/ home[w.key] # w.name
       \/ w.key = BuildKey(w.name, template[w.name], w.parts)

\* The inductive invariant.
IInv ==
  /\ TypeOK /\ FactInv /\ WrittenInv
  /\ \A c \in Caller : ChangeInv(c) /\ WriteInv(c)
=============================================================================
