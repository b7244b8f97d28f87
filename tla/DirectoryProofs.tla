-------------------------- MODULE DirectoryProofs --------------------------
(***************************************************************************)
(* Proofs about Directory, for every set of callers, people and accounts.  *)
(***************************************************************************)
EXTENDS Directory, TLAPS

USE NoneAssumption

Place == {"idle", "person", "accounts", "team", "delete", "deleting", "members"}

LEMMA NoCallIsCall == NoCall \in Call
  BY DEF NoCall, Call

LEMMA InitInv == Init => IInv
<1> SUFFICES ASSUME Init PROVE IInv
  OBVIOUS
<1>1. TypeOK
  BY NoCallIsCall DEF Init, TypeOK
<1>2. LastListUnlessMixed
  BY DEF Init, LastListUnlessMixed
<1>3. ASSUME NEW c \in Caller PROVE CallerInv(c)
  <2>1. pc[c] = "idle" /\ call[c] = NoCall
    BY DEF Init
  <2>2. QED
    BY <2>1 DEF CallerInv, PersonInv, AccountInv, ListInv, OldListInv, NoCall
<1>4. ASSUME NEW c \in Caller, NEW d \in Caller PROVE PairInv(c, d)
  BY DEF Init, PairInv, HasTeam, Replacing
<1>5. QED
  BY <1>1, <1>2, <1>3, <1>4 DEF IInv

-----------------------------------------------------------------------------
(* What a step of one call leaves of the others. *)

KeptCall(d) == pc'[d] = pc[d] /\ call'[d] = call[d]

\* A call is still in order after a step of another one that leaves the accounts it knows of
\* and the members.
LEMMA KeptCaller ==
  ASSUME IInv, NEW d \in Caller, KeptCall(d), people \subseteq people', UNCHANGED <<owner, members>>
  PROVE  CallerInv(d)'
<1>1. CallerInv(d)
  BY DEF IInv
<1>2. PersonInv(d)' /\ AccountInv(d)'
  BY <1>1 DEF CallerInv, PersonInv, AccountInv, KeptCall
<1>3. ListInv(d)' /\ OldListInv(d)'
  BY <1>1 DEF CallerInv, ListInv, OldListInv, KeptCall
<1>4. QED
  BY <1>2, <1>3 DEF CallerInv

LEMMA KeptPair ==
  ASSUME IInv, NEW d \in Caller, NEW e \in Caller, KeptCall(d), KeptCall(e)
  PROVE  PairInv(d, e)'
<1>1. PairInv(d, e)
  BY DEF IInv
<1>2. QED
  BY <1>1 DEF PairInv, KeptCall, HasTeam, Replacing

\* A call that moves on to l, or is over, and takes nothing that another could want too.
Harmless(c) ==
  /\ pc'[c] = "accounts" => \/ call'[c].claims = {}
                            \/ pc[c] = "accounts" /\ call'[c].claims = call[c].claims
  /\ HasTeam(c)' => HasTeam(c)
  /\ Replacing(c)' => Replacing(c) /\ call'[c].overlap = call[c].overlap

LEMMA HarmlessPair ==
  ASSUME IInv, NEW c \in Caller, Harmless(c), NEW d \in Caller \ {c}, KeptCall(d)
  PROVE  PairInv(c, d)' /\ PairInv(d, c)'
<1>1. PairInv(c, d) /\ PairInv(d, c)
  BY DEF IInv
<1>2. HasTeam(d)' <=> HasTeam(d)
  BY DEF KeptCall, HasTeam
<1>3. Replacing(d)' <=> Replacing(d)
  BY DEF KeptCall, Replacing
<1>4. call'[d] = call[d] /\ pc'[d] = pc[d]
  BY DEF KeptCall
<1>5. pc'[c] = "accounts" /\ pc'[d] = "accounts" => call'[c].claims \cap call'[d].claims = {}
  BY <1>1, <1>4 DEF Harmless, PairInv
<1>6. ~(HasTeam(c)' /\ HasTeam(d)')
  BY <1>1, <1>2 DEF Harmless, PairInv
<1>7. Replacing(c)' /\ Replacing(d)' => call'[c].overlap /\ call'[d].overlap
  BY <1>1, <1>3, <1>4 DEF Harmless, PairInv
<1>8. PairInv(c, d)'
  BY <1>5, <1>6, <1>7 DEF PairInv
<1>9. PairInv(d, c)'
  BY <1>5, <1>6, <1>7 DEF PairInv
<1>10. QED
  BY <1>8, <1>9

\* All pairs, from those of the call that moves.
LEMMA AllPairs ==
  ASSUME IInv, NEW c \in Caller, \A d \in Caller \ {c} : KeptCall(d),
         \A d \in Caller \ {c} : PairInv(c, d)' /\ PairInv(d, c)'
  PROVE  \A d, e \in Caller : PairInv(d, e)'
<1> SUFFICES ASSUME NEW d \in Caller, NEW e \in Caller PROVE PairInv(d, e)'
  OBVIOUS
<1>1. CASE d # c /\ e # c
  BY <1>1, KeptPair
<1>2. CASE d = c /\ e # c
  BY <1>2
<1>3. CASE d # c /\ e = c
  BY <1>3
<1>4. CASE d = e
  BY <1>4 DEF PairInv
<1>5. QED
  BY <1>1, <1>2, <1>3, <1>4

\* What a step that leaves people, accounts and members alone has to show: the call it moves is in order.
LEMMA CallStep ==
  ASSUME IInv, NEW c \in Caller, UNCHANGED <<people, owner, members, last, mixed>>,
         team' \in {team, TRUE},
         NEW l \in Place, Goto(c, l), NEW r \in Call, call' = [call EXCEPT ![c] = r],
         CallerInv(c)', \A d \in Caller \ {c} : PairInv(c, d)' /\ PairInv(d, c)'
  PROVE  IInv'
<1>1. TypeOK'
  <2>1. TypeOK
    BY DEF IInv
  <2>2. pc' \in [Caller -> Place] /\ call' \in [Caller -> Call]
    BY <2>1 DEF TypeOK, Goto, Place
  <2>3. QED
    BY <2>1, <2>2 DEF TypeOK, Place
<1>2. LastListUnlessMixed'
  BY DEF IInv, LastListUnlessMixed
<1>3. \A d \in Caller \ {c} : KeptCall(d)
  BY DEF IInv, TypeOK, Goto, KeptCall
<1>4. ASSUME NEW d \in Caller PROVE CallerInv(d)'
  <2>1. CASE d = c
    BY <2>1
  <2>2. CASE d # c
    BY <1>3, <2>2, KeptCaller
  <2>3. QED
    BY <2>1, <2>2
<1>5. \A d, e \in Caller : PairInv(d, e)'
  BY <1>3, AllPairs
<1>6. QED
  BY <1>1, <1>2, <1>4, <1>5 DEF IInv

LEMMA HarmlessStep ==
  ASSUME IInv, NEW c \in Caller, UNCHANGED <<people, owner, members, last, mixed>>,
         team' \in {team, TRUE},
         NEW l \in Place, Goto(c, l), NEW r \in Call, call' = [call EXCEPT ![c] = r],
         CallerInv(c)', Harmless(c)
  PROVE  IInv'
<1>1. \A d \in Caller \ {c} : KeptCall(d)
  BY DEF IInv, TypeOK, Goto, KeptCall
<1>2. \A d \in Caller \ {c} : PairInv(c, d)' /\ PairInv(d, c)'
  BY <1>1, HarmlessPair
<1>3. QED
  BY <1>2, CallStep

\* A call that is over is in order and in nobody's way.
LEMMA IdleCall ==
  ASSUME NEW c \in Caller, pc'[c] = "idle", call'[c] = NoCall
  PROVE  CallerInv(c)' /\ Harmless(c)
<1>1. CallerInv(c)'
  BY DEF CallerInv, PersonInv, AccountInv, ListInv, OldListInv, NoCall
<1>2. Harmless(c)
  BY DEF Harmless, HasTeam, Replacing
<1>3. QED
  BY <1>1, <1>2

LEMMA DropInv ==
  ASSUME IInv, NEW c \in Caller, Drop(c)
  PROVE  IInv'
<1>1. /\ Goto(c, "idle") /\ call' = [call EXCEPT ![c] = NoCall] /\ "idle" \in Place
      /\ UNCHANGED <<people, owner, team, members, last, mixed>>
  BY DEF Drop, Leave, tables, Place
<1>2. pc'[c] = "idle" /\ call'[c] = NoCall
  BY <1>1 DEF IInv, TypeOK, Goto
<1>3. CallerInv(c)' /\ Harmless(c)
  BY <1>2, IdleCall
<1>4. QED
  BY <1>1, <1>3, NoCallIsCall, HarmlessStep

-----------------------------------------------------------------------------
(* Calls that begin. *)

\* A call that begins has written nothing and met nobody.
LEMMA StartInv ==
  ASSUME IInv, NEW c \in Caller, NEW r \in Call, NEW l \in {"person", "accounts", "team", "delete"},
         Start(c, r, l), UNCHANGED <<people, owner, team, members, last, mixed>>,
         l \in {"person", "accounts"} => r.person \in Person,
         r.claims = {}, r.kept = {}, r.left = r.list, r.inserted = {}, r.row = FALSE
  PROVE  IInv'
<1>1. /\ Goto(c, l) /\ call' = [call EXCEPT ![c] = r] /\ l \in Place
  BY DEF Start, Place
<1>2. pc'[c] = l /\ call'[c] = r
  BY <1>1 DEF IInv, TypeOK, Goto
<1>3. CallerInv(c)'
  BY <1>2 DEF CallerInv, PersonInv, AccountInv, ListInv, OldListInv
<1>4. Harmless(c)
  BY <1>2 DEF Harmless, HasTeam, Replacing
<1>5. QED
  BY <1>1, <1>3, <1>4, HarmlessStep

LEMMA UpsertPersonInv ==
  ASSUME IInv, NEW c \in Caller, NEW p \in Person, NEW accounts \in SUBSET Account,
         UpsertPerson(c, p, accounts)
  PROVE  IInv'
<1> DEFINE r == [NoCall EXCEPT !.person = p, !.new = p \notin people, !.todo = accounts]
<1>1. r \in Call
  BY DEF NoCall, Call
<1>2. r.person = p /\ r.claims = {} /\ r.kept = {} /\ r.left = r.list /\ r.inserted = {}
      /\ r.row = FALSE
  BY DEF NoCall
<1>3. Start(c, r, "person") /\ UNCHANGED <<people, owner, team, members, last, mixed>>
  BY DEF UpsertPerson, tables
<1> HIDE DEF r
<1>4. QED
  BY <1>1, <1>2, <1>3, StartInv

LEMMA UpsertIdentityInv ==
  ASSUME IInv, NEW c \in Caller, NEW p \in Person, NEW a \in Account, UpsertIdentity(c, p, a)
  PROVE  IInv'
<1> DEFINE r == [NoCall EXCEPT !.person = p, !.todo = {a}]
<1>1. r \in Call
  BY DEF NoCall, Call
<1>2. r.person = p /\ r.claims = {} /\ r.kept = {} /\ r.left = r.list /\ r.inserted = {}
      /\ r.row = FALSE
  BY DEF NoCall
<1>3. Start(c, r, "accounts") /\ UNCHANGED <<people, owner, team, members, last, mixed>>
  BY DEF UpsertIdentity, tables
<1> HIDE DEF r
<1>4. QED
  BY <1>1, <1>2, <1>3, StartInv

LEMMA SetTeamMembersInv ==
  ASSUME IInv, NEW c \in Caller, NEW list \in SUBSET Person, SetTeamMembers(c, list)
  PROVE  IInv'
<1> DEFINE r == [NoCall EXCEPT !.list = list, !.left = list]
<1>1. r \in Call
  BY DEF NoCall, Call
<1>2. r.claims = {} /\ r.kept = {} /\ r.left = r.list /\ r.inserted = {} /\ r.row = FALSE
  BY DEF NoCall
<1>3. Start(c, r, "delete") /\ UNCHANGED <<people, owner, team, members, last, mixed>>
  BY DEF SetTeamMembers, tables
<1> HIDE DEF r
<1>4. QED
  BY <1>1, <1>2, <1>3, StartInv

LEMMA UpsertTeamInv ==
  ASSUME IInv, NEW c \in Caller,
         UpsertTeamAlone(c) \/ \E list \in SUBSET Person : UpsertTeamMembers(c, list)
  PROVE  IInv'
<1>1. PICK s \in Call : /\ UpsertTeam(c, s)
                        /\ s.claims = {} /\ s.kept = {} /\ s.left = s.list
                        /\ s.inserted = {} /\ s.row = FALSE
  <2>1. ASSUME NEW list \in SUBSET Person
        PROVE  [NoCall EXCEPT !.list = list, !.left = list] \in Call
    BY DEF NoCall, Call
  <2>2. [NoCall EXCEPT !.alone = TRUE] \in Call
    BY DEF NoCall, Call
  <2>3. QED
    BY <2>1, <2>2 DEF UpsertTeamAlone, UpsertTeamMembers, NoCall
<1> DEFINE r == [s EXCEPT !.new = ~team]
<1>2. r \in Call
  BY DEF Call
<1>3. r.claims = {} /\ r.kept = {} /\ r.left = r.list /\ r.inserted = {} /\ r.row = FALSE
  BY <1>1 DEF Call
<1>4. Start(c, r, "team") /\ UNCHANGED <<people, owner, team, members, last, mixed>>
  BY <1>1 DEF UpsertTeam, tables
<1> HIDE DEF r
<1>5. QED
  BY <1>2, <1>3, <1>4, StartInv

-----------------------------------------------------------------------------
(* People and accounts. *)

LEMMA FlushPersonInv ==
  ASSUME IInv, NEW c \in Caller, FlushPerson(c)
  PROVE  IInv'
<1> DEFINE r == [call[c] EXCEPT !.row = TRUE]
<1>1. /\ call[c] \in Call /\ pc[c] = "person" /\ Goto(c, "accounts")
      /\ call' = [call EXCEPT ![c] = r] /\ "accounts" \in Place
      /\ UNCHANGED <<people, owner, team, members, last, mixed>>
  BY DEF IInv, TypeOK, FlushPerson, tables, Place
<1>2. /\ r \in Call /\ r.person = call[c].person /\ r.claims = call[c].claims
      /\ r.kept = call[c].kept /\ r.list = call[c].list /\ r.left = call[c].left
      /\ r.inserted = call[c].inserted
  BY <1>1 DEF Call
<1>3. pc'[c] = "accounts" /\ call'[c] = r
  BY <1>1 DEF IInv, TypeOK, Goto
<1> HIDE DEF r
<1>4. PersonInv(c) /\ ListInv(c)
  BY DEF IInv, CallerInv
<1>5. CallerInv(c)'
  BY <1>1, <1>2, <1>3, <1>4 DEF CallerInv, PersonInv, AccountInv, ListInv, OldListInv
<1>6. Harmless(c)
  BY <1>1, <1>2, <1>3, <1>4 DEF Harmless, HasTeam, Replacing, PersonInv
<1>7. QED
  BY <1>1, <1>2, <1>5, <1>6, HarmlessStep

LEMMA FindIdentityInv ==
  ASSUME IInv, NEW c \in Caller, NEW a \in Account, FindIdentity(c, a)
  PROVE  IInv'
<1> DEFINE r == [call[c] EXCEPT
                   !.todo = @ \ {a},
                   !.next = IF owner[a] = NoOwner THEN a ELSE None,
                   !.kept = IF owner[a] = NoOwner THEN @ ELSE @ \cup {a}]
<1>1. /\ call[c] \in Call /\ pc[c] = "accounts" /\ pc' = pc
      /\ owner[a] \in {NoOwner, call[c].person}
      /\ call' = [call EXCEPT ![c] = r]
      /\ UNCHANGED <<people, owner, team, members, last, mixed>>
  BY DEF IInv, TypeOK, FindIdentity, tables
<1>2. Goto(c, "accounts") /\ "accounts" \in Place
  BY <1>1 DEF IInv, TypeOK, Goto, Place
<1>3. /\ r \in Call /\ r.person = call[c].person /\ r.claims = call[c].claims
      /\ r.list = call[c].list /\ r.left = call[c].left /\ r.inserted = call[c].inserted
      /\ r.lost = call[c].lost
      /\ r.kept = IF owner[a] = NoOwner THEN call[c].kept ELSE call[c].kept \cup {a}
  BY <1>1 DEF Call
<1>4. pc'[c] = "accounts" /\ call'[c] = r
  BY <1>1 DEF IInv, TypeOK
<1> HIDE DEF r
<1>5. CallerInv(c)
  BY DEF IInv
<1>6. PersonInv(c)' /\ ListInv(c)' /\ OldListInv(c)'
  BY <1>1, <1>3, <1>4, <1>5 DEF CallerInv, PersonInv, ListInv, OldListInv
<1>7. AccountInv(c)'
  BY <1>1, <1>3, <1>4, <1>5 DEF CallerInv, AccountInv
<1>8. Harmless(c)
  BY <1>1, <1>3, <1>4 DEF Harmless, HasTeam, Replacing
<1>9. QED
  BY <1>1, <1>2, <1>3, <1>6, <1>7, <1>8, HarmlessStep DEF CallerInv

\* The account that is claimed is nobody's and nobody else's claim.
LEMMA InsertIdentityInv ==
  ASSUME IInv, NEW c \in Caller, InsertIdentity(c)
  PROVE  IInv'
<1> DEFINE a == call[c].next
           r == [call[c] EXCEPT !.next = None, !.claims = @ \cup {a}]
<1>1. /\ call[c] \in Call /\ pc[c] = "accounts" /\ pc' = pc
      /\ a # None /\ owner[a] = NoOwner
      /\ \A d \in Caller \ {c} : pc[d] = "accounts" => a \notin call[d].claims
      /\ call' = [call EXCEPT ![c] = r]
      /\ UNCHANGED <<people, owner, team, members, last, mixed>>
  BY DEF IInv, TypeOK, InsertIdentity, Others, tables
<1>2. Goto(c, "accounts") /\ "accounts" \in Place
  BY <1>1 DEF IInv, TypeOK, Goto, Place
<1>3. /\ r \in Call /\ r.person = call[c].person /\ r.claims = call[c].claims \cup {a}
      /\ r.list = call[c].list /\ r.left = call[c].left /\ r.inserted = call[c].inserted
      /\ r.lost = call[c].lost /\ r.kept = call[c].kept
  BY <1>1 DEF Call
<1>4. pc'[c] = "accounts" /\ call'[c] = r
  BY <1>1 DEF IInv, TypeOK
<1> HIDE DEF r
<1>5. CallerInv(c)
  BY DEF IInv
<1>6. PersonInv(c)' /\ ListInv(c)' /\ OldListInv(c)'
  BY <1>1, <1>3, <1>4, <1>5 DEF CallerInv, PersonInv, ListInv, OldListInv
<1>7. AccountInv(c)'
  BY <1>1, <1>3, <1>4, <1>5 DEF CallerInv, AccountInv
<1>8. ASSUME NEW d \in Caller \ {c} PROVE PairInv(c, d)' /\ PairInv(d, c)'
  <2>1. pc'[d] = pc[d] /\ call'[d] = call[d]
    BY <1>1 DEF IInv, TypeOK
  <2>2. PairInv(c, d)
    BY DEF IInv
  <2>3. pc'[d] = "accounts" => call'[c].claims \cap call'[d].claims = {}
    BY <1>1, <1>3, <1>4, <2>1, <2>2 DEF PairInv
  <2>4. ~HasTeam(c)' /\ ~Replacing(c)'
    BY <1>4 DEF HasTeam, Replacing
  <2>5. PairInv(c, d)'
    BY <2>3, <2>4 DEF PairInv
  <2>6. PairInv(d, c)'
    BY <2>3, <2>4 DEF PairInv
  <2>7. QED
    BY <2>5, <2>6
<1>9. QED
  BY <1>1, <1>2, <1>3, <1>6, <1>7, <1>8, CallStep DEF CallerInv

\* The accounts that change hands are nobody's, so no call knows them as its person's.
LEMMA CommitPersonInv ==
  ASSUME IInv, NEW c \in Caller, CommitPerson(c)
  PROVE  IInv'
<1>1. /\ TypeOK /\ CallerInv(c) /\ pc[c] = "accounts" /\ Goto(c, "idle")
      /\ call[c].person \in Person
      /\ people' = people \cup {call[c].person}
      /\ owner' = [a \in Account |-> IF a \in call[c].claims THEN call[c].person ELSE owner[a]]
      /\ call' = [call EXCEPT ![c] = NoCall]
      /\ UNCHANGED <<team, members, last, mixed>>
  BY DEF IInv, CallerInv, PersonInv, CommitPerson, Leave
<1>2. pc'[c] = "idle" /\ call'[c] = NoCall
  BY <1>1 DEF TypeOK, Goto
<1>3. \A d \in Caller \ {c} : KeptCall(d)
  BY <1>1 DEF TypeOK, Goto, KeptCall
<1>4. TypeOK'
  <2>1. pc' \in [Caller -> Place] /\ call' \in [Caller -> Call]
    BY <1>1, NoCallIsCall DEF TypeOK, Goto, Place
  <2>2. people' \subseteq Person /\ members' \subseteq people'
    BY <1>1 DEF TypeOK
  <2>3. owner' \in [Account -> people' \cup {NoOwner}]
    BY <1>1 DEF TypeOK
  <2>4. QED
    BY <1>1, <2>1, <2>2, <2>3 DEF TypeOK, Place
<1>5. LastListUnlessMixed'
  BY <1>1 DEF IInv, LastListUnlessMixed
<1>6. CallerInv(c)' /\ Harmless(c)
  BY <1>2, IdleCall
<1>7. ASSUME NEW d \in Caller PROVE CallerInv(d)'
  <2>1. CASE d = c
    BY <1>6, <2>1
  <2>2. CASE d # c
    <3>1. CallerInv(d) /\ PairInv(c, d) /\ pc'[d] = pc[d] /\ call'[d] = call[d]
      BY <1>3, <2>2 DEF IInv, KeptCall
    <3>2. PersonInv(d)' /\ ListInv(d)' /\ OldListInv(d)'
      BY <1>1, <3>1 DEF CallerInv, PersonInv, ListInv, OldListInv
    <3>3. AccountInv(d)'
      <4>1. SUFFICES ASSUME pc[d] = "accounts"
                     PROVE  /\ \A a \in call[d].claims : owner'[a] = NoOwner
                            /\ \A a \in call[d].kept \ call[d].lost : owner'[a] = call[d].person
        BY <3>1 DEF AccountInv
      <4>2. call[d].claims \subseteq Account /\ call[d].kept \subseteq Account
        BY <1>1 DEF TypeOK, Call
      <4>3. ASSUME NEW a \in call[d].claims PROVE owner'[a] = NoOwner
        <5>1. a \notin call[c].claims
          BY <1>1, <2>2, <3>1, <4>1 DEF PairInv
        <5>2. owner[a] = NoOwner
          BY <3>1, <4>1 DEF CallerInv, AccountInv
        <5>3. QED
          BY <1>1, <4>2, <5>1, <5>2
      <4>4. ASSUME NEW a \in call[d].kept \ call[d].lost PROVE owner'[a] = call[d].person
        <5>1. owner[a] = call[d].person /\ call[d].person \in Person
          BY <3>1, <4>1 DEF CallerInv, AccountInv, PersonInv
        <5>2. a \notin call[c].claims
          BY <1>1, <5>1 DEF CallerInv, AccountInv
        <5>3. QED
          BY <1>1, <4>2, <5>1, <5>2
      <4>5. QED
        BY <4>3, <4>4
    <3>4. QED
      BY <3>2, <3>3 DEF CallerInv
  <2>3. QED
    BY <2>1, <2>2
<1>8. \A d \in Caller \ {c} : PairInv(c, d)' /\ PairInv(d, c)'
  BY <1>3, <1>6, HarmlessPair
<1>9. \A d, e \in Caller : PairInv(d, e)'
  BY <1>3, <1>8, AllPairs
<1>10. QED
  BY <1>4, <1>5, <1>7, <1>9 DEF IInv

\* The call of d is as it was, but has lost these accounts too.
SameButLost(d, accounts) ==
  /\ call'[d].person = call[d].person
  /\ call'[d].claims = call[d].claims /\ call'[d].kept = call[d].kept
  /\ call'[d].lost = call[d].lost \cup accounts
  /\ call'[d].list = call[d].list /\ call'[d].left = call[d].left
  /\ call'[d].inserted = call[d].inserted
  /\ call'[d].row = call[d].row /\ call'[d].overlap = call[d].overlap
  /\ call'[d].target = call[d].target /\ call'[d].deleted = call[d].deleted

\* A call that has found the account to be its person's knows that it is lost.
LEMMA DeleteIdentityInv ==
  ASSUME IInv, NEW a \in Account, DeleteIdentity(a)
  PROVE  IInv'
<1>1. /\ TypeOK
      /\ owner' = [owner EXCEPT ![a] = NoOwner]
      /\ call' = [d \in Caller |->
                    [call[d] EXCEPT !.lost = IF a \in call[d].kept THEN @ \cup {a} ELSE @]]
      /\ UNCHANGED <<people, team, members, pc, last, mixed>>
  BY DEF IInv, DeleteIdentity
<1>2. ASSUME NEW d \in Caller
      PROVE  call'[d] \in Call /\ SameButLost(d, IF a \in call[d].kept THEN {a} ELSE {})
  <2>1. call[d] \in Call /\ call[d].kept \subseteq Account
    BY <1>1 DEF TypeOK, Call
  <2>2. call'[d] = [call[d] EXCEPT !.lost = IF a \in call[d].kept THEN @ \cup {a} ELSE @]
    BY <1>1
  <2>3. call'[d] \in Call
    BY <2>1, <2>2 DEF Call
  <2>4. SameButLost(d, IF a \in call[d].kept THEN {a} ELSE {})
    BY <2>1, <2>2 DEF Call, SameButLost
  <2>5. QED
    BY <2>3, <2>4
<1>3. TypeOK'
  <2>1. call' \in [Caller -> Call]
    BY <1>1, <1>2
  <2>2. owner' \in [Account -> people' \cup {NoOwner}]
    BY <1>1 DEF TypeOK
  <2>3. QED
    BY <1>1, <2>1, <2>2 DEF TypeOK
<1>4. LastListUnlessMixed'
  BY <1>1 DEF IInv, LastListUnlessMixed
<1>5. ASSUME NEW d \in Caller PROVE CallerInv(d)'
  <2>1. CallerInv(d)
    BY DEF IInv
  <2>2. PersonInv(d)' /\ ListInv(d)' /\ OldListInv(d)'
    <3>1. PersonInv(d)'
      BY <1>1, <1>2, <2>1 DEF CallerInv, PersonInv, SameButLost
    <3>2. ListInv(d)'
      BY <1>1, <1>2, <2>1 DEF CallerInv, ListInv, SameButLost
    <3>3. OldListInv(d)'
      BY <1>1, <1>2, <2>1 DEF CallerInv, OldListInv, SameButLost
    <3>4. QED
      BY <3>1, <3>2, <3>3
  <2>3. AccountInv(d)'
    <3>1. call[d].claims \subseteq Account /\ call[d].kept \subseteq Account
      BY <1>1 DEF TypeOK, Call
    <3>2. pc[d] = "accounts" => \A b \in call'[d].claims : owner'[b] = NoOwner
      BY <1>1, <1>2, <2>1, <3>1 DEF CallerInv, AccountInv, SameButLost, TypeOK
    <3>3. ASSUME pc[d] = "accounts", NEW b \in call'[d].kept \ call'[d].lost
          PROVE  owner'[b] = call'[d].person
      <4>1. b \in call[d].kept \ call[d].lost /\ b # a /\ call'[d].person = call[d].person
        BY <1>2 DEF SameButLost
      <4>2. owner[b] = call[d].person
        BY <2>1, <3>3, <4>1 DEF CallerInv, AccountInv
      <4>3. QED
        BY <1>1, <3>1, <4>1, <4>2 DEF TypeOK
    <3>4. QED
      BY <1>1, <3>2, <3>3 DEF AccountInv
  <2>4. QED
    BY <2>2, <2>3 DEF CallerInv
<1>6. ASSUME NEW d \in Caller, NEW e \in Caller PROVE PairInv(d, e)'
  <2>1. PairInv(d, e)
    BY DEF IInv
  <2>2. QED
    BY <1>1, <1>2, <2>1 DEF PairInv, HasTeam, Replacing, SameButLost
<1>7. QED
  BY <1>3, <1>4, <1>5, <1>6 DEF IInv

-----------------------------------------------------------------------------
(* The members of the team. *)

\* Who gets the team's row is the only one that has it.
LEMMA FlushTeamInv ==
  ASSUME IInv, NEW c \in Caller, FlushTeam(c)
  PROVE  IInv'
<1> DEFINE r == [call[c] EXCEPT !.row = TRUE]
<1>1. /\ call[c] \in Call /\ pc[c] = "team" /\ Goto(c, "delete")
      /\ \A d \in Caller \ {c} : ~HasTeam(d)
      /\ call' = [call EXCEPT ![c] = r] /\ "delete" \in Place
      /\ UNCHANGED <<people, owner, team, members, last, mixed>>
  BY DEF IInv, TypeOK, FlushTeam, Others, tables, Place
<1>2. /\ r \in Call /\ r.list = call[c].list /\ r.left = call[c].left
      /\ r.inserted = call[c].inserted
  BY <1>1 DEF Call
<1>3. pc'[c] = "delete" /\ call'[c] = r
  BY <1>1 DEF IInv, TypeOK, Goto
<1> HIDE DEF r
<1>4. ListInv(c)
  BY DEF IInv, CallerInv
<1>5. CallerInv(c)'
  BY <1>1, <1>2, <1>3, <1>4 DEF CallerInv, PersonInv, AccountInv, ListInv, OldListInv
<1>6. ASSUME NEW d \in Caller \ {c} PROVE PairInv(c, d)' /\ PairInv(d, c)'
  <2>1. ~HasTeam(d)'
    BY <1>1 DEF IInv, TypeOK, Goto, HasTeam
  <2>2. QED
    BY <1>3, <2>1 DEF PairInv, Replacing
<1>7. QED
  BY <1>1, <1>2, <1>5, <1>6, CallStep

LEMMA CommitTeamInv ==
  ASSUME IInv, NEW c \in Caller, CommitTeam(c)
  PROVE  IInv'
<1>1. /\ Goto(c, "idle") /\ call' = [call EXCEPT ![c] = NoCall] /\ "idle" \in Place
      /\ team' = TRUE
      /\ UNCHANGED <<people, owner, members, last, mixed>>
  BY DEF CommitTeam, Leave, Place
<1>2. pc'[c] = "idle" /\ call'[c] = NoCall
  BY <1>1 DEF IInv, TypeOK, Goto
<1>3. CallerInv(c)' /\ Harmless(c)
  BY <1>2, IdleCall
<1>4. QED
  BY <1>1, <1>3, NoCallIsCall, HarmlessStep

\* The call of d is as it was, but for what it knows of others.
SameButOverlap(d) ==
  /\ pc'[d] = pc[d]
  /\ call'[d].person = call[d].person
  /\ call'[d].claims = call[d].claims /\ call'[d].kept = call[d].kept
  /\ call'[d].lost = call[d].lost
  /\ call'[d].list = call[d].list /\ call'[d].left = call[d].left
  /\ call'[d].inserted = call[d].inserted
  /\ call'[d].row = call[d].row
  /\ call'[d].target = call[d].target /\ call'[d].deleted = call[d].deleted

\* A replacement meets those that are under way, or is kept apart from them by the team's row.
LEMMA SeeMembersInv ==
  ASSUME IInv, NEW c \in Caller, SeeMembers(c)
  PROVE  IInv'
<1>1. /\ TypeOK /\ pc[c] = "delete" /\ pc' = [pc EXCEPT ![c] = "deleting"]
      /\ call' = [d \in Caller |->
                    IF d = c THEN [call[c] EXCEPT !.target = members, !.overlap = Met(c) # {}]
                    ELSE [call[d] EXCEPT !.overlap = @ \/ d \in Met(c)]]
      /\ UNCHANGED <<people, owner, team, members, last, mixed>>
  BY DEF IInv, SeeMembers, Goto, tables
<1>2. /\ pc'[c] = "deleting" /\ call'[c] \in Call
      /\ call'[c].target = members /\ (call'[c].overlap <=> Met(c) # {})
      /\ call'[c].row = call[c].row
      /\ call'[c].list = call[c].list /\ call'[c].left = call[c].left
      /\ call'[c].inserted = call[c].inserted
  <2>1. pc'[c] = "deleting" /\ call[c] \in Call /\ members \in SUBSET Person
    BY <1>1 DEF TypeOK
  <2>2. call'[c] = [call[c] EXCEPT !.target = members, !.overlap = Met(c) # {}]
    BY <1>1
  <2>3. call'[c] \in Call
    <3>1. ASSUME NEW seen \in SUBSET Person, NEW met \in BOOLEAN
          PROVE  [call[c] EXCEPT !.target = seen, !.overlap = met] \in Call
      BY <2>1 DEF Call
    <3>2. QED
      BY <2>1, <2>2, <3>1
  <2>4. call'[c].target = members
    BY <2>1, <2>2 DEF Call
  <2>5. call'[c].overlap <=> Met(c) # {}
    BY <2>1, <2>2 DEF Call
  <2>6. call'[c].row = call[c].row /\ call'[c].list = call[c].list
    BY <2>1, <2>2 DEF Call
  <2>7. call'[c].left = call[c].left /\ call'[c].inserted = call[c].inserted
    BY <2>1, <2>2 DEF Call
  <2>8. QED
    BY <2>1, <2>3, <2>4, <2>5, <2>6, <2>7
<1>3. ASSUME NEW d \in Caller \ {c}
      PROVE  /\ call'[d] \in Call /\ SameButOverlap(d)
             /\ call'[d].overlap <=> call[d].overlap \/ d \in Met(c)
  <2>1. pc'[d] = pc[d] /\ call[d] \in Call
    BY <1>1 DEF TypeOK
  <2>2. call'[d] = [call[d] EXCEPT !.overlap = @ \/ d \in Met(c)]
    BY <1>1
  <2>3. call'[d] \in Call
    BY <2>1, <2>2 DEF Call
  <2>4. SameButOverlap(d)
    BY <2>1, <2>2 DEF Call, SameButOverlap
  <2>5. call'[d].overlap <=> call[d].overlap \/ d \in Met(c)
    BY <2>1, <2>2 DEF Call
  <2>6. QED
    BY <2>3, <2>4, <2>5
<1>4. TypeOK'
  <2>1. call' \in [Caller -> Call]
    BY <1>1, <1>2, <1>3
  <2>2. pc' \in [Caller -> Place]
    BY <1>1 DEF TypeOK, Place
  <2>3. QED
    BY <1>1, <2>1, <2>2 DEF TypeOK, Place
<1>5. LastListUnlessMixed'
  BY <1>1 DEF IInv, LastListUnlessMixed
<1>6. ASSUME NEW d \in Caller PROVE CallerInv(d)'
  <2>1. CallerInv(d)
    BY DEF IInv
  <2>2. CASE d = c
    BY <1>1, <1>2, <2>1, <2>2 DEF CallerInv, PersonInv, AccountInv, ListInv, OldListInv
  <2>3. CASE d # c
    <3>1. SameButOverlap(d) /\ (call[d].overlap => call'[d].overlap)
      BY <1>3, <2>3
    <3>2. PersonInv(d)' /\ AccountInv(d)'
      BY <1>1, <2>1, <3>1 DEF CallerInv, PersonInv, AccountInv, SameButOverlap
    <3>3. ListInv(d)' /\ OldListInv(d)'
      BY <1>1, <2>1, <3>1 DEF CallerInv, ListInv, OldListInv, SameButOverlap
    <3>4. QED
      BY <3>2, <3>3 DEF CallerInv
  <2>4. QED
    BY <2>2, <2>3
<1>7. ASSUME NEW d \in Caller \ {c} PROVE PairInv(c, d)' /\ PairInv(d, c)'
  <2>1. SameButOverlap(d) /\ (d \in Met(c) => call'[c].overlap /\ call'[d].overlap)
    BY <1>2, <1>3
  <2>2. PairInv(c, d)
    BY DEF IInv
  <2>3. HasTeam(c)' <=> HasTeam(c)
    BY <1>1, <1>2 DEF HasTeam
  <2>4. HasTeam(d)' <=> HasTeam(d)
    BY <2>1 DEF SameButOverlap, HasTeam
  <2>5. Replacing(d)' => d \in Met(c)
    BY <1>1, <2>1, <2>2 DEF SameButOverlap, Replacing, Met, Others, PairInv, HasTeam
  <2>6. QED
    BY <1>2, <2>1, <2>2, <2>3, <2>4, <2>5 DEF PairInv
<1>8. ASSUME NEW d \in Caller \ {c}, NEW e \in Caller \ {c} PROVE PairInv(d, e)'
  <2>1. PairInv(d, e) /\ SameButOverlap(d) /\ SameButOverlap(e)
        /\ (call[d].overlap => call'[d].overlap)
    BY <1>3 DEF IInv
  <2>2. QED
    BY <2>1 DEF PairInv, SameButOverlap, HasTeam, Replacing
<1>9. \A d, e \in Caller : PairInv(d, e)'
  <2>1. SUFFICES ASSUME NEW d \in Caller, NEW e \in Caller PROVE PairInv(d, e)'
    OBVIOUS
  <2>2. CASE d = e
    BY <2>2 DEF PairInv
  <2>3. CASE d # c /\ e # c
    BY <1>8, <2>3
  <2>4. CASE d # e /\ (d = c \/ e = c)
    BY <1>7, <2>4
  <2>5. QED
    BY <2>2, <2>3, <2>4
<1>10. QED
  BY <1>4, <1>5, <1>6, <1>9 DEF IInv

LEMMA DeleteMembersInv ==
  ASSUME IInv, NEW c \in Caller, DeleteMembers(c)
  PROVE  IInv'
<1> DEFINE r == [call[c] EXCEPT !.deleted = call[c].target, !.target = {}]
<1>1. /\ call[c] \in Call /\ pc[c] = "deleting" /\ Goto(c, "members")
      /\ call' = [call EXCEPT ![c] = r] /\ "members" \in Place
      /\ UNCHANGED <<people, owner, team, members, last, mixed>>
  BY DEF IInv, TypeOK, DeleteMembers, tables, Place
<1>2. /\ r \in Call /\ r.list = call[c].list /\ r.left = call[c].left
      /\ r.inserted = call[c].inserted /\ r.row = call[c].row
      /\ r.overlap = call[c].overlap /\ r.deleted = call[c].target
  BY <1>1 DEF Call
<1>3. pc'[c] = "members" /\ call'[c] = r
  BY <1>1 DEF IInv, TypeOK, Goto
<1> HIDE DEF r
<1>4. ListInv(c) /\ OldListInv(c)
  BY DEF IInv, CallerInv
<1>5. CallerInv(c)'
  BY <1>1, <1>2, <1>3, <1>4 DEF CallerInv, PersonInv, AccountInv, ListInv, OldListInv
<1>6. Harmless(c)
  BY <1>1, <1>2, <1>3 DEF Harmless, HasTeam, Replacing
<1>7. QED
  BY <1>1, <1>2, <1>5, <1>6, HarmlessStep

LEMMA InsertMemberInv ==
  ASSUME IInv, NEW c \in Caller, NEW p \in Person, InsertMember(c, p)
  PROVE  IInv'
<1> DEFINE r == [call[c] EXCEPT !.inserted = @ \cup {p}, !.left = @ \ {p}]
<1>1. /\ call[c] \in Call /\ pc[c] = "members" /\ pc' = pc
      /\ p \in call[c].left /\ p \in people
      /\ call' = [call EXCEPT ![c] = r]
      /\ UNCHANGED <<people, owner, team, members, last, mixed>>
  BY DEF IInv, TypeOK, InsertMember, tables
<1>2. Goto(c, "members") /\ "members" \in Place
  BY <1>1 DEF IInv, TypeOK, Goto, Place
<1>3. /\ r \in Call /\ r.list = call[c].list /\ r.left = call[c].left \ {p}
      /\ r.inserted = call[c].inserted \cup {p} /\ r.row = call[c].row
      /\ r.overlap = call[c].overlap /\ r.deleted = call[c].deleted
  BY <1>1 DEF Call
<1>4. pc'[c] = "members" /\ call'[c] = r
  BY <1>1 DEF IInv, TypeOK
<1> HIDE DEF r
<1>5. ListInv(c) /\ OldListInv(c)
  BY DEF IInv, CallerInv
<1>6. ListInv(c)'
  BY <1>1, <1>3, <1>4, <1>5 DEF ListInv
<1>7. CallerInv(c)'
  BY <1>1, <1>3, <1>4, <1>5, <1>6 DEF CallerInv, PersonInv, AccountInv, OldListInv
<1>8. Harmless(c)
  BY <1>1, <1>3, <1>4 DEF Harmless, HasTeam, Replacing
<1>9. QED
  BY <1>1, <1>2, <1>3, <1>7, <1>8, HarmlessStep

\* The call of d is as it was, but may find fewer members to delete.
SameButTarget(d) ==
  /\ pc'[d] = pc[d]
  /\ call'[d].person = call[d].person
  /\ call'[d].claims = call[d].claims /\ call'[d].kept = call[d].kept
  /\ call'[d].lost = call[d].lost
  /\ call'[d].list = call[d].list /\ call'[d].left = call[d].left
  /\ call'[d].inserted = call[d].inserted
  /\ call'[d].row = call[d].row /\ call'[d].overlap = call[d].overlap

\* A replacement that met no other leaves its list; one that is under way when it ends knows
\* that they met.
LEMMA CommitMembersInv ==
  ASSUME IInv, NEW c \in Caller, CommitMembers(c)
  PROVE  IInv'
<1>1. /\ TypeOK /\ CallerInv(c) /\ pc[c] = "members" /\ call[c].left = {}
      /\ pc' = [pc EXCEPT ![c] = "idle"]
      /\ team' = TRUE
      /\ members' = (members \ call[c].deleted) \cup call[c].inserted
      /\ call' = [d \in Caller |-> IF d = c THEN NoCall
                                   ELSE [call[d] EXCEPT !.target = @ \ call[c].deleted]]
      /\ last' = call[c].list
      /\ mixed' = call[c].overlap
      /\ UNCHANGED <<people, owner>>
  BY DEF IInv, CommitMembers, Leave, Goto
<1>2. pc'[c] = "idle" /\ call'[c] = NoCall
  BY <1>1 DEF TypeOK
<1>3. ASSUME NEW d \in Caller \ {c} PROVE call'[d] \in Call /\ SameButTarget(d)
  <2>1. pc'[d] = pc[d] /\ call[d] \in Call
    BY <1>1 DEF TypeOK
  <2>2. call'[d] = [call[d] EXCEPT !.target = @ \ call[c].deleted]
    BY <1>1
  <2>3. call'[d] \in Call
    BY <2>1, <2>2 DEF Call
  <2>4. SameButTarget(d)
    BY <2>1, <2>2 DEF Call, SameButTarget
  <2>5. QED
    BY <2>3, <2>4
<1>4. call[c].list \subseteq Person /\ call[c].overlap \in BOOLEAN
  BY <1>1 DEF TypeOK, Call
<1>5. call[c].inserted \subseteq people /\ call[c].inserted = call[c].list
  BY <1>1 DEF CallerInv, ListInv
<1>6. TypeOK'
  <2>1. call' \in [Caller -> Call]
    BY <1>1, <1>2, <1>3, NoCallIsCall
  <2>2. pc' \in [Caller -> Place]
    BY <1>1 DEF TypeOK, Place
  <2>3. members' \subseteq people' /\ last' \subseteq Person /\ mixed' \in BOOLEAN
    BY <1>1, <1>4, <1>5 DEF TypeOK
  <2>4. QED
    BY <1>1, <2>1, <2>2, <2>3 DEF TypeOK, Place
<1>7. LastListUnlessMixed'
  BY <1>1, <1>5 DEF CallerInv, OldListInv, LastListUnlessMixed
<1>8. CallerInv(c)' /\ Harmless(c)
  BY <1>2, IdleCall
<1>9. ASSUME NEW d \in Caller PROVE CallerInv(d)'
  <2>1. CASE d = c
    BY <1>8, <2>1
  <2>2. CASE d # c
    <3>1. CallerInv(d) /\ SameButTarget(d) /\ PairInv(d, c)
      BY <1>3, <2>2 DEF IInv
    <3>2. PersonInv(d)' /\ AccountInv(d)' /\ ListInv(d)'
      BY <1>1, <3>1 DEF CallerInv, PersonInv, AccountInv, ListInv, SameButTarget
    <3>3. Replacing(d) => call[d].overlap
      BY <1>1, <2>2, <3>1 DEF PairInv, Replacing
    <3>4. OldListInv(d)'
      BY <3>1, <3>3 DEF OldListInv, SameButTarget, Replacing
    <3>5. QED
      BY <3>2, <3>4 DEF CallerInv
  <2>3. QED
    BY <2>1, <2>2
<1>10. ASSUME NEW d \in Caller, NEW e \in Caller PROVE PairInv(d, e)'
  <2>1. CASE d # c /\ e # c
    <3>1. PairInv(d, e) /\ SameButTarget(d) /\ SameButTarget(e)
      BY <1>3, <2>1 DEF IInv
    <3>2. QED
      BY <3>1 DEF PairInv, SameButTarget, HasTeam, Replacing
  <2>2. CASE d = c \/ e = c
    BY <1>2, <2>2 DEF PairInv, HasTeam, Replacing
  <2>3. QED
    BY <2>1, <2>2
<1>11. QED
  BY <1>6, <1>7, <1>9, <1>10 DEF IInv

-----------------------------------------------------------------------------
(* Every step. *)

LEMMA PersonStepInv ==
  ASSUME IInv, NEW c \in Caller,
         \/ \E p \in Person, accounts \in SUBSET Account : UpsertPerson(c, p, accounts)
         \/ \E p \in Person, a \in Account : UpsertIdentity(c, p, a)
         \/ FlushPerson(c) \/ InsertIdentity(c) \/ CommitPerson(c)
         \/ \E a \in Account : FindIdentity(c, a) \/ RefuseIdentity(c, a)
         \/ Fail(c)
  PROVE  IInv'
<1>1. CASE \E p \in Person, accounts \in SUBSET Account : UpsertPerson(c, p, accounts)
  BY <1>1, UpsertPersonInv
<1>2. CASE \E p \in Person, a \in Account : UpsertIdentity(c, p, a)
  BY <1>2, UpsertIdentityInv
<1>3. CASE FlushPerson(c) \/ InsertIdentity(c) \/ CommitPerson(c)
  BY <1>3, FlushPersonInv, InsertIdentityInv, CommitPersonInv
<1>4. CASE \E a \in Account : FindIdentity(c, a)
  BY <1>4, FindIdentityInv
<1>5. CASE (\E a \in Account : RefuseIdentity(c, a)) \/ Fail(c)
  <2>1. Drop(c)
    BY <1>5 DEF RefuseIdentity, Fail
  <2>2. QED
    BY <2>1, DropInv
<1>6. QED
  BY <1>1, <1>2, <1>3, <1>4, <1>5

LEMMA TeamStepInv ==
  ASSUME IInv, NEW c \in Caller,
         \/ \E list \in SUBSET Person : SetTeamMembers(c, list) \/ UpsertTeamMembers(c, list)
         \/ UpsertTeamAlone(c) \/ FlushTeam(c) \/ CommitTeam(c)
         \/ SeeMembers(c) \/ DeleteMembers(c) \/ CommitMembers(c)
         \/ \E p \in Person : InsertMember(c, p)
  PROVE  IInv'
<1>1. CASE \E list \in SUBSET Person : SetTeamMembers(c, list)
  BY <1>1, SetTeamMembersInv
<1>2. CASE UpsertTeamAlone(c) \/ \E list \in SUBSET Person : UpsertTeamMembers(c, list)
  BY <1>2, UpsertTeamInv
<1>3. CASE FlushTeam(c) \/ CommitTeam(c)
  BY <1>3, FlushTeamInv, CommitTeamInv
<1>4. CASE SeeMembers(c) \/ DeleteMembers(c) \/ CommitMembers(c)
  BY <1>4, SeeMembersInv, DeleteMembersInv, CommitMembersInv
<1>5. CASE \E p \in Person : InsertMember(c, p)
  BY <1>5, InsertMemberInv
<1>6. QED
  BY <1>1, <1>2, <1>3, <1>4, <1>5

LEMMA StutterInv ==
  ASSUME IInv, UNCHANGED vars
  PROVE  IInv'
<1>1. UNCHANGED <<people, owner, team, members, pc, call, last, mixed>>
  BY DEF vars, tables
<1>2. TypeOK' /\ LastListUnlessMixed'
  BY <1>1 DEF IInv, TypeOK, LastListUnlessMixed
<1>3. \A d \in Caller : KeptCall(d)
  BY <1>1 DEF KeptCall
<1>4. \A d \in Caller : CallerInv(d)'
  BY <1>1, <1>3, KeptCaller
<1>5. \A d, e \in Caller : PairInv(d, e)'
  BY <1>3, KeptPair
<1>6. QED
  BY <1>2, <1>4, <1>5 DEF IInv

LEMMA NextInv == IInv /\ [Next]_vars => IInv'
<1> SUFFICES ASSUME IInv, [Next]_vars PROVE IInv'
  OBVIOUS
<1>1. CASE \E a \in Account : DeleteIdentity(a)
  BY <1>1, DeleteIdentityInv
<1>2. CASE UNCHANGED vars
  BY <1>2, StutterInv
<1>3. CASE Next /\ ~\E a \in Account : DeleteIdentity(a)
  BY <1>3, PersonStepInv, TeamStepInv DEF Next
<1>4. QED
  BY <1>1, <1>2, <1>3

LEMMA Invariance == Spec => []IInv
<1>1. QED
  BY InitInv, NextInv, PTL DEF Spec

-----------------------------------------------------------------------------
(* The theorems. *)

\* Accounts and members are people that exist, and the calls stay what their types say.
THEOREM TypeCorrect == Spec => []TypeOK
<1>1. IInv => TypeOK
  BY DEF IInv
<1>2. QED
  BY <1>1, Invariance, PTL

\* The members are those of the last replacement, unless that one overlapped another and one
\* of the two did not take the team's row.
THEOREM MembersAreTheLastList == Spec => []LastListUnlessMixed
<1>1. IInv => LastListUnlessMixed
  BY DEF IInv
<1>2. QED
  BY <1>1, Invariance, PTL

\* An account that a call reports as saved is its person's when it commits, unless somebody
\* deleted it in between.
THEOREM SavedAccountsAreOwned == Spec => SavedIsOwned
<1>1. ASSUME IInv, NEW c \in Caller, CommitPerson(c),
             NEW a \in (call[c].claims \cup call[c].kept) \ call[c].lost
      PROVE  owner'[a] = call[c].person
  <2>1. call[c].claims \subseteq Account /\ call[c].kept \subseteq Account
    BY <1>1 DEF IInv, TypeOK, Call
  <2>2. AccountInv(c) /\ pc[c] = "accounts"
    BY <1>1 DEF IInv, CallerInv, CommitPerson
  <2>3. owner' = [b \in Account |-> IF b \in call[c].claims THEN call[c].person ELSE owner[b]]
    BY <1>1 DEF CommitPerson
  <2>4. CASE a \in call[c].claims
    BY <2>1, <2>3, <2>4
  <2>5. CASE a \notin call[c].claims
    <3>1. owner[a] = call[c].person
      BY <1>1, <2>2, <2>5 DEF AccountInv
    <3>2. QED
      BY <1>1, <2>1, <2>3, <2>5, <3>1
  <2>6. QED
    BY <2>4, <2>5
<1>2. IInv /\ [Next]_vars
        => [\A c \in Caller : CommitPerson(c) =>
              \A a \in (call[c].claims \cup call[c].kept) \ call[c].lost :
                owner'[a] = call[c].person]_vars
  BY <1>1
<1>3. QED
  BY <1>2, Invariance, PTL DEF Spec, SavedIsOwned
=============================================================================
