-------------------------- MODULE NamespacesProofs --------------------------
(***************************************************************************)
(* Proofs about Namespaces, for every set of agents, namespaces, templates *)
(* and parts, and every slugify.                                           *)
(***************************************************************************)
EXTENDS Namespaces, SequenceTheorems, TLAPS

USE SegmentsAssumption, NoRowAssumption

-----------------------------------------------------------------------------
(* Keys. *)

\* A key that was built from a namespace's template and parts is one of the keys.
LEMMA BuiltIsKey ==
  ASSUME NEW n \in Name, NEW t \in Templates(n), NEW p \in Parts, Complete(t, p)
  PROVE  BuildKey(n, t, p) \in Key
<1>1. BuildKey(n, t, p) \in KeysOf(n, t)
  BY DEF KeysOf
<1>2. QED
  BY <1>1 DEF Key

\* The read path and the write path agree: build_key's key is accepted by key_matches.
THEOREM BuiltKeyMatches ==
  ASSUME NEW n \in Name, NEW t \in Templates(n), NEW p \in Parts, Complete(t, p)
  PROVE  KeyMatches(n, t, BuildKey(n, t, p))
<1> DEFINE tail == [i \in DOMAIN t |-> IF t[i] \in Slot THEN SlugOf(p, t[i]) ELSE t[i]]
<1>1. n \in Seq(Segment) /\ t \in Seq(Segment \cup Slot)
  OBVIOUS
<1>2. tail \in Seq(Segment)
  <2>1. ASSUME NEW i \in DOMAIN t PROVE tail[i] \in Segment
    BY <1>1, <2>1 DEF Complete, SlugOf
  <2>2. DOMAIN t = 1..Len(t) /\ Len(t) \in Nat
    BY <1>1
  <2>3. QED
    BY <2>1, <2>2
<1>3. Len(tail) = Len(t)
  BY <1>1
<1>4. BuildKey(n, t, p) = n \o tail
  BY DEF BuildKey
<1> HIDE DEF tail
<1>5. /\ Len(n \o tail) = Len(n) + Len(t)
      /\ \A i \in DOMAIN n : (n \o tail)[i] = n[i]
      /\ \A i \in DOMAIN t : (n \o tail)[Len(n) + i] = tail[i]
  <2>1. Len(n) \in Nat /\ Len(t) \in Nat /\ DOMAIN n = 1..Len(n) /\ DOMAIN t = 1..Len(t)
    BY <1>1, LenProperties
  <2>2. /\ Len(n \o tail) = Len(n) + Len(tail)
        /\ \A i \in 1..(Len(n) + Len(tail)) :
             (n \o tail)[i] = IF i <= Len(n) THEN n[i] ELSE tail[i - Len(n)]
    BY <1>1, <1>2, ConcatProperties
  <2>3. ASSUME NEW i \in DOMAIN n PROVE (n \o tail)[i] = n[i]
    <3>1. i \in 1..(Len(n) + Len(tail)) /\ i <= Len(n)
      BY <1>3, <2>1
    <3>2. QED
      BY <2>2, <3>1
  <2>4. ASSUME NEW i \in DOMAIN t PROVE (n \o tail)[Len(n) + i] = tail[i]
    <3>1. /\ Len(n) + i \in 1..(Len(n) + Len(tail))
          /\ ~(Len(n) + i <= Len(n))
          /\ (Len(n) + i) - Len(n) = i
      BY <1>3, <2>1
    <3>2. QED
      BY <2>2, <3>1
  <2>5. QED
    BY <1>3, <2>2, <2>3, <2>4
<1>6. \A i \in DOMAIN t : t[i] \in Slot \/ t[i] = tail[i]
  BY DEF tail
<1>7. QED
  BY <1>4, <1>5, <1>6 DEF KeyMatches

-----------------------------------------------------------------------------
(* The inductive invariant. *)

LEMMA InitInv == Init => IInv
<1> SUFFICES ASSUME Init PROVE IInv
  OBVIOUS
<1>1. TypeOK
  BY DEF Init, TypeOK, NoCall, Call
<1>2. QED
  BY <1>1 DEF Init, IInv, FactInv, WrittenInv, ChangeInv, WriteInv

\* What a step that leaves the tables alone has to show: the call it moves is in order.
LEMMA CallStep ==
  ASSUME IInv, NEW c \in Caller, UNCHANGED <<template, home, written, overlapped>>,
         NEW l \in {"idle", "create", "count", "update", "built", "validate", "find", "insert"},
         NEW r \in Call, Goto(c, l), call' = [call EXCEPT ![c] = r],
         ChangeInv(c)', WriteInv(c)'
  PROVE  IInv'
<1>1. TypeOK'
  BY DEF IInv, TypeOK, Goto
<1>2. FactInv' /\ WrittenInv'
  BY DEF IInv, FactInv, WrittenInv, Accepts
<1>3. ASSUME NEW d \in Caller PROVE ChangeInv(d)' /\ WriteInv(d)'
  <2>1. CASE d = c
    BY <2>1
  <2>2. CASE d # c
    <3>1. pc'[d] = pc[d] /\ call'[d] = call[d]
      BY <2>2 DEF IInv, TypeOK, Goto
    <3>2. ChangeInv(d)'
      BY <3>1 DEF IInv, ChangeInv
    <3>3. WriteInv(d)'
      BY <3>1 DEF IInv, WriteInv, Accepts
    <3>4. QED
      BY <3>2, <3>3
  <2>3. QED
    BY <2>1, <2>2
<1>4. QED
  BY <1>1, <1>2, <1>3 DEF IInv

LEMMA DropInv ==
  ASSUME IInv, NEW c \in Caller, Drop(c)
  PROVE  IInv'
<1>1. NoCall \in Call
  BY DEF NoCall, Call
<1>2. pc'[c] = "idle"
  BY DEF IInv, TypeOK, Drop, Leave, Goto
<1>3. ChangeInv(c)' /\ WriteInv(c)'
  BY <1>2 DEF ChangeInv, WriteInv
<1>4. QED
  BY <1>1, <1>3, CallStep DEF Drop, Leave

-----------------------------------------------------------------------------
(* The actions of upsert_namespace. *)

LEMMA FindNamespaceInv ==
  ASSUME IInv, NEW c \in Caller, NEW n \in Name, NEW t \in Templates(n), FindNamespace(c, n, t)
  PROVE  IInv'
<1> DEFINE r == [NoCall EXCEPT !.name = n, !.tail = t]
           l == IF template[n] = NoRow THEN "create" ELSE "count"
<1>1. r \in Call /\ r.name = n /\ r.tail = t
  BY DEF NoCall, Call, Tails
<1>2. pc'[c] = l /\ call'[c] = r
  BY DEF IInv, TypeOK, FindNamespace, Goto
<1>3. ChangeInv(c)' /\ WriteInv(c)'
  BY <1>1, <1>2 DEF ChangeInv, WriteInv
<1>4. QED
  BY <1>1, <1>3, CallStep DEF FindNamespace

\* The call stays what it is while its pc moves on.
LEMMA CallKept ==
  ASSUME IInv, NEW c \in Caller, UNCHANGED call
  PROVE  call' = [call EXCEPT ![c] = call[c]] /\ call[c] \in Call
  BY DEF IInv, TypeOK

LEMMA CountFactsInv ==
  ASSUME IInv, NEW c \in Caller, CountFacts(c)
  PROVE  IInv'
<1>1. pc'[c] = "update" /\ pc[c] = "count" /\ call'[c] = call[c]
  BY DEF IInv, TypeOK, CountFacts, Goto
<1>2. \A k \in Key : home'[k] # call'[c].name
  BY <1>1 DEF CountFacts, Used
<1>3. ChangeInv(c)' /\ WriteInv(c)'
  BY <1>1, <1>2 DEF IInv, ChangeInv, WriteInv
<1>4. QED
  BY <1>3, CallKept, CallStep DEF CountFacts

LEMMA PutNamespaceInv ==
  ASSUME IInv, NEW c \in Caller, PutNamespace(c)
  PROVE  IInv'
<1> DEFINE n == call[c].name
<1>1. /\ n \in Name /\ call[c].tail \in Templates(n) /\ call[c].tail # NoRow
      /\ call[c].tail \in Tails
  BY DEF IInv, ChangeInv, PutNamespace, Tails
<1>2. /\ template' = [template EXCEPT ![n] = call[c].tail]
      /\ home' = home /\ written' = written /\ overlapped \subseteq overlapped'
      /\ pc' = [pc EXCEPT ![c] = "idle"] /\ call' = [call EXCEPT ![c] = NoCall]
  BY DEF PutNamespace, Leave, Goto
<1>3. \A d \in OpenWrites(n) : call[d].key \in overlapped'
  BY DEF PutNamespace
<1>4. \A m \in Name \ {n} : template'[m] = template[m] /\ \A k : Accepts(m, k)' <=> Accepts(m, k)
  BY <1>1, <1>2 DEF IInv, TypeOK, Accepts
<1>5. template'[n] = call[c].tail
  BY <1>1, <1>2 DEF IInv, TypeOK
<1>6. \A k \in Key : home[k] = n => k \in overlapped
  BY <1>1 DEF IInv, ChangeInv, FactInv, PutNamespace
<1>7. TypeOK'
  <2>1. \A d \in OpenWrites(n) : call[d].key \in Key
    BY DEF IInv, WriteInv, OpenWrites
  <2>2. overlapped' \subseteq Key
    BY <2>1 DEF IInv, TypeOK, PutNamespace
  <2>3. NoCall \in Call
    BY DEF NoCall, Call
  <2>4. template' \in [Name -> Tails \cup {NoRow}]
    BY <1>1, <1>2 DEF IInv, TypeOK
  <2>5. \A m \in Name : template'[m] \in Templates(m) \cup {NoRow}
    BY <1>1, <1>4, <1>5 DEF IInv, TypeOK
  <2>6. QED
    BY <1>2, <2>2, <2>3, <2>4, <2>5 DEF IInv, TypeOK
<1>8. FactInv'
  <2> SUFFICES ASSUME NEW k \in Key, home[k] # NoRow
               PROVE  /\ template'[home[k]] # NoRow
                      /\ k \in overlapped' \/ Accepts(home[k], k)'
    BY <1>2 DEF FactInv
  <2>1. CASE home[k] = n
    BY <1>1, <1>2, <1>5, <1>6, <2>1
  <2>2. CASE home[k] # n
    BY <1>2, <1>4, <2>2 DEF IInv, FactInv, TypeOK
  <2>3. QED
    BY <2>1, <2>2
<1>9. WrittenInv'
  <2> SUFFICES ASSUME NEW w \in written
               PROVE  /\ home[w.key] # NoRow
                      /\ \/ w.key \in overlapped'
                         \/ home[w.key] # w.name
                         \/ w.key = BuildKey(w.name, template'[w.name], w.parts)
    BY <1>2 DEF WrittenInv, BuildKey
  <2>1. w \in Write
    BY DEF IInv, TypeOK
  <2>2. CASE home[w.key] = n
    BY <1>1, <1>2, <1>6, <2>1, <2>2 DEF Write
  <2>3. CASE home[w.key] # n
    BY <1>2, <1>4, <2>1, <2>3 DEF IInv, WrittenInv, Write
  <2>4. QED
    BY <2>2, <2>3
<1>10. ASSUME NEW d \in Caller PROVE ChangeInv(d)' /\ WriteInv(d)'
  <2>1. CASE d = c
    BY <1>2, <2>1 DEF IInv, TypeOK, ChangeInv, WriteInv
  <2>2. CASE d # c
    <3>1. pc'[d] = pc[d] /\ call'[d] = call[d]
      BY <1>2, <2>2 DEF IInv, TypeOK
    <3>2. ChangeInv(d)'
      BY <1>2, <3>1 DEF IInv, ChangeInv
    <3>3. CASE d \in OpenWrites(n)
      <4>1. call'[d].key \in overlapped'
        BY <1>3, <3>1, <3>3
      <4>2. pc[d] \in {"find", "insert"} => call[d].home \in Name /\ template'[call[d].home] # NoRow
        BY <1>1, <1>4, <1>5 DEF IInv, WriteInv
      <4>3. QED
        BY <3>1, <3>2, <4>1, <4>2 DEF IInv, WriteInv
    <3>4. CASE d \notin OpenWrites(n)
      <4> DEFINE r == call[d]
      <4>1. CASE pc[d] \in {"built", "validate", "find", "insert"}
        <5>1. r.name # n /\ r.home # n
          BY <3>4, <4>1 DEF OpenWrites
        <5>2. r.name \in Name /\ r.parts \in Parts /\ r.key \in Key
          BY <4>1 DEF IInv, WriteInv
        <5>3. template'[r.name] = template[r.name]
          BY <1>4, <5>1, <5>2
        <5>4. \/ r.key \in overlapped'
              \/ r.key = BuildKey(r.name, template'[r.name], r.parts)
          <6>1. r.key \in overlapped \/ r.key = BuildKey(r.name, template[r.name], r.parts)
            BY <4>1 DEF IInv, WriteInv
          <6>2. QED
            BY <1>2, <5>3, <6>1
        <5>5. ASSUME pc'[d] \in {"find", "insert"}
              PROVE  /\ call'[d].home \in Name /\ template'[call'[d].home] # NoRow
                     /\ \/ call'[d].key \in overlapped'
                        \/ Accepts(call[d].home, call[d].key)'
          <6>1. PICK h \in Name, k \in Key : h = call[d].home /\ k = call[d].key
            BY <3>1, <5>5 DEF IInv, WriteInv
          <6>2. template'[h] = template[h]
            BY <1>4, <5>1, <6>1
          <6>3. template[h] # NoRow /\ (k \in overlapped \/ Accepts(h, k))
            BY <3>1, <5>5, <6>1 DEF IInv, WriteInv
          <6>4. template'[h] # NoRow /\ (k \in overlapped' \/ Accepts(h, k)')
            BY <1>2, <1>4, <5>1, <6>1, <6>2, <6>3
          <6>5. QED
            BY <3>1, <6>1, <6>4 DEF Accepts
        <5>6. WriteInv(d)'
          BY <3>1, <5>2, <5>4, <5>5 DEF WriteInv
        <5>7. QED
          BY <3>2, <5>6
      <4>2. CASE pc[d] \notin {"built", "validate", "find", "insert"}
        BY <3>1, <3>2, <4>2 DEF WriteInv
      <4>3. QED
        BY <4>1, <4>2
    <3>5. QED
      BY <3>3, <3>4
  <2>3. QED
    BY <2>1, <2>2
<1>11. QED
  BY <1>7, <1>8, <1>9, <1>10 DEF IInv

-----------------------------------------------------------------------------
(* The actions of write_fact and build_fact_key. *)

LEMMA BuildInv ==
  ASSUME IInv, NEW c \in Caller, NEW n \in Name, NEW p \in Parts,
         NEW l \in {"built", "validate"}, Build(c, n, p, l)
  PROVE  IInv'
<1> DEFINE k == BuildKey(n, template[n], p)
           r == [NoCall EXCEPT !.name = n, !.parts = p, !.key = k]
<1>1. template[n] \in Templates(n)
  BY DEF IInv, TypeOK, Build
<1>2. k \in Key
  BY <1>1, BuiltIsKey DEF Build
<1> HIDE DEF k
<1>3. r \in Call /\ r.name = n /\ r.parts = p /\ r.key = k
  BY <1>2 DEF NoCall, Call
<1>4. template' = template /\ pc'[c] = l /\ call'[c] = r
  BY DEF IInv, TypeOK, Build, Goto, k
<1>5. call'[c].key = BuildKey(call'[c].name, template'[call'[c].name], call'[c].parts)
  BY <1>3, <1>4 DEF k
<1>6. ChangeInv(c)' /\ WriteInv(c)'
  BY <1>2, <1>3, <1>4, <1>5 DEF ChangeInv, WriteInv
<1>7. QED
  BY <1>3, <1>6, CallStep DEF Build, k

LEMMA GiveKeyInv ==
  ASSUME IInv, NEW c \in Caller, GiveKey(c)
  PROVE  IInv'
<1>1. pc[c] = "built" /\ pc'[c] = "validate" /\ UNCHANGED <<template, call, overlapped>>
  BY DEF IInv, TypeOK, GiveKey, Goto
<1>2. ChangeInv(c)' /\ WriteInv(c)'
  BY <1>1 DEF IInv, ChangeInv, WriteInv
<1>3. QED
  BY <1>2, CallKept, CallStep DEF GiveKey

LEMMA ValidateKeyInv ==
  ASSUME IInv, NEW c \in Caller, ValidateKey(c)
  PROVE  IInv'
<1>1. PICK n \in Name : IsHome(n, call[c].key) /\ call' = [call EXCEPT ![c].home = n]
  BY DEF ValidateKey
<1> DEFINE r == [call[c] EXCEPT !.home = n]
<1>2. call[c] \in Call
  BY DEF IInv, TypeOK
<1>3. r \in Call /\ r.home = n /\ r.name = call[c].name /\ r.parts = call[c].parts
      /\ r.key = call[c].key
  BY <1>2 DEF Call
<1>4. call' = [call EXCEPT ![c] = r] /\ call'[c] = r
  BY <1>1 DEF IInv, TypeOK
<1>5. pc[c] = "validate" /\ pc'[c] = "find" /\ UNCHANGED <<template, overlapped>>
  BY DEF IInv, TypeOK, ValidateKey, Goto
<1>6. template[n] # NoRow /\ Accepts(n, call[c].key)
  BY <1>1 DEF IsHome, Accepts
<1>7. Accepts(call[c].home, call[c].key)'
  BY <1>3, <1>4, <1>5, <1>6 DEF Accepts
<1>8. ChangeInv(c)' /\ WriteInv(c)'
  <2>1. /\ call'[c].name = call[c].name /\ call'[c].parts = call[c].parts
        /\ call'[c].key = call[c].key /\ call'[c].home = n
    BY <1>3, <1>4
  <2>2. WriteInv(c)
    BY DEF IInv
  <2>3. ChangeInv(c)'
    BY <1>5 DEF ChangeInv
  <2>4. WriteInv(c)'
    BY <1>5, <1>6, <1>7, <2>1, <2>2 DEF WriteInv
  <2>5. QED
    BY <2>3, <2>4
<1>9. QED
  BY <1>3, <1>4, <1>8, CallStep DEF ValidateKey

LEMMA FindNothingInv ==
  ASSUME IInv, NEW c \in Caller, FindNothing(c)
  PROVE  IInv'
<1>1. pc[c] = "find" /\ pc'[c] = "insert" /\ UNCHANGED <<template, call, overlapped>>
  BY DEF IInv, TypeOK, FindNothing, Goto
<1>2. ChangeInv(c)'
  BY <1>1 DEF ChangeInv
<1>3. WriteInv(c)'
  <2>1. WriteInv(c)
    BY DEF IInv
  <2>2. QED
    BY <1>1, <2>1 DEF WriteInv, Accepts
<1>4. QED
  BY <1>2, <1>3, CallKept, CallStep DEF FindNothing

\* Both ways to end a write record what was written.
LEMMA WroteInv ==
  ASSUME IInv, NEW c \in Caller, pc[c] \in {"find", "insert"}
  PROVE  /\ Wrote(c) \in Write
         /\ \/ Wrote(c).key \in overlapped
            \/ Wrote(c).key = BuildKey(Wrote(c).name, template[Wrote(c).name], Wrote(c).parts)
  BY DEF IInv, WriteInv, Wrote, Write

LEMMA WriteRevisionInv ==
  ASSUME IInv, NEW c \in Caller, WriteRevision(c)
  PROVE  IInv'
<1>1. /\ UNCHANGED <<template, home, overlapped>> /\ written' = written \cup {Wrote(c)}
      /\ pc' = [pc EXCEPT ![c] = "idle"] /\ call' = [call EXCEPT ![c] = NoCall]
      /\ home[Wrote(c).key] # NoRow /\ pc[c] = "find"
  BY DEF WriteRevision, Leave, Goto, Wrote
<1>2. TypeOK'
  <2>1. NoCall \in Call
    BY DEF NoCall, Call
  <2>2. QED
    BY <1>1, <2>1, WroteInv DEF IInv, TypeOK
<1>3. FactInv'
  BY <1>1 DEF IInv, FactInv, Accepts
<1>4. WrittenInv'
  BY <1>1, WroteInv DEF IInv, WrittenInv
<1>5. ASSUME NEW d \in Caller PROVE ChangeInv(d)' /\ WriteInv(d)'
  <2>1. CASE d = c
    BY <1>1, <2>1 DEF IInv, TypeOK, ChangeInv, WriteInv
  <2>2. CASE d # c
    <3>1. pc'[d] = pc[d] /\ call'[d] = call[d]
      BY <1>1, <2>2 DEF IInv, TypeOK
    <3>2. QED
      BY <1>1, <3>1 DEF IInv, ChangeInv, WriteInv, Accepts
  <2>3. QED
    BY <2>1, <2>2
<1>6. QED
  BY <1>2, <1>3, <1>4, <1>5 DEF IInv

LEMMA InsertFactInv ==
  ASSUME IInv, NEW c \in Caller, InsertFact(c)
  PROVE  IInv'
<1> DEFINE k == call[c].key
           h == call[c].home
<1>1. /\ k \in Key /\ h \in Name /\ h # NoRow /\ template[h] # NoRow /\ home[k] = NoRow
      /\ k \in overlapped \/ Accepts(h, k)
  BY DEF IInv, WriteInv, InsertFact
<1>2. /\ template' = template /\ written' = written \cup {Wrote(c)}
      /\ home' = [home EXCEPT ![k] = h]
      /\ overlapped \subseteq overlapped' /\ overlapped' \subseteq overlapped \cup {k}
      /\ pc' = [pc EXCEPT ![c] = "idle"] /\ call' = [call EXCEPT ![c] = NoCall]
      /\ pc[c] = "insert" /\ Wrote(c).key = k
  BY DEF InsertFact, Leave, Goto, Wrote
<1>3. OpenChanges(h) # {} => k \in overlapped'
  BY DEF InsertFact
<1>4. home'[k] = h /\ \A j \in Key \ {k} : home'[j] = home[j]
  BY <1>1, <1>2 DEF IInv, TypeOK
<1>5. TypeOK'
  <2>1. NoCall \in Call
    BY DEF NoCall, Call
  <2>2. QED
    BY <1>1, <1>2, <2>1, WroteInv DEF IInv, TypeOK
<1>6. FactInv'
  BY <1>1, <1>2, <1>4 DEF IInv, FactInv, Accepts
<1>7. WrittenInv'
  <2> SUFFICES ASSUME NEW w \in written'
               PROVE  /\ home'[w.key] # NoRow
                      /\ \/ w.key \in overlapped'
                         \/ home'[w.key] # w.name
                         \/ w.key = BuildKey(w.name, template[w.name], w.parts)
    BY <1>2 DEF WrittenInv
  <2>1. CASE w \in written
    <3>1. w.key \in Key /\ home[w.key] # NoRow
      BY <2>1 DEF IInv, TypeOK, WrittenInv, Write
    <3>2. home'[w.key] = home[w.key]
      BY <1>1, <1>4, <3>1
    <3>3. QED
      BY <1>2, <2>1, <3>2 DEF IInv, WrittenInv
  <2>2. CASE w = Wrote(c)
    BY <1>1, <1>2, <1>4, <2>2, WroteInv
  <2>3. QED
    BY <1>2, <2>1, <2>2
<1>8. ASSUME NEW d \in Caller PROVE ChangeInv(d)' /\ WriteInv(d)'
  <2>1. CASE d = c
    BY <1>2, <2>1 DEF IInv, TypeOK, ChangeInv, WriteInv
  <2>2. CASE d # c
    <3>1. pc'[d] = pc[d] /\ call'[d] = call[d]
      BY <1>2, <2>2 DEF IInv, TypeOK
    <3>2. WriteInv(d)'
      BY <1>2, <3>1 DEF IInv, WriteInv, Accepts
    <3>3. ASSUME pc[d] = "update", NEW j \in Key, home'[j] = call[d].name
          PROVE  j \in overlapped'
      <4>1. CASE j = k
        <5>1. d \in OpenChanges(h)
          BY <1>4, <3>3, <4>1 DEF OpenChanges
        <5>2. QED
          BY <1>3, <4>1, <5>1
      <4>2. CASE j # k
        BY <1>2, <1>4, <3>3, <4>2 DEF IInv, ChangeInv
      <4>3. QED
        BY <4>1, <4>2
    <3>4. ChangeInv(d)'
      BY <3>1, <3>3 DEF IInv, ChangeInv
    <3>5. QED
      BY <3>2, <3>4
  <2>3. QED
    BY <2>1, <2>2
<1>9. QED
  BY <1>5, <1>6, <1>7, <1>8 DEF IInv

-----------------------------------------------------------------------------
(* The theorems. *)

LEMMA StepInv == IInv /\ [Next]_vars => IInv'
<1> SUFFICES ASSUME IInv, [Next]_vars PROVE IInv'
  OBVIOUS
<1>1. CASE UNCHANGED vars
  BY <1>1 DEF vars, IInv, TypeOK, FactInv, WrittenInv, ChangeInv, WriteInv, Accepts
<1>2. CASE Next
  <2>1. PICK c \in Caller :
          \/ \E n \in Name : \/ \E t \in Templates(n) : FindNamespace(c, n, t)
                             \/ \E p \in Parts : ResolveKey(c, n, p) \/ BuildFactKey(c, n, p)
          \/ CountFacts(c) \/ RefuseTemplate(c) \/ PutNamespace(c)
          \/ GiveKey(c) \/ ValidateKey(c) \/ RefuseKey(c)
          \/ WriteRevision(c) \/ FindNothing(c) \/ InsertFact(c) \/ Fail(c)
    BY <1>2 DEF Next
  <2>2. CASE \E n \in Name : \E t \in Templates(n) : FindNamespace(c, n, t)
    BY <2>2, FindNamespaceInv
  <2>3. CASE \E n \in Name : \E p \in Parts : ResolveKey(c, n, p) \/ BuildFactKey(c, n, p)
    BY <2>3, BuildInv DEF ResolveKey, BuildFactKey
  <2>4. CASE RefuseTemplate(c) \/ RefuseKey(c) \/ Fail(c)
    BY <2>4, DropInv DEF RefuseTemplate, RefuseKey, Fail
  <2>5. CASE CountFacts(c)
    BY <2>5, CountFactsInv
  <2>6. CASE PutNamespace(c)
    BY <2>6, PutNamespaceInv
  <2>7. CASE GiveKey(c)
    BY <2>7, GiveKeyInv
  <2>8. CASE ValidateKey(c)
    BY <2>8, ValidateKeyInv
  <2>9. CASE WriteRevision(c)
    BY <2>9, WriteRevisionInv
  <2>10. CASE FindNothing(c)
    BY <2>10, FindNothingInv
  <2>11. CASE InsertFact(c)
    BY <2>11, InsertFactInv
  <2>12. QED
    BY <2>1, <2>2, <2>3, <2>4, <2>5, <2>6, <2>7, <2>8, <2>9, <2>10, <2>11
<1>3. QED
  BY <1>1, <1>2

\* What the calls know agrees with the tables, whatever overlaps.
THEOREM Invariance == Spec => []IInv
  BY InitInv, StepInv, PTL DEF Spec

\* The variables of Namespaces have their types.
THEOREM TypeCorrect == Spec => []TypeOK
<1>1. IInv => TypeOK
  BY DEF IInv
<1>2. QED
  BY <1>1, Invariance, PTL

\* Every fact key matches the template of the namespace it is filed under, unless the
\* template changed while it was being written: count and refusal are enough for the rest.
THEOREM KeysMatch == Spec => []KeysMatchUnlessOverlapped
<1>1. IInv => KeysMatchUnlessOverlapped
  BY DEF IInv, FactInv, KeysMatchUnlessOverlapped
<1>2. QED
  BY <1>1, Invariance, PTL

\* Parts that have landed on a fact under the namespace they were given for land on no other.
THEOREM PartsAgree == Spec => []SamePartsOnceFiled
<1>1. IInv => SamePartsOnceFiled
  BY DEF IInv, WrittenInv, SamePartsOnceFiled
<1>2. QED
  BY <1>1, Invariance, PTL
=============================================================================
