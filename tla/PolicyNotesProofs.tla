-------------------------- MODULE PolicyNotesProofs --------------------------
(***************************************************************************)
(* Proofs about PolicyNotes, for every set of callers and texts, and any   *)
(* number of rows.                                                         *)
(***************************************************************************)
EXTENDS PolicyNotes, TLAPS

USE NobodyAssumption, NoTextAssumption, TextAssumption, MaxRowsAssumption

Place == {"idle", "dialog", "plan", "project", "create", "find", "flush", "commit"}

LEMMA AnyTextIsText == (CHOOSE t \in Text : TRUE) \in Text
  OBVIOUS

LEMMA NoNoteIsNote == NoNote \in Note /\ NoChange \in Change
  BY DEF NoNote, Note, NoChange, Change, Channel

LEMMA InitInv == Init => IInv
<1> SUFFICES ASSUME Init PROVE IInv
  OBVIOUS
<1>1. TypeOK
  <2>1. /\ project \in BOOLEAN /\ raced \in BOOLEAN
        /\ maker \in Caller \cup {Nobody} /\ lock \in Caller \cup {Nobody}
        /\ note \in Note /\ made \in 0..MaxRows /\ consents \in SUBSET Consent
    <3>1. project = FALSE /\ raced = FALSE /\ consents = {}
      BY DEF Init
    <3>2. maker = Nobody /\ lock = Nobody /\ note = NoNote /\ made = 0
      BY DEF Init
    <3>3. 0 \in 0..MaxRows
      OBVIOUS
    <3>4. QED
      BY <3>1, <3>2, <3>3, NoNoteIsNote
  <2>2. /\ pc \in [Caller -> Place]
        /\ text \in [Caller -> Text]
        /\ policy \in [Caller -> BOOLEAN]
        /\ via \in [Caller -> Channel]
    BY AnyTextIsText DEF Init, Place, Channel
  <2>3. change \in [Caller -> Change] /\ base \in [Caller -> Note]
    BY NoNoteIsNote DEF Init
  <2>4. QED
    BY <2>1, <2>2, <2>3 DEF TypeOK, Place
<1>2. NumberInv /\ PolicyHasDate /\ TextApprovedUnlessRaced /\ NoStrayProject
  BY DEF Init, NumberInv, PolicyHasDate, TextApprovedUnlessRaced, PolicyTextApproved,
         NoStrayProject, NoNote
<1>3. SoleInv
  BY DEF Init, SoleInv, Planned
<1>4. ASSUME NEW c \in Caller PROVE CallerInv(c)
  <2>1. pc[c] = "idle" /\ via[c] = "none" /\ lock # c
    BY DEF Init
  <2>2. QED
    BY <2>1 DEF CallerInv, LockInv, ProjectInv, ConsentInv, PlanInv, FreshInv, FoundInv,
                CommitInv, Planned
<1>5. QED
  BY <1>1, <1>2, <1>3, <1>4 DEF IInv

-----------------------------------------------------------------------------
(* What a step of one call leaves of the others. *)

\* The call of d stays as it is.
Kept(d) ==
  /\ pc'[d] = pc[d] /\ text'[d] = text[d] /\ policy'[d] = policy[d]
  /\ via'[d] = via[d] /\ change'[d] = change[d] /\ base'[d] = base[d]
  /\ lock' = d <=> lock = d
  /\ maker = d => maker' = d

\* A call is still in order after a step of another one that leaves the tables alone.
LEMMA KeptCall ==
  ASSUME IInv, NEW d \in Caller, Kept(d),
         UNCHANGED <<project, note, made>>,
         consents \subseteq consents', raced => raced'
  PROVE  CallerInv(d)'
<1>1. CallerInv(d)
  BY DEF IInv
<1>2. LockInv(d)' /\ ProjectInv(d)'
  BY <1>1 DEF CallerInv, LockInv, ProjectInv, Kept
<1>3. ConsentInv(d)' /\ PlanInv(d)'
  BY <1>1 DEF CallerInv, ConsentInv, PlanInv, Kept
<1>4. FreshInv(d)'
  BY <1>1 DEF CallerInv, FreshInv, Kept
<1>5. FoundInv(d)'
  BY <1>1 DEF CallerInv, FoundInv, Kept
<1>6. CommitInv(d)'
  BY <1>1 DEF CallerInv, CommitInv, Kept, Written, Checked
<1>7. QED
  BY <1>2, <1>3, <1>4, <1>5, <1>6 DEF CallerInv

\* What a step that leaves the tables alone has to show: the call it moves is in order.
LEMMA CallStep ==
  ASSUME IInv, NEW c \in Caller,
         UNCHANGED <<project, note, made>>,
         consents \subseteq consents', raced => raced',
         \A d \in Caller \ {c} : Kept(d),
         TypeOK', SoleInv', CallerInv(c)'
  PROVE  IInv'
<1>1. NumberInv' /\ PolicyHasDate' /\ NoStrayProject'
  BY DEF IInv, NumberInv, PolicyHasDate, NoStrayProject
<1>2. TextApprovedUnlessRaced'
  BY DEF IInv, TextApprovedUnlessRaced, PolicyTextApproved
<1>3. ASSUME NEW d \in Caller PROVE CallerInv(d)'
  <2>1. CASE d = c
    BY <2>1
  <2>2. CASE d # c
    BY <2>2, KeptCall
  <2>3. QED
    BY <2>1, <2>2
<1>4. QED
  BY <1>1, <1>2, <1>3 DEF IInv

\* A call that only moves on within what it has planned, or back, is no second one.
LEMMA SoleKept ==
  ASSUME IInv, NEW c \in Caller, raced => raced',
         \A d \in Caller \ {c} : pc'[d] = pc[d],
         pc'[c] \in Planned => pc[c] \in Planned
  PROVE  SoleInv'
  BY DEF IInv, SoleInv

\* A call that is over is in order.
LEMMA IdleCall ==
  ASSUME NEW c \in Caller, pc'[c] = "idle", via'[c] = "none", lock' # c
  PROVE  CallerInv(c)'
  BY DEF CallerInv, LockInv, ProjectInv, ConsentInv, PlanInv, FreshInv, FoundInv, CommitInv,
         Planned

-----------------------------------------------------------------------------
(* The end of a call. *)

LEMMA FinishFrame ==
  ASSUME TypeOK, NEW c \in Caller, Finish(c)
  PROVE  /\ \A d \in Caller \ {c} : Kept(d)
         /\ pc'[c] = "idle" /\ via'[c] = "none" /\ lock' # c
<1>1. ASSUME NEW d \in Caller \ {c} PROVE Kept(d)
  BY DEF TypeOK, Finish, Kept
<1>2. pc'[c] = "idle" /\ via'[c] = "none" /\ lock' # c
  BY DEF TypeOK, Finish
<1>3. QED
  BY <1>1, <1>2

LEMMA FinishType ==
  ASSUME TypeOK, NEW c \in Caller, Finish(c),
         project' \in BOOLEAN, note' \in Note, made' \in 0..MaxRows
  PROVE  TypeOK'
<1>1. pc' \in [Caller -> Place]
  BY DEF TypeOK, Finish, Place
<1>2. /\ text' \in [Caller -> Text]
      /\ policy' \in [Caller -> BOOLEAN]
      /\ via' \in [Caller -> Channel]
  BY AnyTextIsText DEF TypeOK, Finish, Channel
<1>3. /\ change' \in [Caller -> Change]
      /\ base' \in [Caller -> Note]
  BY NoNoteIsNote DEF TypeOK, Finish
<1>4. lock' \in Caller \cup {Nobody} /\ maker' \in Caller \cup {Nobody}
  BY DEF TypeOK, Finish
<1>5. consents' \in SUBSET Consent /\ raced' \in BOOLEAN
  BY DEF TypeOK, Finish
<1>6. QED
  BY <1>1, <1>2, <1>3, <1>4, <1>5 DEF TypeOK, Place

LEMMA DropInv ==
  ASSUME IInv, NEW c \in Caller, Drop(c)
  PROVE  IInv'
<1>1. TypeOK /\ Finish(c)
  BY DEF IInv, Drop
<1>2. UNCHANGED <<project, note, made, consents, raced>>
  BY DEF Drop, Finish
<1>3. TypeOK'
  BY <1>1, <1>2, FinishType DEF TypeOK
<1>4. /\ \A d \in Caller \ {c} : Kept(d)
      /\ pc'[c] = "idle" /\ via'[c] = "none" /\ lock' # c
  BY <1>1, FinishFrame
<1>5. SoleInv'
  BY <1>2, <1>4, SoleKept DEF Kept, Planned
<1>6. CallerInv(c)'
  BY <1>4, IdleCall
<1>7. QED
  BY <1>2, <1>3, <1>4, <1>5, <1>6, CallStep

-----------------------------------------------------------------------------
(* The MCP tool and the REST routes. *)

\* A call that has not planned has nothing to show but its channel's consent.
LEMMA UnplannedCall ==
  ASSUME NEW c \in Caller, pc'[c] \in {"idle", "dialog", "plan"}, lock' # c, ConsentInv(c)'
  PROVE  CallerInv(c)'
  BY DEF CallerInv, LockInv, ProjectInv, PlanInv, FreshInv, FoundInv, CommitInv, Planned

\* The request of c is taken: it is at l and would save t.
Requested(c, t, p, l, v) ==
  /\ \A d \in Caller \ {c} : Kept(d)
  /\ pc'[c] = l /\ text'[c] = t /\ policy'[c] = p /\ via'[c] = v
  /\ lock' # c
  /\ SoleInv'
  /\ UNCHANGED <<project, maker, note, made, lock, change, base, raced>>

LEMMA RequestFrame ==
  ASSUME IInv, NEW c \in Caller, NEW t \in Text, NEW p \in BOOLEAN,
         NEW l \in {"dialog", "plan"}, Request(c, t, p, l),
         NEW v \in Channel, via' = [via EXCEPT ![c] = v]
  PROVE  Requested(c, t, p, l, v)
<1>1. TypeOK /\ LockInv(c) /\ pc[c] = "idle"
  BY DEF IInv, CallerInv, Request
<1>2. UNCHANGED <<project, maker, note, made, lock, change, base, raced>>
  BY DEF Request
<1>3. ASSUME NEW d \in Caller \ {c} PROVE Kept(d)
  BY <1>1 DEF TypeOK, Request, Kept
<1>4. pc'[c] = l /\ text'[c] = t /\ policy'[c] = p /\ via'[c] = v
  BY <1>1 DEF TypeOK, Request
<1>5. lock' # c
  BY <1>1, <1>2 DEF LockInv
<1>6. SoleInv'
  BY <1>2, <1>3, <1>4, SoleKept DEF Kept, Planned
<1>7. QED
  BY <1>2, <1>3, <1>4, <1>5, <1>6 DEF Requested

LEMMA RequestType ==
  ASSUME TypeOK, NEW c \in Caller, NEW t \in Text, NEW p \in BOOLEAN,
         NEW l \in {"dialog", "plan"}, Request(c, t, p, l),
         via' \in [Caller -> Channel], consents' \in SUBSET Consent
  PROVE  TypeOK'
<1>1. pc' \in [Caller -> Place]
  BY DEF TypeOK, Request, Place
<1>2. text' \in [Caller -> Text] /\ policy' \in [Caller -> BOOLEAN]
  BY DEF TypeOK, Request
<1>3. QED
  BY <1>1, <1>2 DEF TypeOK, Request, Place

LEMMA AskInv ==
  ASSUME IInv, NEW c \in Caller, NEW t \in Text, NEW p \in BOOLEAN,
         AskNobody(c, t, p) \/ AskUser(c, t, p)
  PROVE  IInv'
<1>1. PICK l \in {"dialog", "plan"} : Request(c, t, p, l) /\ UNCHANGED <<via, consents>>
  BY DEF AskNobody, AskUser
<1>2. TypeOK /\ via[c] = "none"
  BY <1>1 DEF IInv, CallerInv, ConsentInv, Request
<1>3. "none" \in Channel /\ via' = [via EXCEPT ![c] = "none"]
  BY <1>1, <1>2 DEF TypeOK, Channel
<1>4. /\ \A d \in Caller \ {c} : Kept(d)
      /\ pc'[c] = l /\ via'[c] = "none" /\ lock' # c
      /\ SoleInv'
      /\ UNCHANGED <<project, note, made, raced>>
  <2>1. Request(c, t, p, l)
    BY <1>1
  <2>2. Requested(c, t, p, l, "none")
    BY <1>3, <2>1, RequestFrame
  <2>3. QED
    BY <1>1, <2>2 DEF Requested
<1>5. TypeOK'
  <2>1. via' \in [Caller -> Channel] /\ consents' \in SUBSET Consent
    BY <1>1, <1>2 DEF TypeOK
  <2>2. TypeOK /\ Request(c, t, p, l)
    BY <1>1, <1>2
  <2>3. QED
    BY <2>1, <2>2, RequestType
<1>6. CallerInv(c)'
  BY <1>4, UnplannedCall DEF ConsentInv
<1>7. QED
  BY <1>1, <1>4, <1>5, <1>6, CallStep

LEMMA PutNoteInv ==
  ASSUME IInv, NEW c \in Caller, NEW t \in Text, NEW p \in BOOLEAN, PutNote(c, t, p)
  PROVE  IInv'
<1>1. /\ Request(c, t, p, "plan")
      /\ via' = [via EXCEPT ![c] = "rest"] /\ "rest" \in Channel
      /\ consents' = consents \cup {[text |-> t, policy |-> p]}
  BY DEF PutNote, Channel
<1>2. TypeOK
  BY DEF IInv
<1>3. via' \in [Caller -> Channel] /\ consents' \in SUBSET Consent
  BY <1>1, <1>2 DEF TypeOK, Consent
<1>4. /\ \A d \in Caller \ {c} : Kept(d)
      /\ pc'[c] = "plan" /\ text'[c] = t /\ policy'[c] = p /\ lock' # c
      /\ SoleInv'
      /\ UNCHANGED <<project, note, made, raced>>
  <2>1. Requested(c, t, p, "plan", "rest")
    BY <1>1, RequestFrame
  <2>2. QED
    BY <2>1 DEF Requested
<1>5. TypeOK'
  BY <1>1, <1>2, <1>3, RequestType
<1>6. ConsentInv(c)'
  BY <1>1, <1>4 DEF ConsentInv
<1>7. CallerInv(c)'
  BY <1>4, <1>6, UnplannedCall
<1>8. QED
  BY <1>1, <1>4, <1>5, <1>7, CallStep

LEMMA AcceptInv ==
  ASSUME IInv, NEW c \in Caller, Accept(c)
  PROVE  IInv'
<1>1. TypeOK /\ LockInv(c)
  BY DEF IInv, CallerInv
<1>2. /\ UNCHANGED <<project, maker, note, made, lock, text, policy, change, base, raced>>
      /\ consents' = consents \cup {[text |-> text[c], policy |-> policy[c]]}
  BY DEF Accept
<1>3. TypeOK'
  <2>1. pc' \in [Caller -> Place] /\ via' \in [Caller -> Channel]
    BY <1>1 DEF TypeOK, Accept, Place, Channel
  <2>2. consents' \in SUBSET Consent
    BY <1>1, <1>2 DEF TypeOK, Consent
  <2>3. QED
    BY <1>1, <1>2, <2>1, <2>2 DEF TypeOK, Place
<1>4. \A d \in Caller \ {c} : Kept(d)
  BY <1>1 DEF TypeOK, Accept, Kept
<1>5. pc'[c] = "plan" /\ lock' # c
  BY <1>1 DEF TypeOK, Accept, LockInv
<1>6. ConsentInv(c)'
  BY <1>2, <1>5 DEF ConsentInv
<1>7. SoleInv'
  BY <1>2, <1>4, <1>5, SoleKept DEF Kept, Planned
<1>8. CallerInv(c)'
  BY <1>5, <1>6, UnplannedCall
<1>9. QED
  BY <1>2, <1>3, <1>4, <1>7, <1>8, CallStep

\* The note is there for good only as long as nobody deletes it; no call that has written it
\* and not committed is touched by that.
LEMMA DeleteNoteInv ==
  ASSUME IInv, NEW c \in Caller, DeleteNote(c)
  PROVE  IInv'
<1>1. TypeOK
  BY DEF IInv
<1>2. /\ note' = NoNote /\ lock = Nobody
      /\ UNCHANGED <<project, maker, made, lock, pc, text, policy, via, change, base,
                     consents, raced>>
  BY DEF DeleteNote, call
<1>3. TypeOK'
  BY <1>1, <1>2, NoNoteIsNote DEF TypeOK
<1>4. /\ NumberInv' /\ PolicyHasDate' /\ NoStrayProject' /\ SoleInv'
      /\ TextApprovedUnlessRaced'
  <2>1. note'.id = 0 /\ note'.policy = FALSE
    BY <1>2 DEF NoNote
  <2>2. NumberInv'
    BY <1>1, <1>2, <2>1 DEF NumberInv, TypeOK
  <2>3. PolicyHasDate' /\ TextApprovedUnlessRaced'
    BY <2>1 DEF PolicyHasDate, TextApprovedUnlessRaced, PolicyTextApproved
  <2>4. NoStrayProject' /\ SoleInv'
    BY <1>2 DEF IInv, NoStrayProject, SoleInv
  <2>5. QED
    BY <2>2, <2>3, <2>4
<1>5. ASSUME NEW d \in Caller PROVE CallerInv(d)'
  <2>1. CallerInv(d) /\ pc'[d] # "commit"
    BY <1>2 DEF IInv, CallerInv, LockInv
  <2>2. LockInv(d)' /\ ProjectInv(d)' /\ ConsentInv(d)' /\ PlanInv(d)'
    BY <1>2, <2>1 DEF CallerInv, LockInv, ProjectInv, ConsentInv, PlanInv
  <2>3. FreshInv(d)'
    BY <1>2, <2>1 DEF CallerInv, FreshInv, NoNote
  <2>4. FoundInv(d)'
    BY <1>2, <2>1 DEF CallerInv, FoundInv
  <2>5. CommitInv(d)'
    BY <2>1 DEF CommitInv
  <2>6. QED
    BY <2>2, <2>3, <2>4, <2>5 DEF CallerInv
<1>6. QED
  BY <1>3, <1>4, <1>5 DEF IInv

-----------------------------------------------------------------------------
(* upsert_note. *)

LEMMA PlanNoteInv ==
  ASSUME IInv, NEW c \in Caller, PlanNote(c)
  PROVE  IInv'
<1>1. TypeOK /\ CallerInv(c) /\ pc[c] = "plan"
  BY DEF IInv, PlanNote
<1>2. UNCHANGED <<project, maker, note, made, lock, consents, text, policy, via, base>>
  BY DEF PlanNote, Reads
<1> DEFINE r == [unchanged |-> Same(text[c], policy[c]),
                 needs     |-> NeedsApproval(text[c], policy[c])]
<1>3. r \in Change
  BY DEF Change, Same, NeedsApproval, Exists
<1>4. TypeOK'
  <2>1. pc' \in [Caller -> Place]
    BY <1>1 DEF TypeOK, PlanNote, Place
  <2>2. change' \in [Caller -> Change]
    BY <1>1, <1>3 DEF TypeOK, PlanNote
  <2>3. raced' \in BOOLEAN
    BY <1>1 DEF TypeOK, PlanNote
  <2>4. QED
    BY <1>1, <1>2, <2>1, <2>2, <2>3 DEF TypeOK, Place
<1>5. \A d \in Caller \ {c} : Kept(d)
  BY <1>1 DEF TypeOK, PlanNote, Reads, Kept
<1>6. /\ pc'[c] \in {"project", "find"}
      /\ pc'[c] = "find" => project
      /\ change'[c] = r
  BY <1>1 DEF TypeOK, PlanNote
<1>7. raced' <=> raced \/ \E d \in Caller : pc[d] \in Planned
  BY DEF PlanNote
<1>8. SoleInv'
  <2>1. SUFFICES ASSUME ~raced', NEW d \in Caller, NEW e \in Caller,
                        pc'[d] \in Planned, pc'[e] \in Planned
                 PROVE  d = e
    BY DEF SoleInv
  <2>2. \A f \in Caller \ {c} : pc'[f] \notin Planned
    BY <1>5, <1>7, <2>1 DEF Kept
  <2>3. QED
    BY <2>1, <2>2
<1>9. LockInv(c)' /\ ProjectInv(c)' /\ ConsentInv(c)' /\ FoundInv(c)' /\ CommitInv(c)'
  BY <1>1, <1>2, <1>6 DEF CallerInv, LockInv, ProjectInv, ConsentInv, FoundInv, CommitInv
<1>10. PlanInv(c)'
  <2>1. policy[c] => r.needs \/ r.unchanged
    BY DEF NeedsApproval
  <2>2. QED
    BY <1>2, <1>6, <2>1 DEF PlanInv
<1>11. FreshInv(c)'
  <2>1. SUFFICES ASSUME ~raced'
                 PROVE  /\ policy[c] /\ r.unchanged
                             => [text |-> text[c], policy |-> TRUE] \in consents
                        /\ note.policy /\ ~policy[c] => r.needs
    BY <1>2, <1>6 DEF FreshInv
  <2>2. PolicyTextApproved
    BY <1>7, <2>1 DEF IInv, TextApprovedUnlessRaced
  <2>3. policy[c] /\ r.unchanged => [text |-> text[c], policy |-> TRUE] \in consents
    BY <2>2 DEF Same, PolicyTextApproved
  <2>4. note.policy /\ ~policy[c] => r.needs
    BY DEF NeedsApproval, Same
  <2>5. QED
    BY <2>3, <2>4
<1>12. QED
  BY <1>2, <1>4, <1>5, <1>7, <1>8, <1>9, <1>10, <1>11, CallStep DEF CallerInv

\* A step of a call that has planned, within its plan.
LEMMA PlannedStep ==
  ASSUME IInv, NEW c \in Caller, NEW l \in Planned,
         UNCHANGED <<project, note, made, consents, text, policy, via, change, raced>>,
         pc[c] \in Planned \ {"commit"}, pc' = [pc EXCEPT ![c] = l],
         maker' \in Caller \cup {Nobody}, lock' \in Caller \cup {Nobody},
         base' \in [Caller -> Note],
         \A d \in Caller \ {c} : Kept(d),
         LockInv(c)', ProjectInv(c)', FoundInv(c)', CommitInv(c)'
  PROVE  IInv'
<1>1. TypeOK /\ CallerInv(c)
  BY DEF IInv
<1>2. TypeOK'
  BY <1>1 DEF TypeOK, Planned
<1>3. pc'[c] = l
  BY <1>1 DEF TypeOK
<1>4. SoleInv'
  BY <1>3, SoleKept DEF Kept
<1>5. ConsentInv(c)' /\ PlanInv(c)' /\ FreshInv(c)'
  BY <1>1, <1>3 DEF CallerInv, ConsentInv, PlanInv, FreshInv, Planned
<1>6. QED
  BY <1>2, <1>4, <1>5, CallStep DEF CallerInv

LEMMA FindProjectInv ==
  ASSUME IInv, NEW c \in Caller, FindProject(c)
  PROVE  IInv'
<1> DEFINE l == IF project THEN "find" ELSE "create"
<1>1. /\ TypeOK /\ LockInv(c) /\ pc[c] = "project" /\ pc' = [pc EXCEPT ![c] = l]
      /\ UNCHANGED <<project, maker, note, made, lock, consents, text, policy, via, change,
                     base, raced>>
  BY DEF IInv, CallerInv, FindProject, Reads, call
<1>2. \A d \in Caller \ {c} : Kept(d)
  BY <1>1 DEF TypeOK, Kept
<1>3. pc'[c] = l
  BY <1>1 DEF TypeOK
<1>4. LockInv(c)' /\ ProjectInv(c)' /\ FoundInv(c)' /\ CommitInv(c)'
  BY <1>1, <1>3 DEF LockInv, ProjectInv, FoundInv, CommitInv
<1>5. l \in Planned /\ pc[c] \in Planned \ {"commit"}
  BY <1>1 DEF Planned
<1>6. maker' \in Caller \cup {Nobody} /\ lock' \in Caller \cup {Nobody}
      /\ base' \in [Caller -> Note]
  BY <1>1 DEF TypeOK
<1> HIDE DEF l
<1>7. QED
  BY <1>1, <1>2, <1>4, <1>5, <1>6, PlannedStep

LEMMA InsertProjectInv ==
  ASSUME IInv, NEW c \in Caller, InsertProject(c)
  PROVE  IInv'
<1>1. /\ TypeOK /\ LockInv(c) /\ pc[c] = "create" /\ pc' = [pc EXCEPT ![c] = "find"]
      /\ maker = Nobody /\ maker' = c
      /\ UNCHANGED <<project, note, made, lock, consents, text, policy, via, change,
                     base, raced>>
  BY DEF IInv, CallerInv, InsertProject, call
<1>2. \A d \in Caller \ {c} : Kept(d)
  BY <1>1 DEF TypeOK, Kept
<1>3. pc'[c] = "find"
  BY <1>1 DEF TypeOK
<1>4. LockInv(c)' /\ ProjectInv(c)' /\ FoundInv(c)' /\ CommitInv(c)'
  BY <1>1, <1>3 DEF LockInv, ProjectInv, FoundInv, CommitInv
<1>5. "find" \in Planned /\ pc[c] \in Planned \ {"commit"}
  BY <1>1 DEF Planned
<1>6. maker' \in Caller \cup {Nobody} /\ lock' \in Caller \cup {Nobody}
      /\ base' \in [Caller -> Note]
  BY <1>1 DEF TypeOK
<1>7. QED
  BY <1>1, <1>2, <1>4, <1>5, <1>6, PlannedStep

LEMMA FindNoteInv ==
  ASSUME IInv, NEW c \in Caller, FindNote(c)
  PROVE  IInv'
<1>1. /\ TypeOK /\ CallerInv(c) /\ pc[c] = "find" /\ pc' = [pc EXCEPT ![c] = "flush"]
      /\ ~(change[c].unchanged /\ Exists)
      /\ change[c].needs => via[c] # "none"
      /\ base' = [base EXCEPT ![c] = note]
      /\ UNCHANGED <<project, maker, note, made, lock, consents, text, policy, via, change,
                     raced>>
  BY DEF IInv, FindNote, Reads
<1>2. \A d \in Caller \ {c} : Kept(d)
  BY <1>1 DEF TypeOK, Kept
<1>3. pc'[c] = "flush" /\ base'[c] = note
  BY <1>1 DEF TypeOK
<1>4. LockInv(c)' /\ ProjectInv(c)' /\ CommitInv(c)'
  BY <1>1, <1>3 DEF CallerInv, LockInv, ProjectInv, CommitInv
<1>5. FoundInv(c)'
  BY <1>1, <1>3 DEF IInv, NumberInv, FoundInv, Exists
<1>6. "flush" \in Planned /\ pc[c] \in Planned \ {"commit"}
  BY <1>1 DEF Planned
<1>7. maker' \in Caller \cup {Nobody} /\ lock' \in Caller \cup {Nobody}
      /\ base' \in [Caller -> Note]
  BY <1>1 DEF TypeOK
<1>8. QED
  BY <1>1, <1>2, <1>4, <1>5, <1>6, <1>7, PlannedStep

LEMMA FlushInv ==
  ASSUME IInv, NEW c \in Caller, Flush(c)
  PROVE  IInv'
<1>1. /\ TypeOK /\ CallerInv(c) /\ pc[c] = "flush" /\ pc' = [pc EXCEPT ![c] = "commit"]
      /\ lock = Nobody /\ lock' = c
      /\ note.id = base[c].id
      /\ base[c] = NoNote => made < MaxRows
      /\ Checked(Written(c))
      /\ UNCHANGED <<project, maker, note, made, consents, text, policy, via, change, base,
                     raced>>
  BY DEF IInv, Flush, call
<1>2. \A d \in Caller \ {c} : Kept(d)
  BY <1>1 DEF TypeOK, Kept
<1>3. pc'[c] = "commit"
  BY <1>1 DEF TypeOK
<1>4. LockInv(c)' /\ ProjectInv(c)' /\ FoundInv(c)'
  BY <1>1, <1>3 DEF CallerInv, LockInv, ProjectInv, FoundInv
<1>5. CommitInv(c)'
  BY <1>1, <1>3 DEF CommitInv, Checked, Written
<1>6. "commit" \in Planned /\ pc[c] \in Planned \ {"commit"}
  BY <1>1 DEF Planned
<1>7. maker' \in Caller \cup {Nobody} /\ lock' \in Caller \cup {Nobody}
      /\ base' \in [Caller -> Note]
  BY <1>1 DEF TypeOK
<1>8. QED
  BY <1>1, <1>2, <1>4, <1>5, <1>6, <1>7, PlannedStep

-----------------------------------------------------------------------------
(* The commit. *)

\* The number of the row that a call leaves: a new one, or that of the row there is.
LEMMA WrittenId ==
  ASSUME IInv, NEW c \in Caller, pc[c] = "commit"
  PROVE  /\ Written(c) \in Note
         /\ base[c] = NoNote => Written(c).id = made + 1
         /\ base[c] # NoNote => Written(c).id = note.id /\ note.id # 0 /\ note # NoNote
         /\ Written(c).id # 0
<1>1. TypeOK /\ CommitInv(c) /\ FoundInv(c) /\ NumberInv
  BY DEF IInv, CallerInv
<1>2. /\ text[c] \in Text /\ policy[c] \in BOOLEAN /\ via[c] \in Channel
      /\ base[c] \in Note /\ note \in Note /\ made \in 0..MaxRows
  BY <1>1 DEF TypeOK
<1>3. CASE base[c] = NoNote
  <2>1. made + 1 \in 0..MaxRows /\ made + 1 # 0
    BY <1>1, <1>2, <1>3 DEF CommitInv
  <2>2. Written(c).id = made + 1
    BY <1>3 DEF Written
  <2>3. Written(c) \in Note
    BY <1>2, <1>3, <2>1 DEF Written, Note, Channel
  <2>4. QED
    BY <1>3, <2>1, <2>2, <2>3
<1>4. CASE base[c] # NoNote
  <2>1. note.id = base[c].id /\ base[c].id # 0
    BY <1>1, <1>4 DEF CommitInv, FoundInv
  <2>2. Written(c).id = note.id
    BY <1>4 DEF Written
  <2>3. Written(c) \in Note
    BY <1>2, <1>4 DEF Written, Note, Channel
  <2>4. QED
    BY <1>1, <1>4, <2>1, <2>2, <2>3 DEF NumberInv
<1>5. QED
  BY <1>3, <1>4

\* As long as no upserts overlap, the call leaves the text and the flag it was asked for.
LEMMA WrittenUnlessRaced ==
  ASSUME IInv, NEW c \in Caller, pc[c] = "commit", ~raced
  PROVE  Written(c).text = text[c] /\ (Written(c).policy <=> policy[c])
<1>1. CASE base[c] = NoNote
  BY <1>1 DEF Written
<1>2. CASE base[c] # NoNote
  <2>1. note = base[c]
    BY <1>2, WrittenId DEF IInv, CallerInv, FoundInv
  <2>2. Written(c).text = text[c]
    BY <1>2, <2>1 DEF Written
  <2>3. Written(c).policy <=> policy[c]
    BY <1>2, <2>1 DEF Written
  <2>4. QED
    BY <2>2, <2>3
<1>3. QED
  BY <1>1, <1>2

\* And it has an approval: of the text as a policy, if it leaves one; of the text as none, if
\* it takes one away.
LEMMA CommitApproved ==
  ASSUME IInv, NEW c \in Caller, pc[c] = "commit", ~raced
  PROVE  /\ policy[c] => [text |-> text[c], policy |-> TRUE] \in consents
         /\ note.policy /\ ~policy[c] => [text |-> text[c], policy |-> FALSE] \in consents
<1>1. ConsentInv(c) /\ PlanInv(c) /\ FreshInv(c) /\ FoundInv(c) /\ TypeOK
  BY DEF IInv, CallerInv
<1>2. pc[c] \in Planned
  BY DEF Planned
<1>3. via[c] # "none" => [text |-> text[c], policy |-> policy[c]] \in consents
  BY <1>1 DEF ConsentInv
<1>4. change[c].needs => via[c] # "none"
  BY <1>1 DEF FoundInv
<1>5. ASSUME policy[c] PROVE [text |-> text[c], policy |-> TRUE] \in consents
  <2>1. change[c].needs \/ change[c].unchanged
    BY <1>1, <1>2, <1>5 DEF PlanInv
  <2>2. CASE change[c].unchanged
    BY <1>1, <1>2, <1>5, <2>2 DEF FreshInv
  <2>3. CASE change[c].needs
    <3>1. policy[c] = TRUE
      BY <1>1, <1>5 DEF TypeOK
    <3>2. QED
      BY <1>3, <1>4, <2>3, <3>1
  <2>4. QED
    BY <2>1, <2>2, <2>3
<1>6. ASSUME note.policy, ~policy[c] PROVE [text |-> text[c], policy |-> FALSE] \in consents
  <2>1. change[c].needs
    BY <1>1, <1>2, <1>6 DEF FreshInv
  <2>2. policy[c] = FALSE
    BY <1>1, <1>6 DEF TypeOK
  <2>3. QED
    BY <1>3, <1>4, <2>1, <2>2
<1>7. QED
  BY <1>5, <1>6

\* The calls that a commit meets hold no lock, and are past their plan only in a race.
LEMMA CommitOthers ==
  ASSUME IInv, NEW c \in Caller, Commit(c), NEW d \in Caller \ {c}
  PROVE  CallerInv(d)'
<1>1. TypeOK /\ CallerInv(d) /\ LockInv(c) /\ SoleInv /\ pc[c] = "commit" /\ Finish(c)
  BY DEF IInv, CallerInv, Commit
<1>2. Kept(d) /\ UNCHANGED <<consents, raced>> /\ project' = (project \/ maker = c)
  <2>1. Kept(d)
    BY <1>1, FinishFrame
  <2>2. QED
    BY <1>1, <2>1 DEF Finish, Commit
<1>3. pc[d] # "commit"
  BY <1>1 DEF CallerInv, LockInv
<1>4. pc[d] \in Planned => raced
  BY <1>1 DEF SoleInv, Planned
<1>5. LockInv(d)' /\ ProjectInv(d)'
  BY <1>1, <1>2 DEF CallerInv, LockInv, ProjectInv, Kept
<1>6. ConsentInv(d)' /\ PlanInv(d)'
  BY <1>1, <1>2 DEF CallerInv, ConsentInv, PlanInv, Kept
<1>7. FreshInv(d)' /\ CommitInv(d)'
  BY <1>2, <1>3, <1>4 DEF FreshInv, CommitInv, Kept
<1>8. FoundInv(d)'
  BY <1>1, <1>2, <1>4 DEF CallerInv, FoundInv, Kept, Planned
<1>9. QED
  BY <1>5, <1>6, <1>7, <1>8 DEF CallerInv

LEMMA CommitIInv ==
  ASSUME IInv, NEW c \in Caller, Commit(c)
  PROVE  IInv'
<1>1. TypeOK /\ NumberInv /\ CommitInv(c) /\ pc[c] = "commit" /\ Finish(c)
  BY DEF IInv, CallerInv, Commit
<1>2. /\ note' = Written(c)
      /\ made' = IF base[c] = NoNote THEN made + 1 ELSE made
      /\ project' = (project \/ maker = c)
      /\ UNCHANGED <<consents, raced>>
  BY <1>1 DEF Commit, Finish
<1>3. /\ Written(c) \in Note /\ Written(c).id # 0
      /\ base[c] = NoNote => Written(c).id = made + 1
      /\ base[c] # NoNote => Written(c).id = note.id /\ note.id # 0
  BY <1>1, WrittenId
<1>4. made' \in 0..MaxRows /\ note'.id <= made' /\ made' > 0
  <2>1. made \in 0..MaxRows /\ note.id \in 0..MaxRows /\ note.id <= made
    BY <1>1 DEF TypeOK, Note, NumberInv
  <2>2. base[c] = NoNote => made < MaxRows
    BY <1>1 DEF CommitInv
  <2>3. CASE base[c] = NoNote
    BY <1>2, <1>3, <2>1, <2>2, <2>3
  <2>4. CASE base[c] # NoNote
    BY <1>2, <1>3, <2>1, <2>4
  <2>5. QED
    BY <2>3, <2>4
<1>5. TypeOK'
  <2>1. project' \in BOOLEAN /\ note' \in Note
    BY <1>1, <1>2, <1>3 DEF TypeOK
  <2>2. QED
    BY <1>1, <1>4, <2>1, FinishType
<1>6. NumberInv' /\ NoStrayProject'
  BY <1>2, <1>3, <1>4 DEF NumberInv, NoStrayProject, NoNote
<1>7. PolicyHasDate'
  BY <1>1, <1>2 DEF CommitInv, Checked, PolicyHasDate
<1>8. TextApprovedUnlessRaced'
  <2>1. SUFFICES ASSUME ~raced, Written(c).policy
                 PROVE  [text |-> Written(c).text, policy |-> TRUE] \in consents
    BY <1>2 DEF TextApprovedUnlessRaced, PolicyTextApproved
  <2>2. Written(c).text = text[c] /\ policy[c]
    BY <1>1, <2>1, WrittenUnlessRaced
  <2>3. [text |-> text[c], policy |-> TRUE] \in consents
    BY <1>1, <2>1, <2>2, CommitApproved
  <2>4. QED
    BY <2>2, <2>3
<1>9. /\ \A d \in Caller \ {c} : Kept(d)
      /\ pc'[c] = "idle" /\ via'[c] = "none" /\ lock' # c
  BY <1>1, FinishFrame
<1>10. SoleInv'
  BY <1>2, <1>9, SoleKept DEF Kept, Planned
<1>11. ASSUME NEW d \in Caller PROVE CallerInv(d)'
  <2>1. CASE d = c
    BY <1>9, <2>1, IdleCall
  <2>2. CASE d # c
    BY <2>2, CommitOthers
  <2>3. QED
    BY <2>1, <2>2
<1>12. QED
  BY <1>5, <1>6, <1>7, <1>8, <1>10, <1>11 DEF IInv

-----------------------------------------------------------------------------
(* Every step. *)

LEMMA StepInv ==
  ASSUME IInv, NEW c \in Caller, Step(c)
  PROVE  IInv'
<1>1. CASE Accept(c)
  BY <1>1, AcceptInv
<1>2. CASE DeleteNote(c)
  BY <1>2, DeleteNoteInv
<1>3. CASE PlanNote(c)
  BY <1>3, PlanNoteInv
<1>4. CASE FindProject(c)
  BY <1>4, FindProjectInv
<1>5. CASE InsertProject(c)
  BY <1>5, InsertProjectInv
<1>6. CASE Decline(c) \/ ProjectTaken(c) \/ Unchanged(c) \/ Refuse(c) \/ FlushFails(c) \/ Fail(c)
  <2>1. Drop(c)
    BY <1>6 DEF Decline, ProjectTaken, Unchanged, Refuse, FlushFails, Fail
  <2>2. QED
    BY <2>1, DropInv
<1>7. CASE FindNote(c)
  BY <1>7, FindNoteInv
<1>8. CASE Flush(c)
  BY <1>8, FlushInv
<1>9. CASE Commit(c)
  BY <1>9, CommitIInv
<1>10. QED
  BY <1>1, <1>2, <1>3, <1>4, <1>5, <1>6, <1>7, <1>8, <1>9 DEF Step

LEMMA NextInv == IInv /\ [Next]_vars => IInv'
<1> SUFFICES ASSUME IInv, [Next]_vars PROVE IInv'
  OBVIOUS
<1>1. ASSUME NEW c \in Caller, NEW t \in Text, NEW p \in BOOLEAN,
             AskNobody(c, t, p) \/ AskUser(c, t, p) \/ PutNote(c, t, p)
      PROVE  IInv'
  BY <1>1, AskInv, PutNoteInv
<1>2. ASSUME NEW c \in Caller, Step(c) PROVE IInv'
  BY <1>2, StepInv
<1>3. CASE UNCHANGED vars
  <2>1. UNCHANGED <<project, maker, note, made, lock, pc, text, policy, via, change, base,
                    consents, raced>>
    BY <1>3 DEF vars, call
  <2>2. TypeOK' /\ SoleInv' /\ NumberInv' /\ PolicyHasDate' /\ NoStrayProject'
    BY <2>1 DEF IInv, TypeOK, SoleInv, NumberInv, PolicyHasDate, NoStrayProject
  <2>3. TextApprovedUnlessRaced'
    BY <2>1 DEF IInv, TextApprovedUnlessRaced, PolicyTextApproved
  <2>4. \A d \in Caller : CallerInv(d)'
    BY <2>1, KeptCall DEF Kept
  <2>5. QED
    BY <2>2, <2>3, <2>4 DEF IInv
<1>4. QED
  BY <1>1, <1>2, <1>3 DEF Next

LEMMA Invariance == Spec => []IInv
<1>1. Init => IInv
  BY InitInv
<1>2. IInv /\ [Next]_vars => IInv'
  BY NextInv
<1>3. QED
  BY <1>1, <1>2, PTL DEF Spec

-----------------------------------------------------------------------------
(* The theorems. *)

\* The state of an upsert stays what its types say.
THEOREM TypeCorrect == Spec => []TypeOK
<1>1. IInv => TypeOK
  BY DEF IInv
<1>2. QED
  BY <1>1, Invariance, PTL

\* A policy always has the time of its approval, also after upserts that overlap.
THEOREM PoliciesHaveDates == Spec => []PolicyHasDate
<1>1. IInv => PolicyHasDate
  BY DEF IInv
<1>2. QED
  BY <1>1, Invariance, PTL

\* As long as no two upserts of the note overlap, the text of a policy is one the user
\* approved as a policy, however late the dialog is answered or the save is sent.
THEOREM PolicyTextsAreApproved == Spec => []TextApprovedUnlessRaced
<1>1. IInv => TextApprovedUnlessRaced
  BY DEF IInv
<1>2. QED
  BY <1>1, Invariance, PTL

\* First calls that race leave one project, and nobody works in one that may be taken back.
THEOREM CallsWorkInAProject == Spec => []WorksInAProject
<1>1. IInv => WorksInAProject
  BY DEF IInv, CallerInv, ProjectInv, WorksInAProject
<1>2. QED
  BY <1>1, Invariance, PTL

\* A project that upsert_note makes comes with its first note.
THEOREM ProjectsHaveHadANote == Spec => []NoStrayProject
<1>1. IInv => NoStrayProject
  BY DEF IInv
<1>2. QED
  BY <1>1, Invariance, PTL

\* The only step that leaves another row than it found is a commit, or a delete.
LEMMA NoteIsCommitted ==
  ASSUME [Next]_vars, note' # note, note' # NoNote
  PROVE  \E c \in Caller : Commit(c)
<1>1. ASSUME NEW c \in Caller, NEW t \in Text, NEW p \in BOOLEAN,
             AskNobody(c, t, p) \/ AskUser(c, t, p) \/ PutNote(c, t, p)
      PROVE  FALSE
  BY <1>1 DEF AskNobody, AskUser, PutNote, Request
<1>2. ASSUME NEW c \in Caller, Step(c) PROVE Commit(c)
  BY <1>2 DEF Step, Accept, Decline, DeleteNote, PlanNote, FindProject, InsertProject,
              ProjectTaken, Unchanged, Refuse, FindNote, Flush, FlushFails, Fail, Drop, Reads
<1>3. CASE UNCHANGED vars
  BY <1>3 DEF vars
<1>4. QED
  BY <1>1, <1>2, <1>3 DEF Next

\* As long as no two upserts of the note overlap, a policy stops being one, other than by
\* deletion, only as the user approved.
THEOREM UnbindingIsApproved == Spec => UnbindApprovedUnlessRaced
<1>1. ASSUME IInv, [Next]_vars, SameRow, note.policy, ~note'.policy, ~raced
      PROVE  [text |-> note'.text, policy |-> FALSE] \in consents
  <2>1. PICK c \in Caller : Commit(c)
    BY <1>1, NoteIsCommitted DEF SameRow
  <2>2. pc[c] = "commit" /\ note' = Written(c)
    BY <2>1 DEF Commit
  <2>3. note'.text = text[c] /\ ~policy[c]
    BY <1>1, <2>2, WrittenUnlessRaced
  <2>4. QED
    BY <1>1, <2>2, <2>3, CommitApproved
<1>2. IInv /\ [Next]_vars
        => [SameRow /\ note.policy /\ ~note'.policy
              => raced \/ [text |-> note'.text, policy |-> FALSE] \in consents]_vars
  BY <1>1
<1>3. QED
  BY <1>2, Invariance, PTL DEF Spec, UnbindApprovedUnlessRaced

\* A note that is no policy is made one only by a call that carries an approval, also when
\* upserts overlap.
THEOREM BindingIsApproved == Spec => BindNeedsApproval
<1>1. ASSUME IInv, [Next]_vars, SameRow, ~note.policy, note'.policy
      PROVE  \E c \in Caller : pc[c] = "commit" /\ via[c] # "none" /\ policy[c]
  <2>1. PICK c \in Caller : Commit(c)
    BY <1>1, NoteIsCommitted DEF SameRow
  <2>2. pc[c] = "commit" /\ note' = Written(c)
    BY <2>1 DEF Commit
  <2>3. base[c] # NoNote
    <3>1. SUFFICES ASSUME base[c] = NoNote PROVE FALSE
      OBVIOUS
    <3>2. note'.id = made + 1
      BY <1>1, <2>2, <3>1, WrittenId
    <3>3. note.id \in Nat /\ made \in Nat /\ note.id <= made
      BY <1>1 DEF IInv, TypeOK, Note, NumberInv
    <3>4. QED
      BY <1>1, <3>2, <3>3 DEF SameRow
  <2>4. policy[c]
    BY <1>1, <2>2, <2>3 DEF Written
  <2>5. PlanInv(c) /\ FoundInv(c)
    BY <1>1 DEF IInv, CallerInv
  <2>6. change[c].needs
    BY <2>2, <2>3, <2>4, <2>5 DEF PlanInv, FoundInv, Planned
  <2>7. via[c] # "none"
    BY <2>2, <2>5, <2>6 DEF FoundInv
  <2>8. QED
    BY <2>2, <2>4, <2>7
<1>2. IInv /\ [Next]_vars
        => [SameRow /\ ~note.policy /\ note'.policy
              => \E c \in Caller : pc[c] = "commit" /\ via[c] # "none" /\ policy[c]]_vars
  BY <1>1
<1>3. QED
  BY <1>2, Invariance, PTL DEF Spec, BindNeedsApproval
=============================================================================
