------------------------- MODULE EmbedBackfillProofs -------------------------
(***************************************************************************)
(* The safety of the vectors, for any number of facts and callers, any     *)
(* batch and any set of refused facts: a vector is of its fact's text      *)
(* unless the write overlapped, and with batches of at least one row exit  *)
(* 0 means complete.                                                       *)
(***************************************************************************)
EXTENDS EmbedBackfill, FiniteSetTheorems, TLAPS

LEMMA InitLemma == Init => IInv
<1> SUFFICES ASSUME Init PROVE IInv
  OBVIOUS
<1>1. TypeOK
  <2>1. 0 \in 0..MaxRev /\ 0 \in Nat
    BY MaxRevAssumption
  <2>2. NoText \in [Fact -> 0..MaxRev]
    BY <2>1 DEF NoText
  <2>3. rev \in [Fact -> 0..MaxRev] /\ vec \in [Fact -> 0..MaxRev]
    BY <2>1 DEF Init
  <2>4. /\ lock \in [Fact -> Writer \cup {Script, Free}]
        /\ want \in [Writer -> Fact \cup {0}]
    BY DEF Init
  <2>5. QED
    BY <2>1, <2>2, <2>3, <2>4 DEF Init, TypeOK
<1>2. BatchInv /\ VectorOfTextUnlessOverlapped /\ ExitZeroMeansComplete
  BY DEF Init, BatchInv, VectorOfTextUnlessOverlapped, ExitZeroMeansComplete, NoText
<1>3. LockInv
  BY OwnerAssumption DEF Init, LockInv
<1>4. QED
  BY <1>1, <1>2, <1>3 DEF IInv

\* A step that leaves the facts, the script's session and the history alone: it only takes
\* or gives up locks, and a call locks a fact that can still get a revision.
LEMMA QuietLemma ==
  ASSUME IInv, UNCHANGED <<facts, session, history>>,
         lock' \in [Fact -> Writer \cup {Script, Free}],
         want' \in [Writer -> Fact \cup {0}],
         serverOn' \in BOOLEAN,
         \A k \in Fact : lock'[k] \in Writer => rev[k] < MaxRev
  PROVE  IInv'
<1>1. TypeOK'
  BY DEF IInv, TypeOK, facts, session, history, counters
<1>2. BatchInv'
  BY DEF IInv, BatchInv, NoText, facts, session, history
<1>3. VectorOfTextUnlessOverlapped' /\ ExitZeroMeansComplete'
  BY DEF IInv, VectorOfTextUnlessOverlapped, ExitZeroMeansComplete, Missing,
         facts, session, history, counters
<1>4. LockInv'
  BY DEF LockInv, facts
<1>5. QED
  BY <1>1, <1>2, <1>3, <1>4 DEF IInv

\* Giving up locks leaves a well-formed lock table, and no lock that was not there.
LEMMA ReleaseLemma ==
  ASSUME IInv, NEW P, lock' = Released(P)
  PROVE  /\ lock' \in [Fact -> Writer \cup {Script, Free}]
         /\ \A k \in Fact : lock'[k] \in Writer => lock[k] = lock'[k] /\ lock[k] \notin P
BY OwnerAssumption DEF IInv, TypeOK, Released

\* The locks that a call takes, waits for or gives up.
LEMMA CallLocksLemma ==
  ASSUME IInv, NEW w \in Writer,
         \/ \E k \in Fact : WriteFact(w, k) \/ WriteWaits(w, k)
         \/ RefuseWrite(w) \/ FailCall(w)
  PROVE  IInv'
<1>1. ASSUME NEW k \in Fact, WriteFact(w, k)
      PROVE  IInv'
  <2>1. lock' \in [Fact -> Writer \cup {Script, Free}] /\ want' \in [Writer -> Fact \cup {0}]
    BY <1>1 DEF WriteFact, IInv, TypeOK
  <2>2. \A j \in Fact : lock'[j] \in Writer => rev[j] < MaxRev
    BY <1>1 DEF WriteFact, IInv, TypeOK, LockInv
  <2>3. serverOn' \in BOOLEAN
    BY <1>1 DEF WriteFact, IInv, TypeOK
  <2>4. QED
    BY <1>1, <2>1, <2>2, <2>3, QuietLemma DEF WriteFact
<1>2. ASSUME NEW k \in Fact, WriteWaits(w, k)
      PROVE  IInv'
  BY <1>2, QuietLemma DEF WriteWaits, IInv, TypeOK, LockInv
<1>3. CASE RefuseWrite(w)
  BY <1>3, QuietLemma DEF RefuseWrite, IInv, TypeOK, LockInv
<1>4. CASE FailCall(w)
  <2>1. lock' = Released({w}) /\ want' \in [Writer -> Fact \cup {0}]
    BY <1>4 DEF FailCall, EndCall, IInv, TypeOK
  <2>2. \A j \in Fact : lock'[j] \in Writer => rev[j] < MaxRev
    BY <2>1, ReleaseLemma DEF IInv, LockInv
  <2>3. serverOn' \in BOOLEAN
    BY <1>4 DEF FailCall, IInv, TypeOK
  <2>4. QED
    BY <1>4, <2>1, <2>2, <2>3, ReleaseLemma, QuietLemma DEF FailCall
<1>5. QED
  BY <1>1, <1>2, <1>3, <1>4

\* A commit gives each written fact a new revision, with the vector of its text or with none.
\* A fact whose replaced text the script holds is one that the write has overlapped.
LEMMA CommitCallLemma ==
  ASSUME IInv, NEW w \in Writer, CommitCall(w)
  PROVE  IInv'
<1> DEFINE written == Held(w)
<1>1. /\ rev' = [k \in Fact |-> IF k \in written THEN rev[k] + 1 ELSE rev[k]]
      /\ vec' = [k \in Fact |-> IF k \in written THEN IF serverOn THEN rev[k] + 1 ELSE 0
                                                 ELSE vec[k]]
      /\ during' = (during \ written) \cup {k \in written : text[k] # 0}
      /\ late' = IF serverOn THEN late \ written ELSE late \cup written
      /\ UNCHANGED <<serverOn, script, text, waiting, made, done, failed>>
      /\ lock' = Released({w}) /\ want' = [want EXCEPT ![w] = 0]
  BY DEF CommitCall, EndCall, session, counters
<1>2. written \subseteq Fact /\ \A k \in written : rev[k] < MaxRev
  BY DEF Held, IInv, LockInv
<1>3. \A k \in Fact \ written : rev'[k] = rev[k] /\ vec'[k] = vec[k]
  BY <1>1
<1>4. \A k \in written : /\ rev'[k] = rev[k] + 1 /\ rev'[k] \in 1..MaxRev
                         /\ vec'[k] = IF serverOn THEN rev'[k] ELSE 0
  BY <1>1, <1>2, MaxRevAssumption DEF IInv, TypeOK
<1>5. /\ \A k \in Fact : lock'[k] \in Writer => lock[k] = lock'[k] /\ k \notin written
      /\ lock' \in [Fact -> Writer \cup {Script, Free}]
  BY <1>1, ReleaseLemma DEF Held
<1> HIDE DEF written
<1>6. TypeOK'
  <2>1. rev' \in [Fact -> 0..MaxRev] /\ vec' \in [Fact -> 0..MaxRev]
    <3>1. \A k \in Fact : rev'[k] \in 0..MaxRev /\ vec'[k] \in 0..MaxRev
      <4>1. ASSUME NEW k \in Fact PROVE rev'[k] \in 0..MaxRev /\ vec'[k] \in 0..MaxRev
        <5>1. CASE k \in written
          BY <5>1, <1>4, MaxRevAssumption
        <5>2. CASE k \notin written
          BY <5>2, <1>3 DEF IInv, TypeOK
        <5>3. QED
          BY <5>1, <5>2
      <4>2. QED
        BY <4>1
    <3>2. QED
      BY <3>1, <1>1
  <2>2. during' \in SUBSET Fact /\ late' \in SUBSET Fact
    BY <1>1, <1>2 DEF IInv, TypeOK
  <2>3. want' \in [Writer -> Fact \cup {0}]
    BY <1>1 DEF IInv, TypeOK
  <2>4. QED
    BY <1>1, <1>5, <2>1, <2>2, <2>3 DEF IInv, TypeOK
<1>7. BatchInv'
  <2>1. ASSUME NEW k \in Fact, text[k] # 0
        PROVE  text[k] = rev'[k] \/ k \in during'
    <3>1. CASE k \in written
      BY <3>1, <2>1, <1>1
    <3>2. CASE k \notin written
      BY <3>2, <2>1, <1>1, <1>3 DEF IInv, BatchInv
    <3>3. QED
      BY <3>1, <3>2
  <2>2. QED
    BY <2>1, <1>1 DEF IInv, BatchInv, NoText
<1>8. LockInv'
  BY <1>3, <1>5 DEF IInv, LockInv
<1>9. VectorOfTextUnlessOverlapped'
  <2>1. ASSUME NEW k \in Fact
        PROVE  vec'[k] \in {0, rev'[k]} \/ k \in during'
    <3>1. CASE k \in written
      BY <3>1, <1>4
    <3>2. CASE k \notin written
      BY <3>2, <1>1, <1>3 DEF IInv, VectorOfTextUnlessOverlapped
    <3>3. QED
      BY <3>1, <3>2
  <2>2. QED
    BY <2>1 DEF VectorOfTextUnlessOverlapped
<1>10. ExitZeroMeansComplete'
  <2>1. ASSUME Batch # 0, script = "ended", failed = 0, NEW k \in Fact, rev'[k] # 0, vec'[k] = 0
        PROVE  k \in late'
    <3>1. CASE k \in written
      BY <3>1, <2>1, <1>1, <1>4
    <3>2. CASE k \notin written
      BY <3>2, <2>1, <1>1, <1>3 DEF IInv, ExitZeroMeansComplete, Missing
    <3>3. QED
      BY <3>1, <3>2
  <2>2. QED
    BY <2>1, <1>1 DEF ExitZeroMeansComplete, Missing
<1>11. QED
  BY <1>6, <1>7, <1>8, <1>9, <1>10 DEF IInv

\* The script starts, and asks for one embedding after the other.
LEMMA StartLemma ==
  ASSUME IInv, Start
  PROVE  IInv'
BY DEF Start, IInv, TypeOK, BatchInv, LockInv, NoText, VectorOfTextUnlessOverlapped,
       ExitZeroMeansComplete, facts, calls, history

LEMMA AskedLemma ==
  ASSUME IInv, NEW k \in Fact, Embed(k) \/ EmbedFails(k)
  PROVE  IInv'
<1>1. /\ k \in waiting /\ waiting' = waiting \ {k} /\ made' \in {made, made \cup {k}}
      /\ script = "embed" /\ script' \in {"flush", "embed"}
      /\ UNCHANGED <<rev, vec, lock, want, serverOn, text, during, late>>
  BY DEF Embed, EmbedFails, Asked, facts, calls, history
<1>2. done' \in Nat /\ failed' \in Nat
  BY DEF Embed, EmbedFails, IInv, TypeOK
<1>3. TypeOK'
  BY <1>1, <1>2 DEF IInv, TypeOK
<1>4. BatchInv'
  BY <1>1 DEF IInv, BatchInv
<1>5. LockInv' /\ VectorOfTextUnlessOverlapped' /\ ExitZeroMeansComplete'
  BY <1>1 DEF IInv, LockInv, VectorOfTextUnlessOverlapped, ExitZeroMeansComplete
<1>6. QED
  BY <1>3, <1>4, <1>5 DEF IInv

\* What is selected is the present text of facts that have no vector.
LEMMA SelectLemma ==
  ASSUME IInv, Select
  PROVE  IInv'
<1>1. /\ script = "select" /\ late' = {}
      /\ UNCHANGED <<rev, vec, lock, want, serverOn, made, done, failed>>
      /\ text = NoText /\ waiting = {} /\ made = {}
  BY DEF Select, facts, calls, counters, IInv, BatchInv
<1>2. LockInv'
  BY <1>1 DEF IInv, LockInv
<1>3. PICK rows \in SUBSET Missing :
        /\ Cardinality(rows) = Batch \/ (rows = Missing /\ Cardinality(rows) < Batch)
        /\ script' = IF rows = {} THEN "ended" ELSE "embed"
        /\ text' = [k \in Fact |-> IF k \in rows THEN rev[k] ELSE 0]
        /\ waiting' = rows
        /\ during' = during \ rows
  BY DEF Select
<1>4. \A k \in rows : k \in Fact /\ rev[k] # 0 /\ vec[k] = 0
  BY DEF Missing
<1>5. TypeOK'
  <2>1. text' \in [Fact -> 0..MaxRev]
    BY <1>3, MaxRevAssumption DEF IInv, TypeOK
  <2>2. QED
    BY <1>1, <1>3, <1>4, <2>1 DEF IInv, TypeOK
<1>6. BatchInv'
  <2>1. rows = {} => text' = NoText
    BY <1>3 DEF NoText
  <2>2. QED
    BY <1>1, <1>3, <1>4, <2>1 DEF BatchInv
<1>7. VectorOfTextUnlessOverlapped'
  BY <1>1, <1>3, <1>4 DEF IInv, VectorOfTextUnlessOverlapped
<1>8. ExitZeroMeansComplete'
  <2>1. Batch # 0 /\ rows = {} => Missing = {}
    BY <1>3, FS_EmptySet
  <2>2. QED
    BY <1>1, <1>3, <2>1 DEF ExitZeroMeansComplete, Missing
<1>9. QED
  BY <1>2, <1>5, <1>6, <1>7, <1>8 DEF IInv

\* The flush takes one more lock.
LEMMA UpdateLemma ==
  ASSUME IInv, Update
  PROVE  IInv'
<1>1. lock' \in [Fact -> Writer \cup {Script, Free}]
  BY DEF Update, IInv, TypeOK
<1>2. \A k \in Fact : lock'[k] \in Writer => rev[k] < MaxRev
  BY OwnerAssumption DEF Update, IInv, TypeOK, LockInv
<1>3. QED
  BY <1>1, <1>2, QuietLemma DEF Update, calls, IInv, TypeOK

\* The vectors that are committed are of the texts that were selected: those that are no
\* longer the facts' texts were replaced while the script held them.
LEMMA CommitBatchLemma ==
  ASSUME IInv, CommitBatch
  PROVE  IInv'
<1>1. /\ script = "flush" /\ script' \in {"select", "ended"}
      /\ script' = "ended" => failed > 0
      /\ vec' = [k \in Fact |-> IF k \in made THEN text[k] ELSE vec[k]]
      /\ lock' = Released({Script})
      /\ text' = NoText /\ waiting' = {} /\ made' = {}
      /\ UNCHANGED <<rev, want, serverOn, done, failed, during, late>>
  BY DEF CommitBatch, EndRound, calls, counters, history
<1>2. TypeOK'
  <2>1. NoText \in [Fact -> 0..MaxRev]
    BY MaxRevAssumption DEF NoText
  <2>2. vec' \in [Fact -> 0..MaxRev]
    BY <1>1 DEF IInv, TypeOK
  <2>3. QED
    BY <1>1, <2>1, <2>2, ReleaseLemma DEF IInv, TypeOK
<1>3. BatchInv'
  BY <1>1 DEF BatchInv, NoText
<1>4. LockInv'
  BY <1>1, ReleaseLemma DEF IInv, LockInv
<1>5. VectorOfTextUnlessOverlapped'
  <2>1. ASSUME NEW k \in Fact
        PROVE  vec'[k] \in {0, rev[k]} \/ k \in during
    <3>1. CASE k \in made
      BY <3>1, <1>1 DEF IInv, BatchInv
    <3>2. CASE k \notin made
      BY <3>2, <1>1 DEF IInv, VectorOfTextUnlessOverlapped
    <3>3. QED
      BY <3>1, <3>2
  <2>2. QED
    BY <2>1, <1>1 DEF VectorOfTextUnlessOverlapped
<1>6. ExitZeroMeansComplete'
  BY <1>1 DEF IInv, TypeOK, ExitZeroMeansComplete
<1>7. QED
  BY <1>2, <1>3, <1>4, <1>5, <1>6 DEF IInv

\* A script that dies leaves nothing of its batch.
LEMMA DieLemma ==
  ASSUME IInv, Die
  PROVE  IInv'
<1>1. /\ script' = "off" /\ lock' = Released({Script})
      /\ text' = NoText /\ waiting' = {} /\ made' = {}
      /\ UNCHANGED <<rev, vec, want, serverOn, done, failed, during, late>>
  BY DEF Die, EndRound, facts, calls, counters, history
<1>2. TypeOK'
  <2>1. NoText \in [Fact -> 0..MaxRev]
    BY MaxRevAssumption DEF NoText
  <2>2. QED
    BY <1>1, <2>1, ReleaseLemma DEF IInv, TypeOK
<1>3. BatchInv'
  BY <1>1 DEF BatchInv, NoText
<1>4. LockInv'
  BY <1>1, ReleaseLemma DEF IInv, LockInv
<1>5. VectorOfTextUnlessOverlapped' /\ ExitZeroMeansComplete'
  BY <1>1 DEF IInv, VectorOfTextUnlessOverlapped, ExitZeroMeansComplete
<1>6. QED
  BY <1>2, <1>3, <1>4, <1>5 DEF IInv

LEMMA StepLemma ==
  ASSUME IInv, [Next]_vars
  PROVE  IInv'
<1>1. ASSUME NEW w \in Writer,
             \/ \E k \in Fact : WriteFact(w, k) \/ WriteWaits(w, k)
             \/ RefuseWrite(w) \/ CommitCall(w) \/ FailCall(w)
      PROVE  IInv'
  BY <1>1, CallLocksLemma, CommitCallLemma
<1>2. CASE TurnOn
  <2>1. lock' = Released(Writer) /\ want' \in [Writer -> Fact \cup {0}]
    BY <1>2 DEF TurnOn
  <2>2. \A j \in Fact : lock'[j] \in Writer => rev[j] < MaxRev
    BY <2>1, ReleaseLemma DEF IInv, LockInv
  <2>3. QED
    BY <1>2, <2>1, <2>2, ReleaseLemma, QuietLemma DEF TurnOn
<1>3. CASE Backfill
  BY <1>3, StartLemma, SelectLemma, AskedLemma, UpdateLemma, CommitBatchLemma, DieLemma
  DEF Backfill
<1>4. CASE UNCHANGED vars
  BY <1>4, QuietLemma DEF vars, calls, IInv, TypeOK, LockInv
<1>5. QED
  BY <1>1, <1>2, <1>3, <1>4 DEF Next, Server

\* The inductive invariant holds for every number of facts, every set of callers, every
\* batch, zero included, and whatever the embedding service refuses.
THEOREM Invariance == Spec => []IInv
<1>1. Init => IInv
  BY InitLemma
<1>2. IInv /\ [Next]_vars => IInv'
  BY StepLemma
<1>3. QED
  BY <1>1, <1>2, PTL DEF Spec

\* Type correctness.
THEOREM TypeCorrect == Spec => []TypeOK
<1>1. IInv => TypeOK
  BY DEF IInv
<1>2. QED
  BY <1>1, Invariance, PTL

\* A vector is of the text its fact has, unless the fact was last written while the script
\* held an older text of it.
THEOREM VectorsAreOfTheText == Spec => []VectorOfTextUnlessOverlapped
<1>1. IInv => VectorOfTextUnlessOverlapped
  BY DEF IInv
<1>2. QED
  BY <1>1, Invariance, PTL

\* A script that was run with batches of at least one row and exits with 0 has left no fact
\* without a vector, but for the facts that a server without semantic search wrote since its
\* last SELECT.
THEOREM ExitZeroIsComplete == Spec => []ExitZeroMeansComplete
<1>1. IInv => ExitZeroMeansComplete
  BY DEF IInv
<1>2. QED
  BY <1>1, Invariance, PTL
=============================================================================
