---------------------------- MODULE ListingProofs ----------------------------
(***************************************************************************)
(* What a reader of pages and a reader of an overview are sure to see, for *)
(* lists of any length, any limits and any number of changes meanwhile.    *)
(***************************************************************************)
EXTENDS Listing, SequenceTheorems, FiniteSetTheorems, TLAPS

-----------------------------------------------------------------------------
(* Lists. *)

LEMMA ConcatLemma ==
  ASSUME NEW S, NEW a \in Seq(S), NEW b \in Seq(S)
  PROVE  /\ a \o b \in Seq(S)
         /\ Len(a \o b) = Len(a) + Len(b)
         /\ \A n \in 1..Len(a) : (a \o b)[n] = a[n]
         /\ \A n \in 1..Len(b) : (a \o b)[Len(a) + n] = b[n]
<1>1. Len(a) \in Nat /\ Len(b) \in Nat
  BY LenProperties
<1>2. /\ a \o b \in Seq(S)
      /\ Len(a \o b) = Len(a) + Len(b)
      /\ \A n \in 1..(Len(a) + Len(b)) :
           (a \o b)[n] = IF n <= Len(a) THEN a[n] ELSE b[n - Len(a)]
  BY ConcatProperties
<1>3. ASSUME NEW n \in 1..Len(a)
      PROVE  (a \o b)[n] = a[n]
  <2>1. n \in 1..(Len(a) + Len(b)) /\ n <= Len(a)
    BY <1>1
  <2>2. QED
    BY <1>2, <2>1
<1>4. ASSUME NEW n \in 1..Len(b)
      PROVE  (a \o b)[Len(a) + n] = b[n]
  <2>1. Len(a) + n \in 1..(Len(a) + Len(b)) /\ ~(Len(a) + n <= Len(a))
        /\ (Len(a) + n) - Len(a) = n
    BY <1>1
  <2>2. QED
    BY <1>2, <2>1
<1>5. QED
  BY <1>2, <1>3, <1>4

LEMMA SliceLemma ==
  ASSUME NEW S, NEW s \in Seq(S), NEW i \in 1..(Len(s) + 1), NEW j \in 0..Len(s), i <= j + 1
  PROVE  /\ SubSeq(s, i, j) \in Seq(S)
         /\ Len(SubSeq(s, i, j)) = j - i + 1
         /\ \A n \in 1..(j - i + 1) : SubSeq(s, i, j)[n] = s[i + n - 1]
<1>1. Len(s) \in Nat
  BY LenProperties
<1>2. \A n \in i..j : s[n] \in S
  BY <1>1, ElementOfSeq
<1>3. i \in Int /\ j \in Int
  BY <1>1
<1>4. /\ SubSeq(s, i, j) \in Seq(S)
      /\ Len(SubSeq(s, i, j)) = IF i <= j THEN j - i + 1 ELSE 0
      /\ \A n \in 1..(j - i + 1) : SubSeq(s, i, j)[n] = s[i + n - 1]
  BY <1>2, <1>3, SubSeqProperties
<1>5. QED
  BY <1>3, <1>4

\* The list u is s with r put in at place i.
Inserted(S, s, i, r, u) ==
  /\ u \in Seq(S)
  /\ Len(u) = Len(s) + 1
  /\ u[i] = r
  /\ \A n \in 1..Len(s) : n < i => u[n] = s[n]
  /\ \A n \in 1..Len(s) : n >= i => u[n + 1] = s[n]

\* A row that comes in moves those behind it one place back, and no other.
LEMMA InsertLemma ==
  ASSUME NEW S, NEW s \in Seq(S), NEW i \in 1..(Len(s) + 1), NEW r \in S
  PROVE  Inserted(S, s, i, r, InsertAt(s, i, r))
<1> DEFINE front == SubSeq(s, 1, i - 1)
           back  == SubSeq(s, i, Len(s))
           one   == <<r>>
           t     == front \o one
<1>1. Len(s) \in Nat /\ i \in Nat /\ i >= 1 /\ i <= Len(s) + 1
  BY LenProperties
<1>2. /\ front \in Seq(S) /\ Len(front) = i - 1
      /\ \A n \in 1..(i - 1) : front[n] = s[n]
  <2>1. 1 \in 1..(Len(s) + 1) /\ i - 1 \in 0..Len(s) /\ 1 <= (i - 1) + 1 /\ (i - 1) - 1 + 1 = i - 1
    BY <1>1
  <2>2. /\ front \in Seq(S) /\ Len(front) = (i - 1) - 1 + 1
        /\ \A n \in 1..((i - 1) - 1 + 1) : front[n] = s[1 + n - 1]
    BY <2>1, SliceLemma
  <2>3. \A n \in 1..(i - 1) : 1 + n - 1 = n
    BY <1>1
  <2>4. QED
    BY <2>1, <2>2, <2>3
<1>3. /\ back \in Seq(S) /\ Len(back) = Len(s) + 1 - i
      /\ \A n \in 1..(Len(s) + 1 - i) : back[n] = s[i + n - 1]
  <2>1. Len(s) \in 0..Len(s) /\ i <= Len(s) + 1 /\ Len(s) - i + 1 = Len(s) + 1 - i
    BY <1>1
  <2>2. QED
    BY <2>1, SliceLemma
<1>4. one \in Seq(S) /\ Len(one) = 1 /\ one[1] = r
  OBVIOUS
<1>5. InsertAt(s, i, r) = t \o back
  BY DEF InsertAt
<1> HIDE DEF front, back, one
<1>6. /\ t \in Seq(S) /\ Len(t) = i
      /\ t[i] = r
      /\ \A n \in 1..(i - 1) : t[n] = s[n]
  <2>1. /\ t \in Seq(S) /\ Len(t) = Len(front) + Len(one)
        /\ \A n \in 1..Len(front) : t[n] = front[n]
        /\ \A n \in 1..Len(one) : t[Len(front) + n] = one[n]
    <3>1. front \in Seq(S) /\ one \in Seq(S)
      BY <1>2, <1>4
    <3>2. QED
      BY <3>1, ConcatLemma DEF t
  <2>2. t[Len(front) + 1] = one[1]
    BY <2>1, <1>4
  <2>3. QED
    BY <2>1, <2>2, <1>1, <1>2, <1>4
<1> HIDE DEF t
<1>7. /\ t \o back \in Seq(S) /\ Len(t \o back) = Len(t) + Len(back)
      /\ \A n \in 1..Len(t) : (t \o back)[n] = t[n]
      /\ \A n \in 1..Len(back) : (t \o back)[Len(t) + n] = back[n]
  <2>1. t \in Seq(S) /\ back \in Seq(S)
    BY <1>3, <1>6
  <2>2. QED
    BY <2>1, ConcatLemma
<1>8. Len(t \o back) = Len(s) + 1
  BY <1>1, <1>3, <1>6, <1>7
<1>9. (t \o back)[i] = r
  BY <1>1, <1>6, <1>7
<1>10. ASSUME NEW n \in 1..Len(s), n < i
       PROVE  (t \o back)[n] = s[n]
  BY <1>10, <1>1, <1>6, <1>7
<1>11. ASSUME NEW n \in 1..Len(s), n >= i
       PROVE  (t \o back)[n + 1] = s[n]
  <2>1. n - i + 1 \in 1..Len(back) /\ n - i + 1 \in 1..(Len(s) + 1 - i)
        /\ Len(t) + (n - i + 1) = n + 1 /\ i + (n - i + 1) - 1 = n
    BY <1>11, <1>1, <1>3, <1>6
  <2>2. (t \o back)[Len(t) + (n - i + 1)] = back[n - i + 1]
    BY <2>1, <1>7
  <2>3. back[n - i + 1] = s[i + (n - i + 1) - 1]
    BY <2>1, <1>3
  <2>4. QED
    BY <2>1, <2>2, <2>3
<1>12. QED
  <2>1. Inserted(S, s, i, r, t \o back)
    BY <1>7, <1>8, <1>9, <1>10, <1>11 DEF Inserted
  <2>2. QED
    BY <2>1, <1>5

\* The list u is s without its row at place i.
Removed(S, s, i, u) ==
  /\ u \in Seq(S)
  /\ Len(u) = Len(s) - 1
  /\ \A n \in 1..Len(s) : n < i => u[n] = s[n]
  /\ \A n \in 1..Len(s) : n > i => u[n - 1] = s[n]

\* A row that goes moves those behind it one place forward, and no other.
LEMMA RemoveLemma ==
  ASSUME NEW S, NEW s \in Seq(S), NEW i \in 1..Len(s)
  PROVE  Removed(S, s, i, RemoveAt(s, i))
<1> DEFINE front == SubSeq(s, 1, i - 1)
           back  == SubSeq(s, i + 1, Len(s))
<1>1. Len(s) \in Nat /\ i \in Nat /\ i >= 1 /\ i <= Len(s)
  BY LenProperties
<1>2. /\ front \in Seq(S) /\ Len(front) = i - 1
      /\ \A n \in 1..(i - 1) : front[n] = s[n]
  <2>1. 1 \in 1..(Len(s) + 1) /\ i - 1 \in 0..Len(s) /\ 1 <= (i - 1) + 1 /\ (i - 1) - 1 + 1 = i - 1
    BY <1>1
  <2>2. /\ front \in Seq(S) /\ Len(front) = (i - 1) - 1 + 1
        /\ \A n \in 1..((i - 1) - 1 + 1) : front[n] = s[1 + n - 1]
    BY <2>1, SliceLemma
  <2>3. \A n \in 1..(i - 1) : 1 + n - 1 = n
    BY <1>1
  <2>4. QED
    BY <2>1, <2>2, <2>3
<1>3. /\ back \in Seq(S) /\ Len(back) = Len(s) - i
      /\ \A n \in 1..(Len(s) - i) : back[n] = s[i + n]
  <2>1. i + 1 \in 1..(Len(s) + 1) /\ Len(s) \in 0..Len(s) /\ i + 1 <= Len(s) + 1
        /\ Len(s) - (i + 1) + 1 = Len(s) - i
    BY <1>1
  <2>2. /\ back \in Seq(S) /\ Len(back) = Len(s) - (i + 1) + 1
        /\ \A n \in 1..(Len(s) - (i + 1) + 1) : back[n] = s[(i + 1) + n - 1]
    BY <2>1, SliceLemma
  <2>3. \A n \in 1..(Len(s) - i) : (i + 1) + n - 1 = i + n
    BY <1>1
  <2>4. QED
    BY <2>1, <2>2, <2>3
<1>4. RemoveAt(s, i) = front \o back
  BY DEF RemoveAt
<1> HIDE DEF front, back
<1>5. /\ front \o back \in Seq(S) /\ Len(front \o back) = Len(front) + Len(back)
      /\ \A n \in 1..Len(front) : (front \o back)[n] = front[n]
      /\ \A n \in 1..Len(back) : (front \o back)[Len(front) + n] = back[n]
  <2>1. front \in Seq(S) /\ back \in Seq(S)
    BY <1>2, <1>3
  <2>2. QED
    BY <2>1, ConcatLemma
<1>6. Len(front \o back) = Len(s) - 1
  BY <1>1, <1>2, <1>3, <1>5
<1>7. ASSUME NEW n \in 1..Len(s), n < i
      PROVE  (front \o back)[n] = s[n]
  BY <1>7, <1>1, <1>2, <1>5
<1>8. ASSUME NEW n \in 1..Len(s), n > i
      PROVE  (front \o back)[n - 1] = s[n]
  <2>1. n - i \in 1..Len(back) /\ n - i \in 1..(Len(s) - i)
        /\ Len(front) + (n - i) = n - 1 /\ i + (n - i) = n
    BY <1>8, <1>1, <1>2, <1>3
  <2>2. (front \o back)[Len(front) + (n - i)] = back[n - i]
    BY <2>1, <1>5
  <2>3. back[n - i] = s[i + (n - i)]
    BY <2>1, <1>3
  <2>4. QED
    BY <2>1, <2>2, <2>3
<1>9. QED
  <2>1. Removed(S, s, i, front \o back)
    BY <1>5, <1>6, <1>7, <1>8 DEF Removed
  <2>2. QED
    BY <2>1, <1>4

\* The rows of s but the one at i are in t, each at its place or one off: further to the
\* front only those between i and j.
Shifted(s, t, i, j) ==
  \A n \in 1..Len(s) : n # i =>
    \E m \in 1..Len(s) : t[m] = s[n] /\ (m < n => i < n /\ n <= j) /\ m + 1 >= n

\* A row that moves takes its new place; every other row keeps its place or moves by one.
LEMMA MoveLemma ==
  ASSUME NEW S, NEW s \in Seq(S), NEW i \in 1..Len(s), NEW j \in 1..Len(s), NEW t,
         t = InsertAt(RemoveAt(s, i), j, s[i])
  PROVE  /\ t \in Seq(S)
         /\ Len(t) = Len(s)
         /\ t[j] = s[i]
         /\ Shifted(s, t, i, j)
<1> DEFINE u == RemoveAt(s, i)
<1>1. Len(s) \in Nat /\ i \in 1..Len(s) /\ j \in 1..Len(s) /\ s[i] \in S
  BY LenProperties, ElementOfSeq
<1>2. /\ u \in Seq(S) /\ Len(u) = Len(s) - 1
      /\ \A n \in 1..Len(s) : n < i => u[n] = s[n]
      /\ \A n \in 1..Len(s) : n > i => u[n - 1] = s[n]
  BY RemoveLemma DEF Removed
<1> HIDE DEF u
<1>3. j \in 1..(Len(u) + 1)
  BY <1>1, <1>2
<1>4. /\ t \in Seq(S) /\ Len(t) = Len(u) + 1
      /\ t[j] = s[i]
      /\ \A n \in 1..Len(u) : n < j => t[n] = u[n]
      /\ \A n \in 1..Len(u) : n >= j => t[n + 1] = u[n]
  <2>1. t = InsertAt(u, j, s[i])
    BY DEF u
  <2>2. u \in Seq(S) /\ s[i] \in S
    BY <1>1, <1>2
  <2>3. Inserted(S, u, j, s[i], InsertAt(u, j, s[i]))
    BY <2>2, <1>3, InsertLemma
  <2>4. Inserted(S, u, j, s[i], t)
    BY <2>1, <2>3
  <2>5. QED
    BY <2>4 DEF Inserted
<1>5. ASSUME NEW n \in 1..Len(s), n # i
      PROVE  \E m \in 1..Len(s) : t[m] = s[n] /\ (m < n => i < n /\ n <= j) /\ m + 1 >= n
  <2>1. n < i \/ n > i
    BY <1>1, <1>5
  <2>2. PICK p \in 1..Len(u) : u[p] = s[n] /\ ((p = n /\ n < i) \/ (p + 1 = n /\ n > i))
    <3>1. CASE n < i
      <4>1. n \in 1..Len(u) /\ u[n] = s[n]
        BY <3>1, <1>1, <1>2
      <4>2. QED
        BY <3>1, <4>1
    <3>2. CASE n > i
      <4>1. n - 1 \in 1..Len(u) /\ u[n - 1] = s[n] /\ (n - 1) + 1 = n
        BY <3>2, <1>1, <1>2
      <4>2. QED
        BY <3>2, <4>1
    <3>3. QED
      BY <2>1, <3>1, <3>2
  <2>3. CASE p < j
    <3>1. t[p] = s[n]
      BY <2>2, <2>3, <1>4
    <3>2. p \in 1..Len(s) /\ (p < n => i < n /\ n <= j) /\ p + 1 >= n
      BY <2>2, <2>3, <1>1, <1>2
    <3>3. QED
      BY <3>1, <3>2
  <2>4. CASE p >= j
    <3>1. t[p + 1] = s[n]
      BY <2>2, <2>4, <1>4
    <3>2. p + 1 \in 1..Len(s) /\ ~(p + 1 < n) /\ (p + 1) + 1 >= n
      BY <2>2, <1>1, <1>2
    <3>3. QED
      BY <3>1, <3>2
  <2>5. QED
    BY <2>2, <2>3, <2>4, <1>1
<1>6. QED
  BY <1>1, <1>2, <1>4, <1>5 DEF Shifted

\* A list has no more different rows than places.
LEMMA RangeLemma ==
  ASSUME NEW S, NEW s \in Seq(S)
  PROVE  /\ IsFiniteSet(Range(s))
         /\ Cardinality(Range(s)) <= Len(s)
         /\ Range(s) = {s[n] : n \in 1..Len(s)}
<1>1. /\ Len(s) \in Nat
      /\ s \in [1..Len(s) -> S]
      /\ DOMAIN s = 1..Len(s)
  BY LenProperties
<1>2. Range(s) = {s[n] : n \in 1..Len(s)}
  BY <1>1 DEF Range
<1>3. s \in Surjection(1..Len(s), Range(s))
  BY <1>1, <1>2 DEF Surjection
<1>4. IsFiniteSet(1..Len(s)) /\ Cardinality(1..Len(s)) = Len(s)
  <2>1. 1 \in Int /\ Len(s) \in Int /\ Len(s) >= 0
    BY <1>1
  <2>2. /\ IsFiniteSet(1..Len(s))
        /\ Cardinality(1..Len(s)) = IF 1 > Len(s) THEN 0 ELSE Len(s) - 1 + 1
    BY <2>1, FS_Interval
  <2>3. QED
    BY <1>1, <2>2
<1>5. QED
  BY <1>2, <1>3, <1>4, FS_Surjection

-----------------------------------------------------------------------------
(* The invariant. *)

\* What a list must keep of another for a reader that goes on: the rows that stayed and are
\* ahead of the reader are still ahead of it, and the rows of the overview are still there.
Keeps(s, t) ==
  /\ t \in Seq(Row)
  /\ pc = "page" /\ ~left' =>
       \A r \in stayed' : \A n \in 1..Len(s) :
         offset < n /\ s[n] = r => \E m \in 1..Len(t) : offset < m /\ t[m] = r
  /\ pc = "count" /\ ~left' => \A n \in 1..Len(s) : s[n] \in seen => s[n] \in Range(t)

LEMMA ListTypeLemma ==
  ASSUME IInv
  PROVE  /\ list \in Seq(Row)
         /\ Len(list) \in Nat
         /\ DOMAIN list = 1..Len(list)
         /\ Range(list) = {list[n] : n \in 1..Len(list)}
         /\ \A n \in 1..Len(list) : list[n] \in Row
<1>1. list \in Seq(Row)
  BY DEF IInv, TypeOK
<1>2. QED
  BY <1>1, LenProperties, RangeLemma, ElementOfSeq

LEMMA InitLemma == Init => IInv
<1> SUFFICES ASSUME Init PROVE IInv
  OBVIOUS
<1>1. list \in Seq(Row)
  BY EmptySeq DEF Init
<1>2. TypeOK
  BY <1>1 DEF Init, TypeOK
<1>3. PlaceInv /\ SeesWhatStayed
  BY DEF Init, PlaceInv, SeesWhatStayed
<1>4. QED
  BY <1>2, <1>3 DEF IInv

\* A step of the others that keeps the list in this sense keeps the invariant.
LEMMA OthersLemma ==
  ASSUME IInv, Keeps(list, list'), UNCHANGED <<kind, reader>>,
         stayed' \subseteq stayed, left' \in BOOLEAN, left => left'
  PROVE  IInv'
<1> USE DEF reader
<1>1. TypeOK'
  BY DEF IInv, TypeOK, Keeps
<1>2. ASSUME pc' = "page", ~left', NEW r \in stayed', r \notin seen'
      PROVE  \E m \in DOMAIN list' : offset' < m /\ list'[m] = r
  <2>1. \E n \in DOMAIN list : offset < n /\ list[n] = r
    BY <1>2 DEF IInv, PlaceInv
  <2>2. PICK n \in 1..Len(list) : offset < n /\ list[n] = r
    BY <2>1, ListTypeLemma
  <2>3. \E m \in 1..Len(list') : offset < m /\ list'[m] = r
    BY <1>2, <2>2 DEF Keeps
  <2>4. DOMAIN list' = 1..Len(list')
    BY LenProperties DEF Keeps
  <2>5. QED
    BY <2>3, <2>4
<1>3. ASSUME pc' = "count", ~left'
      PROVE  seen' \subseteq Range(list')
  <2>1. seen \subseteq Range(list)
    BY <1>3 DEF IInv, PlaceInv
  <2>2. QED
    BY <1>3, <2>1, ListTypeLemma DEF Keeps
<1>4. PlaceInv'
  <2>1. pc' = "count" => IsFiniteSet(seen')
    BY DEF IInv, PlaceInv
  <2>2. QED
    BY <1>2, <1>3, <2>1 DEF PlaceInv
<1>5. SeesWhatStayed'
  BY DEF IInv, SeesWhatStayed
<1>6. QED
  BY <1>1, <1>4, <1>5 DEF IInv

LEMMA AddRevisionLemma ==
  ASSUME IInv, NEW r \in Row, AddRevision(r)
  PROVE  IInv'
<1> DEFINE one == <<r>>
<1>1. one \in Seq(Row) /\ Len(one) = 1
  OBVIOUS
<1>2. list' = one \o list
  BY DEF AddRevision
<1> HIDE DEF one
<1>3. list \in Seq(Row)
  BY ListTypeLemma
<1>4. /\ list' \in Seq(Row)
      /\ Len(list') = Len(one) + Len(list)
      /\ \A n \in 1..Len(list) : list'[Len(one) + n] = list[n]
  <2>1. one \in Seq(Row) /\ list \in Seq(Row)
    BY <1>1, <1>3
  <2>2. /\ one \o list \in Seq(Row)
        /\ Len(one \o list) = Len(one) + Len(list)
        /\ \A n \in 1..Len(list) : (one \o list)[Len(one) + n] = list[n]
    BY <2>1, ConcatLemma
  <2>3. QED
    BY <2>2, <1>2
<1>5. ASSUME NEW n \in 1..Len(list)
      PROVE  \E m \in 1..Len(list') : n <= m /\ list'[m] = list[n]
  <2>1. 1 + n \in 1..Len(list') /\ n <= 1 + n /\ list'[1 + n] = list[n]
    BY <1>1, <1>4, ListTypeLemma
  <2>2. QED
    BY <2>1
<1>6. Keeps(list, list')
  <2>1. Range(list') = {list'[m] : m \in 1..Len(list')}
    BY <1>4, RangeLemma
  <2>2. offset \in Nat
    BY DEF IInv, TypeOK
  <2>3. \A n \in 1..Len(list) : list[n] \in Range(list')
    BY <1>5, <2>1
  <2>4. \A q \in stayed' : \A n \in 1..Len(list) :
          offset < n /\ list[n] = q => \E m \in 1..Len(list') : offset < m /\ list'[m] = q
    BY <1>5, <2>2
  <2>5. QED
    BY <1>4, <2>3, <2>4 DEF Keeps
<1>7. QED
  BY <1>6, OthersLemma DEF AddRevision, IInv, TypeOK

LEMMA AddRowLemma ==
  ASSUME IInv, NEW r \in Row, NEW i \in 1..(Len(list) + 1), AddRow(r, i)
  PROVE  IInv'
<1>1. list \in Seq(Row) /\ list' = InsertAt(list, i, r)
  BY ListTypeLemma DEF AddRow
<1>2. /\ list' \in Seq(Row)
      /\ Len(list') = Len(list) + 1
      /\ \A n \in 1..Len(list) : n < i => list'[n] = list[n]
      /\ \A n \in 1..Len(list) : n >= i => list'[n + 1] = list[n]
  <2>1. Inserted(Row, list, i, r, InsertAt(list, i, r))
    BY <1>1, InsertLemma
  <2>2. QED
    BY <2>1, <1>1 DEF Inserted
<1>3. ASSUME NEW n \in 1..Len(list)
      PROVE  \E m \in 1..Len(list') : n <= m /\ list'[m] = list[n]
  <2>1. CASE n < i
    <3>1. n \in 1..Len(list') /\ n <= n /\ list'[n] = list[n]
      BY <2>1, <1>2, ListTypeLemma
    <3>2. QED
      BY <3>1
  <2>2. CASE n >= i
    <3>1. n + 1 \in 1..Len(list') /\ n <= n + 1 /\ list'[n + 1] = list[n]
      BY <2>2, <1>2, ListTypeLemma
    <3>2. QED
      BY <3>1
  <2>3. QED
    BY <2>1, <2>2, ListTypeLemma
<1>4. Keeps(list, list')
  <2>1. Range(list') = {list'[m] : m \in 1..Len(list')}
    BY <1>2, RangeLemma
  <2>2. offset \in Nat
    BY DEF IInv, TypeOK
  <2>3. \A n \in 1..Len(list) : list[n] \in Range(list')
    BY <1>3, <2>1
  <2>4. \A q \in stayed' : \A n \in 1..Len(list) :
          offset < n /\ list[n] = q => \E m \in 1..Len(list') : offset < m /\ list'[m] = q
    BY <1>3, <2>2
  <2>5. QED
    BY <1>2, <2>3, <2>4 DEF Keeps
<1>5. QED
  BY <1>4, OthersLemma DEF AddRow, IInv, TypeOK

LEMMA LeaveLemma ==
  ASSUME IInv, NEW i \in DOMAIN list, Leave(i)
  PROVE  IInv'
<1>1. list \in Seq(Row) /\ list' = RemoveAt(list, i) /\ i \in 1..Len(list)
  BY ListTypeLemma DEF Leave
<1>2. /\ list' \in Seq(Row)
      /\ Len(list') = Len(list) - 1
      /\ \A n \in 1..Len(list) : n < i => list'[n] = list[n]
      /\ \A n \in 1..Len(list) : n > i => list'[n - 1] = list[n]
  <2>1. Removed(Row, list, i, RemoveAt(list, i))
    BY <1>1, RemoveLemma
  <2>2. QED
    BY <2>1, <1>1 DEF Removed
<1>3. ASSUME NEW n \in 1..Len(list), n # i
      PROVE  \E m \in 1..Len(list') : (m < n => i < n) /\ n <= m + 1 /\ list'[m] = list[n]
  <2>1. CASE n < i
    <3>1. n \in 1..Len(list') /\ ~(n < n) /\ n <= n + 1 /\ list'[n] = list[n]
      BY <2>1, <1>1, <1>2, ListTypeLemma
    <3>2. QED
      BY <3>1
  <2>2. CASE n > i
    <3>1. n - 1 \in 1..Len(list') /\ i < n /\ n <= (n - 1) + 1 /\ list'[n - 1] = list[n]
      BY <2>2, <1>1, <1>2, ListTypeLemma
    <3>2. QED
      BY <3>1
  <2>3. QED
    BY <1>1, <1>3, <2>1, <2>2, ListTypeLemma
<1>4. Keeps(list, list')
  <2>1. Range(list') = {list'[m] : m \in 1..Len(list')}
    BY <1>2, RangeLemma
  <2>2. offset \in Nat /\ stayed' = stayed \ {list[i]}
    BY DEF IInv, TypeOK, Leave
  <2>3. ASSUME pc = "page", ~left', NEW q \in stayed', NEW n \in 1..Len(list),
               offset < n, list[n] = q
        PROVE  \E m \in 1..Len(list') : offset < m /\ list'[m] = q
    <3>1. offset < i
      <4>1. ~(i <= offset)
        BY <2>3, Zenon DEF Leave, CountedOn, Passed
      <4>2. i \in Nat
        BY <1>1, ListTypeLemma
      <4>3. QED
        BY <2>2, <4>1, <4>2
    <3>2. n # i
      BY <2>2, <2>3
    <3>3. PICK m \in 1..Len(list') : (m < n => i < n) /\ n <= m + 1 /\ list'[m] = list[n]
      BY <1>3, <3>2
    <3>4. offset < m
      BY <1>1, <2>2, <2>3, <3>1, <3>3
    <3>5. QED
      BY <2>3, <3>3, <3>4
  <2>4. ASSUME pc = "count", ~left', NEW n \in 1..Len(list), list[n] \in seen
        PROVE  list[n] \in Range(list')
    <3>1. list[i] \notin seen
      BY <2>4 DEF Leave, CountedOn
    <3>2. QED
      BY <1>3, <2>1, <2>4, <3>1
  <2>5. QED
    BY <1>2, <2>3, <2>4 DEF Keeps
<1>5. QED
  BY <1>4, OthersLemma DEF Leave, IInv, TypeOK

LEMMA MovesLemma ==
  ASSUME IInv, NEW i \in DOMAIN list, NEW j \in DOMAIN list, Move(i, j)
  PROVE  IInv'
<1>1. /\ list \in Seq(Row) /\ i \in 1..Len(list) /\ j \in 1..Len(list)
      /\ list' = InsertAt(RemoveAt(list, i), j, list[i])
  BY ListTypeLemma DEF Move
<1>2. /\ list' \in Seq(Row)
      /\ Len(list') = Len(list)
      /\ list'[j] = list[i]
      /\ Shifted(list, list', i, j)
  BY <1>1, MoveLemma
<1>3. Keeps(list, list')
  <2>1. Range(list') = {list'[m] : m \in 1..Len(list)}
    BY <1>2, RangeLemma
  <2>2. offset \in Nat /\ stayed' = stayed \ {list[i]}
    BY DEF IInv, TypeOK, Move
  <2>3. ASSUME pc = "page", ~left', NEW q \in stayed', NEW n \in 1..Len(list),
               offset < n, list[n] = q
        PROVE  \E m \in 1..Len(list') : offset < m /\ list'[m] = q
    <3>1. offset < i \/ j <= offset
      <4>1. ~(i <= offset) \/ j <= offset
        BY <2>3, Zenon DEF Move, Passed
      <4>2. i \in Nat
        BY <1>1, ListTypeLemma
      <4>3. QED
        BY <2>2, <4>1, <4>2
    <3>2. n # i
      BY <2>2, <2>3
    <3>3. PICK m \in 1..Len(list) : list'[m] = list[n] /\ (m < n => i < n /\ n <= j)
                                                      /\ m + 1 >= n
      BY <1>2, <3>2 DEF Shifted
    <3>4. offset < m
      BY <1>1, <2>2, <2>3, <3>1, <3>3
    <3>5. QED
      BY <1>2, <2>3, <3>3, <3>4
  <2>4. ASSUME NEW n \in 1..Len(list)
        PROVE  list[n] \in Range(list')
    <3>1. CASE n = i
      BY <1>1, <1>2, <2>1, <3>1
    <3>2. CASE n # i
      BY <1>2, <2>1, <3>2 DEF Shifted
    <3>3. QED
      BY <3>1, <3>2
  <2>5. QED
    BY <1>2, <2>3, <2>4 DEF Keeps
<1>4. QED
  BY <1>3, OthersLemma DEF Move, IInv, TypeOK

LEMMA LimitLemma == \A n \in Asked \cup {Unsaid} : list_limit(n) \in Nat /\ list_limit(n) >= 1
BY AskedAssumption, LimitAssumption DEF list_limit

LEMMA OpenLemma ==
  ASSUME IInv, NEW n \in Asked \cup {Unsaid}, Open(n)
  PROVE  IInv'
<1>1. Range(list) \subseteq Row
  BY ListTypeLemma
<1>2. TypeOK'
  BY <1>1 DEF IInv, TypeOK, Open, Begin
<1>3. PlaceInv'
  BY ListTypeLemma DEF PlaceInv, Open, Begin
<1>4. SeesWhatStayed'
  BY DEF SeesWhatStayed, Open, Begin
<1>5. QED
  BY <1>2, <1>3, <1>4 DEF IInv

\* A page is made of rows of the list, and has all of them between its offset and its end.
LEMMA PageLemma ==
  ASSUME IInv, NEW skip \in Nat, NEW size \in Nat
  PROVE  /\ Page(skip, size) \subseteq Range(list)
         /\ Page(skip, size) \subseteq Row
         /\ \A n \in 1..Len(list) : skip < n /\ n <= skip + size => list[n] \in Page(skip, size)
BY ListTypeLemma DEF Page

LEMMA NextPageLemma ==
  ASSUME IInv, NextPage
  PROVE  IInv'
<1> DEFINE size == list_limit(limit)
<1>1. size \in Nat /\ size >= 1 /\ offset \in Nat
  BY LimitLemma DEF IInv, TypeOK
<1>2. /\ seen' = seen \cup Page(offset, size)
      /\ offset' = offset + size
      /\ pc = "page"
      /\ pc' = IF offset + size > Len(list) THEN "read" ELSE "page"
      /\ UNCHANGED <<kind, list, limit, hint, stayed, left>>
  BY DEF NextPage
<1> HIDE DEF size
<1>3. Page(offset, size) \subseteq Row
  BY <1>1, PageLemma
<1>4. TypeOK'
  BY <1>1, <1>2, <1>3 DEF IInv, TypeOK
<1>5. ASSUME ~left, NEW r \in stayed
      PROVE  r \in seen' \/ \E n \in 1..Len(list) : offset' < n /\ list[n] = r
  <2>1. CASE r \in seen
    BY <2>1, <1>2
  <2>2. CASE r \notin seen
    <3>1. PICK n \in 1..Len(list) : offset < n /\ list[n] = r
      BY <1>2, <1>5, <2>2, ListTypeLemma DEF IInv, PlaceInv
    <3>2. CASE n <= offset + size
      BY <1>1, <1>2, <3>1, <3>2, PageLemma
    <3>3. CASE offset + size < n
      BY <1>2, <3>1, <3>3
    <3>4. QED
      BY <1>1, <3>2, <3>3
  <2>3. QED
    BY <2>1, <2>2
<1>6. PlaceInv'
  <2>1. DOMAIN list' = 1..Len(list)
    BY <1>2, ListTypeLemma
  <2>2. pc' = "page" \/ pc' = "read"
    BY <1>2
  <2>3. QED
    BY <1>2, <1>5, <2>1, <2>2 DEF PlaceInv
<1>7. SeesWhatStayed'
  <2>1. SUFFICES ASSUME pc' = "read", ~left', NEW r \in stayed'
                 PROVE  r \in seen'
    BY DEF SeesWhatStayed
  <2>2. Len(list) < offset'
    BY <1>1, <1>2, <2>1, ListTypeLemma
  <2>3. ~ \E n \in 1..Len(list) : offset' < n
    BY <1>1, <1>2, <2>2, ListTypeLemma
  <2>4. QED
    BY <1>2, <1>5, <2>1, <2>3
<1>8. QED
  BY <1>4, <1>6, <1>7 DEF IInv

LEMMA ShowPoliciesLemma ==
  ASSUME IInv, ShowPolicies
  PROVE  IInv'
<1> DEFINE size == list_limit(Unsaid)
<1>1. size \in Nat /\ size >= 1
  BY LimitLemma
<1>2. /\ seen' = Page(0, size)
      /\ offset' = size
      /\ UNCHANGED <<kind, list>>
      /\ pc' = "count" /\ limit' = Unsaid /\ ~hint' /\ ~left'
      /\ hint' \in BOOLEAN /\ left' \in BOOLEAN
      /\ stayed' = Range(list)
      /\ kind = "notes"
  BY DEF ShowPolicies, Begin
<1> HIDE DEF size
<1>3. Page(0, size) \subseteq Row /\ Page(0, size) \subseteq Range(list)
  BY <1>1, PageLemma
<1>4. Range(list) \subseteq Row
  BY ListTypeLemma
<1>5. TypeOK'
  BY <1>1, <1>2, <1>3, <1>4 DEF IInv, TypeOK
<1>6. IsFiniteSet(seen')
  <2>1. IsFiniteSet(Range(list))
    BY ListTypeLemma, RangeLemma
  <2>2. QED
    BY <2>1, <1>2, <1>3, FS_Subset
<1>7. PlaceInv' /\ SeesWhatStayed'
  BY <1>2, <1>3, <1>6 DEF PlaceInv, SeesWhatStayed
<1>8. QED
  BY <1>5, <1>7 DEF IInv

LEMMA CountPoliciesLemma ==
  ASSUME IInv, CountPolicies
  PROVE  IInv'
<1>1. TypeOK'
  BY DEF IInv, TypeOK, CountPolicies
<1>2. PlaceInv' /\ SeesWhatStayed'
  BY DEF IInv, PlaceInv, SeesWhatStayed, CountPolicies
<1>3. QED
  BY <1>1, <1>2 DEF IInv

LEMMA StepLemma ==
  ASSUME IInv, [Next]_vars
  PROVE  IInv'
<1>1. ASSUME NEW r \in Row, AddRevision(r) \/ \E i \in 1..(Len(list) + 1) : AddRow(r, i)
      PROVE  IInv'
  BY <1>1, AddRevisionLemma, AddRowLemma
<1>2. ASSUME NEW i \in DOMAIN list, Leave(i)
      PROVE  IInv'
  BY <1>2, LeaveLemma
<1>3. ASSUME NEW i \in DOMAIN list, NEW j \in DOMAIN list, WriteFact(i, j) \/ Reprioritise(i, j)
      PROVE  IInv'
  BY <1>3, MovesLemma DEF WriteFact, Reprioritise
<1>4. ASSUME NEW n \in Asked \cup {Unsaid}, Open(n)
      PROVE  IInv'
  BY <1>4, OpenLemma
<1>5. CASE ShowPolicies \/ Read
  BY <1>5, ShowPoliciesLemma, NextPageLemma, CountPoliciesLemma DEF Read
<1>6. CASE UNCHANGED vars
  BY <1>6 DEF vars, reader, IInv, TypeOK, PlaceInv, SeesWhatStayed
<1>7. QED
  BY <1>1, <1>2, <1>3, <1>4, <1>5, <1>6 DEF Next

\* The inductive invariant holds for lists of any rows and any limits.
THEOREM Invariance == Spec => []IInv
<1>1. Init => IInv
  BY InitLemma
<1>2. IInv /\ [Next]_vars => IInv'
  BY StepLemma
<1>3. QED
  BY <1>1, <1>2, PTL DEF Spec

\* Type correctness.
THEOREM TypeCorrect == Spec => []TypeOK
<1>1. IInv => TypeOK
  BY DEF IInv
<1>2. QED
  BY <1>1, Invariance, PTL

\* A reader misses no row that stayed where it was, unless a row had left the part of the
\* list that it had passed.
THEOREM NoneMissed == Spec => []SeesWhatStayed
<1>1. IInv => SeesWhatStayed
  BY DEF IInv
<1>2. QED
  BY <1>1, Invariance, PTL

\* An overview that does not hint at more has shown every policy, unless one that it had
\* shown left before the count: the shown ones are then as many as there are.
THEOREM HintIsEnough == Spec => HintOrAllShown
<1>1. ASSUME IInv, CountPolicies
      PROVE  left \/ hint' \/ Range(list) \subseteq seen
  <2>1. SUFFICES ASSUME ~left, ~hint'
                 PROVE  Range(list) \subseteq seen
    OBVIOUS
  <2>2. seen \subseteq Range(list) /\ IsFiniteSet(seen)
    BY <1>1, <2>1 DEF IInv, PlaceInv, CountPolicies
  <2>3. Len(list) <= Cardinality(seen)
    <3>1. ~(Len(list) > Cardinality(seen))
      BY <1>1, <2>1 DEF CountPolicies
    <3>2. Cardinality(seen) \in Nat
      BY <2>2, FS_CardinalityType
    <3>3. QED
      BY <1>1, <3>1, <3>2, ListTypeLemma
  <2>4. IsFiniteSet(Range(list)) /\ Cardinality(Range(list)) <= Len(list)
    BY <1>1, ListTypeLemma, RangeLemma
  <2>5. Cardinality(seen) <= Cardinality(Range(list))
        /\ (Cardinality(Range(list)) = Cardinality(seen) => Range(list) = seen)
    BY <2>2, <2>4, FS_Subset
  <2>6. Cardinality(seen) \in Nat /\ Cardinality(Range(list)) \in Nat
    BY <2>2, <2>4, FS_CardinalityType
  <2>7. Cardinality(Range(list)) = Cardinality(seen)
    BY <1>1, <2>3, <2>4, <2>5, <2>6, ListTypeLemma
  <2>8. QED
    BY <2>5, <2>7
<1>2. IInv /\ [Next]_vars => [CountPolicies => left \/ hint' \/ Range(list) \subseteq seen]_vars
  BY <1>1
<1>3. QED
  BY <1>2, Invariance, PTL DEF Spec, HintOrAllShown
=============================================================================
