--------------------------- MODULE DoctorProofs ----------------------------
(***************************************************************************)
(* Proofs about Doctor, for every number of threads, files, facts and      *)
(* requests, whatever the files start with and however the requests        *)
(* overlap, are torn or die.                                               *)
(***************************************************************************)
EXTENDS Doctor, FiniteSetTheorems, SequenceTheorems,
        WellFoundedInduction, TLAPS

-----------------------------------------------------------------------------
(* Folds over rows.                                                        *)

(***************************************************************************)
(* Every non-empty set of natural numbers has a least element: what the    *)
(* proofs by induction on the length of a file rest on.                    *)
(***************************************************************************)
LEMMA LeastNat ==
    ASSUME NEW T \in SUBSET Nat, T # {}
    PROVE  \E n \in T : \A m \in T : n <= m
<1> DEFINE R == OpToRel(<, Nat)
<1>1. IsWellFoundedOn(R, Nat)
  BY NatLessThanWellFounded
<1>2. \A x, y \in Nat : y < x => <<y, x>> \in R
  BY DEF OpToRel
<1> HIDE DEF R
<1>3. PICK n \in T : \A m \in T : ~(<<m, n>> \in R)
  BY <1>1, WFMin
<1>4. ASSUME NEW m \in T PROVE n <= m
  <2>1. n \in Nat /\ m \in Nat /\ ~(m < n)
    BY <1>2, <1>3
  <2> QED BY <2>1
<1> QED BY <1>4

\* The minimum that the fold over a sequence takes is there.
LEMMA MinIsLeast ==
    ASSUME NEW L \in Nat, NEW s \in SUBSET (1..L), s # {}
    PROVE  Min(s) \in s /\ \A y \in s : Min(s) <= y
<1>1. \E x \in s : \A y \in s : x <= y
  BY LeastNat
<1> QED
  BY <1>1 DEF Min

(***************************************************************************)
(* A recursion over the subsets of 1..L that takes the least element away  *)
(* each time defines a function: on the subsets of (k+1)..L for every k,   *)
(* from L down to 0.                                                       *)
(***************************************************************************)
Recurs(it, D, base, F) ==
    \A s \in SUBSET D :
        it[s] = IF s = {} THEN base ELSE F[<<Min(s), it[s \ {Min(s)}]>>]

\* There is a function that the recursion of the folds defines, for every step F.
LEMMA RecursionExists ==
    ASSUME NEW L \in Nat, NEW S, NEW base \in S, NEW F \in [(1..L) \X S -> S]
    PROVE  \E it \in [SUBSET (1..L) -> S] : Recurs(it, 1..L, base, F)
<1> DEFINE P(k) == \E it \in [SUBSET ((k + 1)..L) -> S] : Recurs(it, (k + 1)..L, base, F)
           T == {k \in 0..L : P(k)}
<1>1. L \in T
  <2>1. (L + 1)..L = {}
    OBVIOUS
  <2> DEFINE none == [s \in SUBSET ((L + 1)..L) |-> base]
  <2>2. none \in [SUBSET ((L + 1)..L) -> S]
    OBVIOUS
  <2>3. Recurs(none, (L + 1)..L, base, F)
    BY <2>1 DEF Recurs
  <2> HIDE DEF none
  <2>4. P(L)
    BY <2>2, <2>3
  <2> QED BY <2>4
<1>2. ASSUME NEW k \in T, k > 0 PROVE k - 1 \in T
  <2> DEFINE D == (k + 1)..L
             E == k..L
  <2>0. k \in 1..L /\ (k - 1) + 1 = k /\ k - 1 \in 0..L
    BY <1>2
  <2>1. PICK it \in [SUBSET D -> S] : Recurs(it, D, base, F)
    BY <1>2
  <2>2. ASSUME NEW s \in SUBSET E, s # {}
        PROVE  /\ Min(s) \in 1..L /\ s \ {Min(s)} \in SUBSET D
               /\ s \in SUBSET D => s \ {Min(s)} \in SUBSET D
    <3>1. s \in SUBSET (1..L)
      BY <2>0
    <3>2. Min(s) \in s /\ \A y \in s : Min(s) <= y
      BY <2>2, <3>1, MinIsLeast
    <3>3. ASSUME NEW y \in s, y # Min(s) PROVE y \in D
      <4>1. y \in k..L /\ Min(s) \in k..L /\ Min(s) <= y
        BY <3>2, <2>0
      <4> QED BY <4>1, <3>3, <2>0
    <3> QED
      BY <3>1, <3>2, <3>3
  <2> DEFINE step(s) == IF s = {} THEN base ELSE F[<<Min(s), it[s \ {Min(s)}]>>]
             new == [s \in SUBSET E |-> step(s)]
  <2>3. ASSUME NEW s \in SUBSET E PROVE step(s) \in S
    <3>1. CASE s = {}
      BY <3>1
    <3>2. CASE s # {}
      <4>1. <<Min(s), it[s \ {Min(s)}]>> \in (1..L) \X S
        BY <2>1, <2>2, <3>2
      <4> QED BY <4>1, <3>2
    <3> QED BY <3>1, <3>2
  <2>4. new \in [SUBSET E -> S]
    <3> HIDE DEF step
    <3> QED BY <2>3
  <2>5. ASSUME NEW s \in SUBSET D PROVE s \in SUBSET E /\ step(s) = it[s]
    BY <2>0, <2>1 DEF Recurs
  <2>6. Recurs(new, E, base, F)
    <3> SUFFICES ASSUME NEW s \in SUBSET E, s # {}
                 PROVE  new[s] = F[<<Min(s), new[s \ {Min(s)}]>>]
      BY DEF Recurs
    <3>1. s \ {Min(s)} \in SUBSET D
      BY <2>2
    <3>2. new[s \ {Min(s)}] = it[s \ {Min(s)}]
      <4> HIDE DEF step
      <4> QED BY <2>5, <3>1
    <3> QED
      BY <3>2
  <2>7. P(k - 1)
    <3>1. ((k - 1) + 1)..L = E
      BY <2>0
    <3> HIDE DEF new
    <3> QED BY <3>1, <2>4, <2>6
  <2> QED BY <2>0, <2>7
<1>3. 0 \in T
  <2>0. T \in SUBSET Nat /\ T # {}
    <3> HIDE DEF P
    <3> QED BY <1>1
  <2> HIDE DEF T
  <2>1. PICK k \in T : \A m \in T : k <= m
    BY <2>0, LeastNat
  <2>2. ~(k > 0)
    <3> SUFFICES ASSUME k > 0 PROVE FALSE
      OBVIOUS
    <3>1. k - 1 \in T /\ k \in Nat
      BY <1>2, <2>0
    <3>2. k <= k - 1
      BY <2>1, <3>1
    <3> QED BY <3>1, <3>2
  <2>3. k = 0
    BY <2>0, <2>2
  <2> QED BY <2>3
<1> QED
  <2>1. P(0)
    <3> HIDE DEF P
    <3> QED BY <1>3
  <2>2. (0 + 1)..L = 1..L
    OBVIOUS
  <2> QED BY <2>1, <2>2

(***************************************************************************)
(* Induction from the end of a file to its beginning.                      *)
(***************************************************************************)
LEMMA Downward ==
    ASSUME NEW L \in Nat, NEW T \in SUBSET (1..(L + 1)), L + 1 \in T,
           \A k \in 1..L : k + 1 \in T => k \in T
    PROVE  \A k \in 1..(L + 1) : k \in T
<1> SUFFICES ASSUME NEW k0 \in 1..(L + 1), k0 \notin T PROVE FALSE
  OBVIOUS
<1> DEFINE Left == {m \in 0..L : (L + 1) - m \notin T}
<1>1. Left \in SUBSET Nat /\ (L + 1) - k0 \in Left
  OBVIOUS
<1>2. PICK m \in Left : \A n \in Left : m <= n
  <2> HIDE DEF Left
  <2> QED BY <1>1, LeastNat
<1>3. m # 0
  OBVIOUS
<1>4. m - 1 \in 0..L /\ m - 1 \notin Left
  BY <1>2, <1>3
<1>5. (L + 1) - (m - 1) \in T /\ (L + 1) - m \in 1..L
      /\ ((L + 1) - m) + 1 = (L + 1) - (m - 1)
  BY <1>3, <1>4
<1> QED
  BY <1>5

(***************************************************************************)
(* The two folds of Doctor, suffix by suffix.                              *)
(***************************************************************************)
ValidIter(rows) ==
    CHOOSE iter : iter =
        [s \in SUBSET DOMAIN rows |->
            IF s = {} THEN <<>>
            ELSE IF Good(rows[Min(s)]) THEN <<rows[Min(s)]>> \o iter[s \ {Min(s)}]
                 ELSE iter[s \ {Min(s)}]]

DedupedIter(rows) ==
    CHOOSE iter : iter =
        [s \in SUBSET DOMAIN rows |->
            IF s = {} THEN <<>>
            ELSE IF \E i \in DOMAIN iter[s \ {Min(s)}] :
                       iter[s \ {Min(s)}][i].id = rows[Min(s)].id
                   THEN iter[s \ {Min(s)}]
                   ELSE <<rows[Min(s)]>> \o iter[s \ {Min(s)}]]

\* v[k] is what the fold makes of the rows from the k-th on.
ValidFrom(rows, v) ==
    /\ v \in [1..(Len(rows) + 1) -> Seq(Rows)]
    /\ v[Len(rows) + 1] = <<>>
    /\ \A k \in 1..Len(rows) :
          v[k] = IF Good(rows[k]) THEN <<rows[k]>> \o v[k + 1] ELSE v[k + 1]

DedupedFrom(rows, v) ==
    /\ v \in [1..(Len(rows) + 1) -> Seq(Rows)]
    /\ v[Len(rows) + 1] = <<>>
    /\ \A k \in 1..Len(rows) :
          v[k] = IF \E i \in DOMAIN v[k + 1] : v[k + 1][i].id = rows[k].id
                   THEN v[k + 1] ELSE <<rows[k]>> \o v[k + 1]

\* The sets that the folds go through are the suffixes of the index set.
LEMMA SuffixOf ==
    ASSUME NEW L \in Nat, NEW k \in 1..L
    PROVE  /\ k..L \in SUBSET (1..L) /\ k..L # {}
           /\ Min(k..L) = k /\ (k..L) \ {k} = (k + 1)..L
<1>1. k..L \in SUBSET (1..L) /\ k \in k..L
  OBVIOUS
<1>2. Min(k..L) \in k..L /\ Min(k..L) <= k
  BY <1>1, MinIsLeast
<1> QED
  BY <1>1, <1>2

\* ValidRows, suffix by suffix (_jsonl_report).
LEMMA ValidSuffixes ==
    ASSUME NEW rows \in Seq(Rows)
    PROVE  \E v : ValidFrom(rows, v) /\ v[1] = ValidRows(rows)
<1> DEFINE L == Len(rows)
           F == [p \in (1..L) \X Seq(Rows) |->
                   IF Good(rows[p[1]]) THEN <<rows[p[1]]>> \o p[2] ELSE p[2]]
           Body(iter) == [s \in SUBSET (1..L) |->
                   IF s = {} THEN <<>>
                   ELSE IF Good(rows[Min(s)]) THEN <<rows[Min(s)]>> \o iter[s \ {Min(s)}]
                        ELSE iter[s \ {Min(s)}]]
           c == ValidIter(rows)
           v == [k \in 1..(L + 1) |-> c[k..L]]
<1>0. L \in Nat /\ DOMAIN rows = 1..L /\ \A k \in 1..L : rows[k] \in Rows
  OBVIOUS
<1>1. F \in [(1..L) \X Seq(Rows) -> Seq(Rows)]
  <2> SUFFICES ASSUME NEW p \in (1..L) \X Seq(Rows)
               PROVE  <<rows[p[1]]>> \o p[2] \in Seq(Rows) /\ p[2] \in Seq(Rows)
    OBVIOUS
  <2>1. rows[p[1]] \in Rows /\ p[2] \in Seq(Rows)
    BY <1>0
  <2> QED BY <2>1
<1>2. PICK it \in [SUBSET (1..L) -> Seq(Rows)] : Recurs(it, 1..L, <<>>, F)
  <2> HIDE DEF F
  <2>1. <<>> \in Seq(Rows)
    OBVIOUS
  <2> QED BY <1>0, <1>1, <2>1, RecursionExists
<1>3. it = Body(it)
  <2> SUFFICES ASSUME NEW s \in SUBSET (1..L)
               PROVE  it[s] = Body(it)[s]
    OBVIOUS
  <2>1. CASE s = {}
    BY <1>2, <2>1 DEF Recurs
  <2>2. CASE s # {}
    <3>1. Min(s) \in 1..L /\ s \ {Min(s)} \in SUBSET (1..L)
      BY <1>0, <2>2, MinIsLeast
    <3>2. it[s] = F[<<Min(s), it[s \ {Min(s)}]>>]
      BY <1>2, <2>2 DEF Recurs
    <3> QED
      BY <2>2, <3>1, <3>2
  <2> QED BY <2>1, <2>2
<1>4. c = Body(c)
  <2>1. \E iter : iter = Body(iter)
    <3> HIDE DEF Body
    <3> QED BY <1>3
  <2>2. c = CHOOSE iter : iter = Body(iter)
    BY <1>0 DEF ValidIter
  <2> HIDE DEF Body, c
  <2> QED BY <2>1, <2>2
<1>5. v[1] = ValidRows(rows)
  BY <1>0 DEF ValidRows, FoldRight, MapThenFoldSet, ValidIter
<1>6. v[L + 1] = <<>>
  <2>1. (L + 1)..L = {}
    OBVIOUS
  <2>2. c[{}] = <<>>
    <3> HIDE DEF c
    <3> QED BY <1>4
  <2> QED BY <2>1, <2>2
<1>7. ASSUME NEW k \in 1..L
      PROVE  v[k] = IF Good(rows[k]) THEN <<rows[k]>> \o v[k + 1] ELSE v[k + 1]
  <2>1. c[k..L] = IF Good(rows[k]) THEN <<rows[k]>> \o c[(k + 1)..L] ELSE c[(k + 1)..L]
    <3>1. /\ k..L \in SUBSET (1..L) /\ k..L # {}
          /\ Min(k..L) = k /\ (k..L) \ {k} = (k + 1)..L
      BY <1>0, SuffixOf
    <3> HIDE DEF c
    <3>2. c[k..L] = Body(c)[k..L]
      BY <1>4
    <3> QED BY <3>1, <3>2
  <2> QED BY <2>1
<1>8. \A k \in 1..(L + 1) : v[k] \in Seq(Rows)
  <2> DEFINE T == {k \in 1..(L + 1) : v[k] \in Seq(Rows)}
  <2> HIDE DEF v
  <2>1. L + 1 \in T
    <3>1. L + 1 \in 1..(L + 1) /\ <<>> \in Seq(Rows)
      BY <1>0
    <3> QED BY <1>6, <3>1
  <2>2. ASSUME NEW k \in 1..L, k + 1 \in T PROVE k \in T
    <3>1. v[k + 1] \in Seq(Rows) /\ <<rows[k]>> \o v[k + 1] \in Seq(Rows)
      BY <1>0, <2>2
    <3>2. v[k] \in Seq(Rows)
      BY <1>7, <3>1
    <3> QED BY <1>0, <3>2
  <2>3. T \in SUBSET (1..(L + 1))
    OBVIOUS
  <2>4. \A k \in 1..(L + 1) : k \in T
    <3> HIDE DEF T
    <3> QED BY <1>0, <2>1, <2>2, <2>3, Downward
  <2> QED BY <2>4
<1>9. ValidFrom(rows, v)
  <2>1. v \in [1..(L + 1) -> Seq(Rows)]
    BY <1>8
  <2> HIDE DEF v
  <2> QED BY <1>6, <1>7, <2>1 DEF ValidFrom
<1> HIDE DEF v
<1> QED
  BY <1>5, <1>9

\* DedupedRows, suffix by suffix (_compact_rows).
LEMMA DedupedSuffixes ==
    ASSUME NEW rows \in Seq(Rows)
    PROVE  \E v : DedupedFrom(rows, v) /\ v[1] = DedupedRows(rows)
<1> DEFINE L == Len(rows)
           F == [p \in (1..L) \X Seq(Rows) |->
                   IF \E i \in DOMAIN p[2] : p[2][i].id = rows[p[1]].id
                     THEN p[2] ELSE <<rows[p[1]]>> \o p[2]]
           Body(iter) == [s \in SUBSET (1..L) |->
                   IF s = {} THEN <<>>
                   ELSE IF \E i \in DOMAIN iter[s \ {Min(s)}] :
                              iter[s \ {Min(s)}][i].id = rows[Min(s)].id
                          THEN iter[s \ {Min(s)}]
                          ELSE <<rows[Min(s)]>> \o iter[s \ {Min(s)}]]
           c == DedupedIter(rows)
           v == [k \in 1..(L + 1) |-> c[k..L]]
<1>0. L \in Nat /\ DOMAIN rows = 1..L /\ \A k \in 1..L : rows[k] \in Rows
  OBVIOUS
<1>1. F \in [(1..L) \X Seq(Rows) -> Seq(Rows)]
  <2> SUFFICES ASSUME NEW p \in (1..L) \X Seq(Rows)
               PROVE  <<rows[p[1]]>> \o p[2] \in Seq(Rows) /\ p[2] \in Seq(Rows)
    OBVIOUS
  <2>1. rows[p[1]] \in Rows /\ p[2] \in Seq(Rows)
    BY <1>0
  <2> QED BY <2>1
<1>2. PICK it \in [SUBSET (1..L) -> Seq(Rows)] : Recurs(it, 1..L, <<>>, F)
  <2> HIDE DEF F
  <2>1. <<>> \in Seq(Rows)
    OBVIOUS
  <2> QED BY <1>0, <1>1, <2>1, RecursionExists
<1>3. it = Body(it)
  <2> SUFFICES ASSUME NEW s \in SUBSET (1..L)
               PROVE  it[s] = Body(it)[s]
    OBVIOUS
  <2>1. CASE s = {}
    BY <1>2, <2>1 DEF Recurs
  <2>2. CASE s # {}
    <3>1. Min(s) \in 1..L /\ s \ {Min(s)} \in SUBSET (1..L)
      BY <1>0, <2>2, MinIsLeast
    <3>2. it[s] = F[<<Min(s), it[s \ {Min(s)}]>>]
      BY <1>2, <2>2 DEF Recurs
    <3> QED
      BY <2>2, <3>1, <3>2
  <2> QED BY <2>1, <2>2
<1>4. c = Body(c)
  <2>1. \E iter : iter = Body(iter)
    <3> HIDE DEF Body
    <3> QED BY <1>3
  <2>2. c = CHOOSE iter : iter = Body(iter)
    BY <1>0 DEF DedupedIter
  <2> HIDE DEF Body, c
  <2> QED BY <2>1, <2>2
<1>5. v[1] = DedupedRows(rows)
  BY <1>0 DEF DedupedRows, FoldRight, MapThenFoldSet, DedupedIter
<1>6. v[L + 1] = <<>>
  <2>1. (L + 1)..L = {}
    OBVIOUS
  <2>2. c[{}] = <<>>
    <3> HIDE DEF c
    <3> QED BY <1>4
  <2> QED BY <2>1, <2>2
<1>7. ASSUME NEW k \in 1..L
      PROVE  v[k] = IF \E i \in DOMAIN v[k + 1] : v[k + 1][i].id = rows[k].id
                      THEN v[k + 1] ELSE <<rows[k]>> \o v[k + 1]
  <2>1. c[k..L] = IF \E i \in DOMAIN c[(k + 1)..L] : c[(k + 1)..L][i].id = rows[k].id
                    THEN c[(k + 1)..L] ELSE <<rows[k]>> \o c[(k + 1)..L]
    <3>1. /\ k..L \in SUBSET (1..L) /\ k..L # {}
          /\ Min(k..L) = k /\ (k..L) \ {k} = (k + 1)..L
      BY <1>0, SuffixOf
    <3> HIDE DEF c
    <3>2. c[k..L] = Body(c)[k..L]
      BY <1>4
    <3> QED BY <3>1, <3>2
  <2> QED BY <2>1
<1>8. \A k \in 1..(L + 1) : v[k] \in Seq(Rows)
  <2> DEFINE T == {k \in 1..(L + 1) : v[k] \in Seq(Rows)}
  <2> HIDE DEF v
  <2>1. L + 1 \in T
    <3>1. L + 1 \in 1..(L + 1) /\ <<>> \in Seq(Rows)
      BY <1>0
    <3> QED BY <1>6, <3>1
  <2>2. ASSUME NEW k \in 1..L, k + 1 \in T PROVE k \in T
    <3>1. v[k + 1] \in Seq(Rows) /\ <<rows[k]>> \o v[k + 1] \in Seq(Rows)
      BY <1>0, <2>2
    <3>2. v[k] \in Seq(Rows)
      BY <1>7, <3>1
    <3> QED BY <1>0, <3>2
  <2>3. T \in SUBSET (1..(L + 1))
    OBVIOUS
  <2>4. \A k \in 1..(L + 1) : k \in T
    <3> HIDE DEF T
    <3> QED BY <1>0, <2>1, <2>2, <2>3, Downward
  <2> QED BY <2>4
<1>9. DedupedFrom(rows, v)
  <2>1. v \in [1..(L + 1) -> Seq(Rows)]
    BY <1>8
  <2> HIDE DEF v
  <2> QED BY <1>6, <1>7, <2>1 DEF DedupedFrom
<1> HIDE DEF v
<1> QED
  BY <1>5, <1>9

(***************************************************************************)
(* Rows that are some of the rows of a file, in the same order: each is    *)
(* one of them from the k-th on, and any two of them follow each other.    *)
(***************************************************************************)
WithinFrom(new, old, k) ==
    /\ new \in Seq(Rows)
    /\ \A i \in DOMAIN new : \E p \in DOMAIN old : p >= k /\ new[i] = old[p]
    /\ \A i, j \in DOMAIN new : i < j =>
          \E p, q \in DOMAIN old : k <= p /\ p < q /\ new[i] = old[p] /\ new[j] = old[q]

Within(new, old) == WithinFrom(new, old, 1)

\* A subsequence of what follows row k is one of what begins with it.
LEMMA WithinSkips ==
    ASSUME NEW rows \in Seq(Rows), NEW k \in 1..Len(rows), NEW rest,
           WithinFrom(rest, rows, k + 1)
    PROVE  WithinFrom(rest, rows, k)
<1>1. \A p \in DOMAIN rows : p \in Nat /\ (p >= k + 1 => p >= k) /\ (k + 1 <= p => k <= p)
  OBVIOUS
<1> QED
  BY <1>1 DEF WithinFrom

\* So it is with row k put before it.
LEMMA WithinPrepends ==
    ASSUME NEW rows \in Seq(Rows), NEW k \in 1..Len(rows), NEW rest,
           WithinFrom(rest, rows, k + 1)
    PROVE  WithinFrom(<<rows[k]>> \o rest, rows, k)
<1> DEFINE new == <<rows[k]>> \o rest
<1>0. rest \in Seq(Rows) /\ rows[k] \in Rows /\ k \in DOMAIN rows /\ k \in Nat
  BY DEF WithinFrom
<1>1. /\ new \in Seq(Rows) /\ Len(new) = Len(rest) + 1 /\ new[1] = rows[k]
      /\ \A i \in 2..Len(new) : i - 1 \in DOMAIN rest /\ new[i] = rest[i - 1]
  BY <1>0
<1> HIDE DEF new
<1>2. ASSUME NEW i \in DOMAIN new PROVE i = 1 \/ i \in 2..Len(new)
  BY <1>0, <1>1
<1>3. ASSUME NEW i \in 2..Len(new)
      PROVE  \E p \in DOMAIN rows : p >= k + 1 /\ new[i] = rows[p]
  <2>1. i - 1 \in DOMAIN rest /\ new[i] = rest[i - 1]
    BY <1>1, <1>3
  <2>2. \E p \in DOMAIN rows : p >= k + 1 /\ rest[i - 1] = rows[p]
    BY <2>1 DEF WithinFrom
  <2> QED BY <2>1, <2>2
<1>4. \A p \in DOMAIN rows : p \in Nat /\ (p >= k + 1 => p >= k /\ k < p)
  BY <1>0
<1>5. ASSUME NEW i \in DOMAIN new
      PROVE  \E p \in DOMAIN rows : p >= k /\ new[i] = rows[p]
  BY <1>0, <1>1, <1>2, <1>3, <1>4
<1>6. ASSUME NEW i \in DOMAIN new, NEW j \in DOMAIN new, i < j
      PROVE  \E p, q \in DOMAIN rows :
                k <= p /\ p < q /\ new[i] = rows[p] /\ new[j] = rows[q]
  <2>1. j \in 2..Len(new)
    BY <1>1, <1>2, <1>6
  <2>2. CASE i = 1
    <3>1. PICK q \in DOMAIN rows : q >= k + 1 /\ new[j] = rows[q]
      BY <1>3, <2>1
    <3> QED
      BY <1>0, <1>1, <1>4, <2>2, <3>1
  <2>3. CASE i \in 2..Len(new)
    <3>1. /\ i - 1 \in DOMAIN rest /\ j - 1 \in DOMAIN rest /\ i - 1 < j - 1
          /\ new[i] = rest[i - 1] /\ new[j] = rest[j - 1]
      BY <1>1, <1>6, <2>1, <2>3
    <3>2. PICK p, q \in DOMAIN rows :
             k + 1 <= p /\ p < q /\ rest[i - 1] = rows[p] /\ rest[j - 1] = rows[q]
      BY <3>1 DEF WithinFrom
    <3> QED
      BY <1>4, <3>1, <3>2
  <2> QED BY <1>2, <2>2, <2>3
<1>7. new \in Seq(Rows)
  BY <1>1
<1>8. WithinFrom(new, rows, k)
  BY <1>5, <1>6, <1>7 DEF WithinFrom
<1> QED
  BY <1>8 DEF new

\* A subsequence of a subsequence is one.
LEMMA WithinIsTransitive ==
    ASSUME NEW a, NEW b \in Seq(Rows), NEW c, Within(a, b), Within(b, c)
    PROVE  Within(a, c)
  BY DEF Within, WithinFrom

\* Rows are a subsequence of themselves.
LEMMA WithinItself ==
    ASSUME NEW rows \in Seq(Rows)
    PROVE  Within(rows, rows)
  BY DEF Within, WithinFrom

(***************************************************************************)
(* _load_all and _jsonl_report keep the valid rows, all of them, in their  *)
(* order; no row is counted as not valid exactly if all are valid.         *)
(***************************************************************************)
ValidOf(rows, k, valid) ==
    /\ WithinFrom(valid, rows, k)
    /\ \A i \in DOMAIN valid : Good(valid[i])
    /\ \A p \in k..Len(rows) : Good(rows[p]) => \E i \in DOMAIN valid : valid[i] = rows[p]
    /\ Len(valid) <= Len(rows) + 1 - k
    /\ Len(valid) = Len(rows) + 1 - k <=> \A p \in k..Len(rows) : Good(rows[p])

\* ValidRows keeps exactly the valid rows, in their order.
LEMMA ValidIsValid ==
    ASSUME NEW rows \in Seq(Rows)
    PROVE  ValidOf(rows, 1, ValidRows(rows))
<1> DEFINE L == Len(rows)
<1>0. L \in Nat /\ \A k \in 1..L : rows[k] \in Rows
  OBVIOUS
<1>1. PICK v : ValidFrom(rows, v) /\ v[1] = ValidRows(rows)
  BY ValidSuffixes
<1> DEFINE T == {k \in 1..(L + 1) : ValidOf(rows, k, v[k])}
<1>2. L + 1 \in T
  <2>1. v[L + 1] = <<>> /\ (L + 1)..L = {} /\ L + 1 \in 1..(L + 1)
    BY <1>0, <1>1 DEF ValidFrom
  <2>2. ValidOf(rows, L + 1, <<>>)
    BY <1>0, <2>1 DEF ValidOf, WithinFrom
  <2> QED BY <2>1, <2>2
<1>3. ASSUME NEW k \in 1..L, k + 1 \in T PROVE k \in T
  <2>0. /\ k \in Nat /\ k + 1 \in Nat /\ k \in 1..(L + 1)
        /\ \A p \in k..L : p = k \/ p \in (k + 1)..L
        /\ \A p \in (k + 1)..L : p \in k..L
        /\ k \in k..L
    BY <1>0
  <2>1. ValidOf(rows, k + 1, v[k + 1]) /\ v[k + 1] \in Seq(Rows)
    BY <1>3 DEF ValidOf, WithinFrom
  <2>2. CASE ~Good(rows[k])
    <3>1. v[k] = v[k + 1]
      BY <1>1, <2>2 DEF ValidFrom
    <3>2. WithinFrom(v[k], rows, k)
      BY <2>1, <3>1, WithinSkips DEF ValidOf
    <3>3. Len(v[k]) <= L - k /\ Len(v[k]) \in Nat
      BY <1>0, <2>0, <2>1, <3>1 DEF ValidOf
    <3>4. Len(v[k]) <= L + 1 - k /\ Len(v[k]) # L + 1 - k
      BY <1>0, <2>0, <3>3
    <3>5. ValidOf(rows, k, v[k])
      BY <2>0, <2>1, <2>2, <3>1, <3>2, <3>4 DEF ValidOf
    <3> QED BY <2>0, <3>5
  <2>3. CASE Good(rows[k])
    <3> DEFINE rest == v[k + 1]
               new == <<rows[k]>> \o rest
    <3>1. v[k] = new
      BY <1>1, <2>3 DEF ValidFrom
    <3>2. WithinFrom(new, rows, k)
      BY <2>1, WithinPrepends DEF ValidOf
    <3>3. /\ new \in Seq(Rows) /\ Len(new) = Len(rest) + 1 /\ new[1] = rows[k]
          /\ \A i \in 2..Len(new) : i - 1 \in DOMAIN rest /\ new[i] = rest[i - 1]
          /\ \A i \in DOMAIN rest : i + 1 \in DOMAIN new /\ new[i + 1] = rest[i]
          /\ DOMAIN new = 1..Len(new) /\ Len(rest) \in Nat
      <4>1. rows[k] \in Rows
        BY <1>0
      <4> QED BY <2>1, <4>1
    <3> HIDE DEF new, rest
    <3>4. ASSUME NEW i \in DOMAIN new PROVE Good(new[i])
      <4>1. CASE i = 1
        BY <2>3, <3>3, <4>1
      <4>2. CASE i \in 2..Len(new)
        BY <2>1, <3>3, <4>2 DEF ValidOf, rest
      <4> QED BY <3>3, <4>1, <4>2
    <3>5. ASSUME NEW p \in k..L, Good(rows[p])
          PROVE  \E i \in DOMAIN new : new[i] = rows[p]
      <4>1. CASE p = k
        BY <3>3, <4>1
      <4>2. CASE p \in (k + 1)..L
        <5>1. PICK i \in DOMAIN rest : rest[i] = rows[p]
          BY <2>1, <3>5, <4>2 DEF ValidOf, rest
        <5> QED BY <3>3, <5>1
      <4> QED BY <2>0, <4>1, <4>2
    <3>6. /\ Len(rest) <= L + 1 - (k + 1)
          /\ Len(rest) = L + 1 - (k + 1) <=> \A p \in (k + 1)..L : Good(rows[p])
      BY <2>1 DEF ValidOf, rest
    <3>7. Len(new) <= L + 1 - k
      BY <1>0, <2>0, <3>3, <3>6
    <3>8. Len(new) = L + 1 - k <=> Len(rest) = L + 1 - (k + 1)
      <4>1. ASSUME NEW n \in Nat, NEW m \in Nat, n = m + 1
            PROVE  n = L + 1 - k <=> m = L + 1 - (k + 1)
        BY <1>0, <2>0, <4>1
      <4>2. Len(new) \in Nat
        BY <3>3
      <4> QED BY <3>3, <4>1, <4>2
    <3>9. (\A p \in k..L : Good(rows[p])) <=> \A p \in (k + 1)..L : Good(rows[p])
      BY <2>0, <2>3
    <3>10. ValidOf(rows, k, new)
      BY <3>2, <3>4, <3>5, <3>6, <3>7, <3>8, <3>9 DEF ValidOf
    <3> QED BY <2>0, <3>1, <3>10
  <2> QED BY <2>2, <2>3
<1>4. \A k \in 1..(L + 1) : k \in T
  <2>1. T \in SUBSET (1..(L + 1))
    OBVIOUS
  <2> HIDE DEF T
  <2> QED BY <1>0, <1>2, <1>3, <2>1, Downward
<1> QED
  BY <1>0, <1>1, <1>4

-----------------------------------------------------------------------------
(* What a compaction keeps.                                                *)

(***************************************************************************)
(* The ranks of the elements of a set of positions: from 1 on, in order    *)
(* and without a gap.                                                      *)
(***************************************************************************)
Rank(S, i) == Cardinality({j \in S : j <= i})

\* The ranks of the members of S number them from one, in their order.
LEMMA Ranks ==
    ASSUME NEW L \in Nat, NEW S \in SUBSET (1..L)
    PROVE  /\ IsFiniteSet(S) /\ Cardinality(S) \in 0..L
           /\ \A i \in S : Rank(S, i) \in 1..Cardinality(S)
           /\ \A i, j \in S : i < j => Rank(S, i) < Rank(S, j)
           /\ \A i, j \in S : Rank(S, i) <= Rank(S, j) => i <= j
           /\ \A m \in 1..Cardinality(S) : \E i \in S : Rank(S, i) = m
<1> DEFINE n == Cardinality(S)
<1>0. ASSUME NEW i \in S PROVE i \in 1..L /\ i \in Nat
  OBVIOUS
<1>1. IsFiniteSet(S) /\ n \in Nat /\ n <= L
  <2>1. IsFiniteSet(1..L) /\ Cardinality(1..L) = L
    BY FS_Interval
  <2> QED BY <2>1, FS_Subset, FS_CardinalityType
<1>2. ASSUME NEW i \in S
      PROVE  /\ IsFiniteSet({j \in S : j <= i}) /\ Rank(S, i) \in Nat
             /\ Rank(S, i) <= n /\ Rank(S, i) # 0
  <2>1. {j \in S : j <= i} \in SUBSET S /\ i \in {j \in S : j <= i}
    OBVIOUS
  <2> QED
    BY <1>1, <2>1, FS_Subset, FS_CardinalityType, FS_EmptySet DEF Rank
<1>3. ASSUME NEW i \in S, NEW j \in S, i < j
      PROVE  Rank(S, i) < Rank(S, j)
  <2> DEFINE A == {k \in S : k <= i}
             B == {k \in S : k <= j}
  <2>1. A \in SUBSET B /\ j \in B /\ j \notin A
    <3>1. \A k \in S : k <= i => k <= j
      BY <1>0, <1>3
    <3>2. ~(j <= i) /\ j <= j
      BY <1>0, <1>3
    <3> QED BY <3>1, <3>2
  <2>2. IsFiniteSet(B) /\ Cardinality(A) \in Nat /\ Cardinality(B) \in Nat
    BY <1>2 DEF Rank
  <2>3. Cardinality(A) <= Cardinality(B) /\ Cardinality(A) # Cardinality(B)
    <3> HIDE DEF A, B
    <3> QED BY <2>1, <2>2, FS_Subset
  <2> QED BY <2>2, <2>3 DEF Rank
<1>4. ASSUME NEW i \in S, NEW j \in S, Rank(S, i) <= Rank(S, j)
      PROVE  i <= j
  <2>1. i \in Nat /\ j \in Nat /\ Rank(S, i) \in Nat /\ Rank(S, j) \in Nat
    BY <1>0, <1>2
  <2>2. ~(j < i)
    BY <1>3, <1>4, <2>1
  <2> QED BY <2>1, <2>2
<1>5. ASSUME NEW i \in S PROVE Rank(S, i) \in 1..n
  <2>1. Rank(S, i) \in Nat /\ Rank(S, i) <= n /\ Rank(S, i) # 0
    BY <1>2
  <2> HIDE DEF n
  <2> QED BY <1>1, <2>1
<1>6. ASSUME NEW m \in 1..n PROVE \E i \in S : Rank(S, i) = m
  <2> DEFINE f == [i \in S |-> Rank(S, i)]
  <2>1. f \in [S -> 1..n]
    <3> HIDE DEF n
    <3> QED BY <1>5
  <2>2. ASSUME NEW i \in S, NEW j \in S, f[i] = f[j] PROVE i = j
    <3>1. Rank(S, i) <= Rank(S, j) /\ Rank(S, j) <= Rank(S, i)
      <4>1. Rank(S, i) \in Nat /\ Rank(S, i) = Rank(S, j)
        BY <1>2, <2>2
      <4> QED BY <4>1
    <3>2. i <= j /\ j <= i
      BY <1>4, <3>1
    <3> QED BY <1>0, <3>2
  <2>3. f \in Injection(S, 1..n)
    <3> HIDE DEF f
    <3> QED BY <2>1, <2>2 DEF Injection, IsInjective
  <2>4. IsFiniteSet(1..n) /\ Cardinality(1..n) = n
    BY <1>1, FS_Interval
  <2>5. f \in Surjection(S, 1..n)
    <3> HIDE DEF f
    <3> QED BY <2>3, <2>4, FS_Injection
  <2>6. \E i \in S : f[i] = m
    <3> HIDE DEF f
    <3> QED BY <2>5 DEF Surjection
  <2> QED BY <2>6
<1>7. n \in 0..L /\ \A i \in S : Rank(S, i) \in 1..n
  BY <1>1, <1>5
<1> QED
  BY <1>1, <1>3, <1>4, <1>6, <1>7

(***************************************************************************)
(* _compact_rows keeps of each id the newest copy, the last one in the     *)
(* file, in the order of the file.                                         *)
(***************************************************************************)
NewestFrom(rows, k) ==
    {i \in k..Len(rows) : \A j \in (i + 1)..Len(rows) : rows[j].id # rows[i].id}

\* new lists the rows at these positions of old.
Lists(new, old, S) ==
    /\ Len(new) = Cardinality(S)
    /\ \A i \in S : new[Rank(S, i)] = old[i]

Distinct(rows) == \A i, j \in DOMAIN rows : rows[i].id = rows[j].id => i = j

DedupedOf(rows, k, kept) ==
    /\ WithinFrom(kept, rows, k)
    /\ Distinct(kept)
    /\ \A p \in k..Len(rows) : \E i \in DOMAIN kept : kept[i].id = rows[p].id
    /\ Lists(kept, rows, NewestFrom(rows, k))

\* A list of the rows at S, with row k before it, lists those at S and k.
LEMMA ListsPrepends ==
    ASSUME NEW rows \in Seq(Rows), NEW k \in 1..Len(rows), NEW rest \in Seq(Rows),
           NEW S \in SUBSET ((k + 1)..Len(rows)), Lists(rest, rows, S)
    PROVE  Lists(<<rows[k]>> \o rest, rows, {k} \cup S)
<1> DEFINE L == Len(rows)
           new == <<rows[k]>> \o rest
           U == {k} \cup S
<1>0. /\ L \in Nat /\ k \in Nat /\ k \notin S /\ rows[k] \in Rows
      /\ S \in SUBSET (1..L) /\ U \in SUBSET (1..L) /\ \A j \in S : k < j
  OBVIOUS
<1>1. IsFiniteSet(S) /\ Cardinality(S) \in Nat /\ Cardinality(U) = Cardinality(S) + 1
  <2>1. IsFiniteSet(S) /\ U = S \cup {k}
    BY <1>0, Ranks
  <2> QED BY <1>0, <2>1, FS_AddElement, FS_CardinalityType
<1>2. Rank(U, k) = 1
  <2>1. {j \in U : j <= k} = {k}
    <3>1. k <= k /\ \A j \in S : ~(j <= k)
      BY <1>0
    <3> QED BY <3>1
  <2> QED BY <2>1, FS_Singleton DEF Rank
<1>3. ASSUME NEW i \in S PROVE Rank(U, i) = Rank(S, i) + 1 /\ Rank(S, i) \in 1..Len(rest)
  <2>1. {j \in U : j <= i} = {j \in S : j <= i} \cup {k}
    BY <1>0
  <2>2. IsFiniteSet({j \in S : j <= i}) /\ k \notin {j \in S : j <= i}
    BY <1>0, <1>1, FS_Subset
  <2>3. Rank(S, i) \in 1..Cardinality(S)
    BY <1>0, Ranks
  <2> QED
    BY <2>1, <2>2, <2>3, FS_AddElement DEF Rank, Lists
<1>4. /\ Len(new) = Len(rest) + 1 /\ new[1] = rows[k]
      /\ \A m \in 1..Len(rest) : new[m + 1] = rest[m]
  BY <1>0
<1> HIDE DEF new, U
<1>5. \A i \in U : i = k \/ i \in S
  BY DEF U
<1>6. ASSUME NEW i \in U PROVE new[Rank(U, i)] = rows[i]
  <2>1. CASE i = k
    BY <1>2, <1>4, <2>1
  <2>2. CASE i \in S
    BY <1>3, <1>4, <2>2 DEF Lists
  <2> QED BY <1>5, <2>1, <2>2
<1>7. Len(new) = Cardinality(U)
  BY <1>1, <1>4 DEF Lists
<1> QED
  BY <1>6, <1>7 DEF Lists, new, U

\* DedupedRows lists the rows whose id no later row has.
LEMMA DedupedIsNewest ==
    ASSUME NEW rows \in Seq(Rows)
    PROVE  DedupedOf(rows, 1, DedupedRows(rows))
<1> DEFINE L == Len(rows)
<1>0. L \in Nat /\ \A k \in 1..L : rows[k] \in Rows /\ k \in DOMAIN rows
  OBVIOUS
<1>1. PICK v : DedupedFrom(rows, v) /\ v[1] = DedupedRows(rows)
  BY DedupedSuffixes
<1> DEFINE T == {k \in 1..(L + 1) : DedupedOf(rows, k, v[k])}
<1>2. L + 1 \in T
  <2>1. v[L + 1] = <<>> /\ (L + 1)..L = {} /\ L + 1 \in 1..(L + 1)
    BY <1>0, <1>1 DEF DedupedFrom
  <2>2. NewestFrom(rows, L + 1) = {}
    BY <2>1 DEF NewestFrom
  <2>3. Lists(<<>>, rows, {})
    BY FS_EmptySet DEF Lists
  <2>4. DOMAIN (<<>>) = {} /\ <<>> \in Seq(Rows)
    OBVIOUS
  <2>5. WithinFrom(<<>>, rows, L + 1) /\ Distinct(<<>>)
    BY <2>4 DEF WithinFrom, Distinct
  <2>6. DedupedOf(rows, L + 1, <<>>)
    BY <2>1, <2>2, <2>3, <2>5 DEF DedupedOf
  <2> QED BY <2>1, <2>6
<1>3. ASSUME NEW k \in 1..L, k + 1 \in T PROVE k \in T
  <2> DEFINE rest == v[k + 1]
             new == <<rows[k]>> \o rest
  <2>0. /\ k \in Nat /\ k + 1 \in Nat /\ k \in 1..(L + 1)
        /\ \A p \in k..L : p = k \/ p \in (k + 1)..L
        /\ \A p \in (k + 1)..L : p \in k..L
        /\ k \in k..L /\ k \notin (k + 1)..L
    BY <1>0
  <2>1. DedupedOf(rows, k + 1, rest) /\ rest \in Seq(Rows)
    BY <1>3 DEF DedupedOf, WithinFrom
  <2>2. (\E i \in DOMAIN rest : rest[i].id = rows[k].id)
          <=> \E j \in (k + 1)..L : rows[j].id = rows[k].id
    <3>1. ASSUME NEW i \in DOMAIN rest
          PROVE  \E j \in (k + 1)..L : rows[j] = rest[i]
      <4>1. PICK p \in DOMAIN rows : p >= k + 1 /\ rest[i] = rows[p]
        BY <2>1 DEF DedupedOf, WithinFrom
      <4>2. p \in (k + 1)..L
        BY <1>0, <2>0, <4>1
      <4> QED BY <4>1, <4>2
    <3>2. \A p \in (k + 1)..L : \E i \in DOMAIN rest : rest[i].id = rows[p].id
      BY <2>1 DEF DedupedOf
    <3> HIDE DEF rest
    <3> QED BY <3>1, <3>2
  <2>3. CASE \E i \in DOMAIN rest : rest[i].id = rows[k].id
    <3>1. v[k] = rest
      BY <1>1, <2>3 DEF DedupedFrom
    <3>2. WithinFrom(rest, rows, k)
      BY <2>1, WithinSkips DEF DedupedOf
    <3>3. NewestFrom(rows, k) = NewestFrom(rows, k + 1)
      BY <2>0, <2>2, <2>3 DEF NewestFrom
    <3> HIDE DEF rest
    <3>4. \A p \in k..L : \E i \in DOMAIN rest : rest[i].id = rows[p].id
      BY <2>0, <2>1, <2>3 DEF DedupedOf
    <3>5. DedupedOf(rows, k, rest)
      BY <2>1, <3>2, <3>3, <3>4 DEF DedupedOf
    <3> QED BY <2>0, <3>1, <3>5
  <2>4. CASE ~\E i \in DOMAIN rest : rest[i].id = rows[k].id
    <3>1. v[k] = new
      BY <1>1, <2>4 DEF DedupedFrom
    <3>2. WithinFrom(new, rows, k)
      BY <2>1, WithinPrepends DEF DedupedOf
    <3>3. NewestFrom(rows, k) = {k} \cup NewestFrom(rows, k + 1)
      <4>1. \A j \in (k + 1)..L : rows[j].id # rows[k].id
        BY <2>2, <2>4
      <4> QED BY <2>0, <4>1 DEF NewestFrom
    <3>4. NewestFrom(rows, k + 1) \in SUBSET ((k + 1)..L)
      BY DEF NewestFrom
    <3>5. Lists(new, rows, NewestFrom(rows, k))
      BY <2>1, <3>3, <3>4, ListsPrepends DEF DedupedOf
    <3>6. /\ new \in Seq(Rows) /\ Len(new) = Len(rest) + 1 /\ new[1] = rows[k]
          /\ \A i \in 2..Len(new) : i - 1 \in DOMAIN rest /\ new[i] = rest[i - 1]
          /\ \A i \in DOMAIN rest : i + 1 \in DOMAIN new /\ new[i + 1] = rest[i]
          /\ DOMAIN new = 1..Len(new) /\ Len(rest) \in Nat
      <4>1. rows[k] \in Rows
        BY <1>0
      <4> QED BY <2>1, <4>1
    <3> HIDE DEF new, rest
    <3>7. \A i \in DOMAIN new : i = 1 \/ i \in 2..Len(new)
      BY <3>6
    <3>8. Distinct(rest)
      BY <2>1 DEF DedupedOf
    <3>9. ASSUME NEW i \in DOMAIN new, NEW j \in DOMAIN new, new[i].id = new[j].id
          PROVE  i = j
      <4>1. CASE i = 1 /\ j = 1
        BY <4>1
      <4>2. CASE i = 1 /\ j \in 2..Len(new)
        BY <2>4, <3>6, <3>9, <4>2
      <4>3. CASE i \in 2..Len(new) /\ j = 1
        BY <2>4, <3>6, <3>9, <4>3
      <4>4. CASE i \in 2..Len(new) /\ j \in 2..Len(new)
        <5>1. rest[i - 1].id = rest[j - 1].id /\ i - 1 \in DOMAIN rest /\ j - 1 \in DOMAIN rest
          BY <3>6, <3>9, <4>4
        <5>2. i - 1 = j - 1 /\ i \in Nat /\ j \in Nat
          BY <3>8, <4>4, <5>1 DEF Distinct
        <5> QED BY <5>2
      <4> QED BY <3>7, <4>1, <4>2, <4>3, <4>4
    <3>10. ASSUME NEW p \in k..L PROVE \E i \in DOMAIN new : new[i].id = rows[p].id
      <4>1. CASE p = k
        BY <3>6, <4>1
      <4>2. CASE p \in (k + 1)..L
        <5>1. PICK i \in DOMAIN rest : rest[i].id = rows[p].id
          BY <2>1, <4>2 DEF DedupedOf
        <5> QED BY <3>6, <5>1
      <4> QED BY <2>0, <4>1, <4>2
    <3>11. Distinct(new)
      BY <3>9 DEF Distinct
    <3>12. DedupedOf(rows, k, new)
      BY <3>2, <3>5, <3>10, <3>11 DEF DedupedOf
    <3> QED BY <2>0, <3>1, <3>12
  <2> QED BY <2>3, <2>4
<1>4. \A k \in 1..(L + 1) : k \in T
  <2>1. T \in SUBSET (1..(L + 1))
    OBVIOUS
  <2> HIDE DEF T
  <2> QED BY <1>0, <1>2, <1>3, <2>1, Downward
<1> QED
  BY <1>0, <1>1, <1>4

(***************************************************************************)
(* The last n rows: how many they are, which, and that they are rows of    *)
(* the file in its order.                                                  *)
(***************************************************************************)
Cut(rows, n) == IF Len(rows) > n THEN Len(rows) - n ELSE 0

\* LastRows are the rows behind the first Cut ones.
LEMMA LastOfRows ==
    ASSUME NEW rows \in Seq(Rows), NEW n \in Nat
    PROVE  /\ LastRows(rows, n) \in Seq(Rows)
           /\ Cut(rows, n) \in 0..Len(rows)
           /\ Len(LastRows(rows, n)) = Len(rows) - Cut(rows, n)
           /\ \A k \in 1..(Len(rows) - Cut(rows, n)) :
                 /\ k + Cut(rows, n) \in DOMAIN rows
                 /\ LastRows(rows, n)[k] = rows[k + Cut(rows, n)]
           /\ Within(LastRows(rows, n), rows)
<1> DEFINE L == Len(rows)
           c == Cut(rows, n)
           new == LastRows(rows, n)
<1>1. L \in Nat /\ c \in 0..L
  BY DEF Cut
<1>2. new = SubSeq(rows, c + 1, L)
  BY DEF LastRows, Cut
<1> HIDE DEF c
<1>3. new \in Seq(Rows) /\ Len(new) = L - c
  <2>1. SubSeq(rows, c + 1, L) \in Seq(Rows)
    BY <1>1
  <2>2. Len(SubSeq(rows, c + 1, L)) = L - c
    BY <1>1
  <2> QED BY <1>2, <2>1, <2>2
<1>4. ASSUME NEW k \in 1..(L - c)
      PROVE  k + c \in DOMAIN rows /\ new[k] = rows[k + c]
  BY <1>1, <1>2
<1>5. Within(new, rows)
  <2>1. ASSUME NEW i \in DOMAIN new
        PROVE  i \in 1..(L - c) /\ i \in Nat /\ i + c >= 1
    BY <1>1, <1>3
  <2>2. ASSUME NEW i \in DOMAIN new
        PROVE  \E p \in DOMAIN rows : p >= 1 /\ new[i] = rows[p]
    BY <1>4, <2>1
  <2>3. ASSUME NEW i \in DOMAIN new, NEW j \in DOMAIN new, i < j
        PROVE  \E p, q \in DOMAIN rows :
                  1 <= p /\ p < q /\ new[i] = rows[p] /\ new[j] = rows[q]
    <3>1. 1 <= i + c /\ i + c < j + c
      BY <1>1, <2>1, <2>3
    <3> QED BY <1>4, <2>1, <3>1
  <2> QED BY <1>3, <2>2, <2>3 DEF Within, WithinFrom
<1> QED
  BY <1>1, <1>3, <1>4, <1>5 DEF c

(***************************************************************************)
(* Of the rows at some positions the last ones: those with fewer than n of *)
(* the positions behind them.                                              *)
(***************************************************************************)
LastOf(S, n) == {i \in S : Cardinality({j \in S : j > i}) < n}

\* The last n of a list of the rows at S list those at the last n of S.
LEMMA ListsLast ==
    ASSUME NEW rows \in Seq(Rows), NEW S \in SUBSET DOMAIN rows,
           NEW d \in Seq(Rows), Lists(d, rows, S), NEW n \in Nat \ {0}
    PROVE  Lists(LastRows(d, n), rows, LastOf(S, n))
<1> DEFINE L == Len(rows)
           W == LastOf(S, n)
           c == Cut(d, n)
           X == S \ W
<1>0. L \in Nat /\ DOMAIN rows = 1..L /\ S \in SUBSET (1..L)
  OBVIOUS
<1>1. /\ IsFiniteSet(S) /\ Cardinality(S) \in Nat
      /\ \A i \in S : Rank(S, i) \in 1..Cardinality(S)
      /\ \A i, j \in S : i < j => Rank(S, i) < Rank(S, j)
      /\ \A i, j \in S : Rank(S, i) <= Rank(S, j) => i <= j
      /\ \A m \in 1..Cardinality(S) : \E i \in S : Rank(S, i) = m
  <2>1. IsFiniteSet(S) /\ Cardinality(S) \in Nat
    BY <1>0, Ranks, FS_CardinalityType
  <2>2. /\ \A i \in S : Rank(S, i) \in 1..Cardinality(S)
        /\ \A i, j \in S : i < j => Rank(S, i) < Rank(S, j)
        /\ \A i, j \in S : Rank(S, i) <= Rank(S, j) => i <= j
        /\ \A m \in 1..Cardinality(S) : \E i \in S : Rank(S, i) = m
    BY <1>0, Ranks
  <2> QED BY <2>1, <2>2
<1>2. Len(d) = Cardinality(S)
  BY DEF Lists
<1>3. c = IF Cardinality(S) > n THEN Cardinality(S) - n ELSE 0
  BY <1>2 DEF Cut
<1>4. ASSUME NEW i \in S PROVE i \in W <=> Rank(S, i) > c
  <2> DEFINE A == {j \in S : j <= i}
             B == {j \in S : j > i}
  <2>1. S = A \cup B /\ A \cap B = {}
    <3>1. \A j \in S : (j <= i \/ j > i) /\ ~(j <= i /\ j > i)
      BY <1>0
    <3> QED BY <3>1
  <2>2. IsFiniteSet(A) /\ IsFiniteSet(B)
    BY <1>1, FS_Subset
  <2>3. Cardinality(S) = Cardinality(A) + Cardinality(B)
    <3> HIDE DEF A, B
    <3>0. Cardinality(A \cup B) = Cardinality(A) + Cardinality(B) - Cardinality(A \cap B)
      BY <2>2, FS_Union
    <3>1. Cardinality(S) = Cardinality(A) + Cardinality(B) - Cardinality({})
      BY <2>1, <3>0
    <3>2. Cardinality(A) \in Nat /\ Cardinality(B) \in Nat /\ Cardinality({}) = 0
      BY <2>2, FS_EmptySet, FS_CardinalityType
    <3> QED BY <3>1, <3>2
  <2>4. Cardinality(A) = Rank(S, i) /\ Cardinality(A) \in 1..Cardinality(S)
    BY <1>1 DEF Rank
  <2>5. Cardinality(B) \in Nat
    BY <2>2, FS_CardinalityType
  <2>6. Cardinality(B) < n <=> Cardinality(A) > c
    <3> HIDE DEF A, B, c
    <3> QED BY <1>1, <1>3, <2>3, <2>4, <2>5
  <2>7. i \in W <=> Cardinality(B) < n
    BY DEF LastOf
  <2> QED BY <2>4, <2>6, <2>7
<1>5. c \in 0..Cardinality(S)
  BY <1>1, <1>3
<1> HIDE DEF c
<1>6. X \in SUBSET S /\ W \in SUBSET S /\ IsFiniteSet(X) /\ IsFiniteSet(W)
  <2>1. X \in SUBSET S /\ W \in SUBSET S
    BY DEF LastOf
  <2> QED BY <1>1, <2>1, FS_Subset
<1>7. Cardinality(X) = c
  <2>1. \A i \in S : i \in X <=> Rank(S, i) <= c
    BY <1>1, <1>4, <1>5
  <2>2. CASE c = 0
    <3>1. X = {}
      BY <1>1, <1>6, <2>1, <2>2
    <3> QED BY <2>2, <3>1, FS_EmptySet
  <2>3. CASE c # 0
    <3>1. PICK e \in S : Rank(S, e) = c
      BY <1>1, <1>5, <2>3
    <3>2. ASSUME NEW j \in S PROVE Rank(S, j) <= Rank(S, e) <=> j <= e
      <4>1. j \in Nat /\ e \in Nat /\ Rank(S, j) \in Nat /\ Rank(S, e) \in Nat
        BY <1>0, <1>1
      <4>2. Rank(S, j) <= Rank(S, e) => j <= e
        BY <1>1
      <4>3. j < e => Rank(S, j) < Rank(S, e)
        BY <1>1
      <4> QED BY <4>1, <4>2, <4>3
    <3>3. X = {j \in S : j <= e}
      BY <1>6, <2>1, <3>1, <3>2
    <3> QED BY <3>1, <3>3 DEF Rank
  <2> QED BY <2>2, <2>3
<1>8. Cardinality(W) = Cardinality(S) - c
  <2>1. W = S \ X /\ S \cap X = X
    BY <1>6
  <2> QED BY <1>1, <1>7, <2>1, FS_Difference
<1>9. ASSUME NEW i \in W PROVE Rank(W, i) = Rank(S, i) - c
  <2> DEFINE A == {j \in S : j <= i}
             B == {j \in W : j <= i}
  <2>0. i \in S /\ Rank(S, i) > c
    BY <1>4, <1>6, <1>9
  <2>1. ASSUME NEW j \in X PROVE j <= i
    <3>1. j \in S /\ ~(Rank(S, j) > c)
      BY <1>4, <1>6, <2>1
    <3>2. Rank(S, j) <= Rank(S, i)
      BY <1>1, <1>5, <2>0, <3>1
    <3> QED BY <1>1, <2>0, <3>1, <3>2
  <2>2. A = X \cup B /\ X \cap B = {}
    BY <1>6, <2>1
  <2>3. IsFiniteSet(A) /\ IsFiniteSet(B) /\ IsFiniteSet(X)
    BY <1>1, <1>6, FS_Subset
  <2>4. Cardinality(A) = Cardinality(X) + Cardinality(B)
    <3> HIDE DEF A, B, X
    <3>1. Cardinality(X \cup B) = Cardinality(X) + Cardinality(B) - Cardinality({})
      BY <2>2, <2>3, FS_Union
    <3>2. Cardinality(X) \in Nat /\ Cardinality(B) \in Nat /\ Cardinality({}) = 0
      BY <2>3, FS_EmptySet, FS_CardinalityType
    <3> QED BY <2>2, <3>1, <3>2
  <2>5. Rank(S, i) = Cardinality(A) /\ Rank(W, i) = Cardinality(B)
    BY DEF Rank
  <2>6. Cardinality(B) \in Nat /\ Cardinality(X) \in Nat
    BY <2>3, FS_CardinalityType
  <2> HIDE DEF A, B, X
  <2> QED BY <1>7, <2>4, <2>5, <2>6
<1>10. ASSUME NEW i \in W PROVE LastRows(d, n)[Rank(W, i)] = rows[i]
  <2>1. i \in S /\ Rank(S, i) > c /\ Rank(S, i) \in 1..Cardinality(S)
    BY <1>1, <1>4, <1>6, <1>10
  <2>2. /\ Rank(S, i) - c \in 1..(Len(d) - c)
        /\ (Rank(S, i) - c) + c = Rank(S, i)
    BY <1>1, <1>2, <1>5, <2>1
  <2>3. LastRows(d, n)[Rank(S, i) - c] = d[Rank(S, i)]
    BY <2>2, LastOfRows DEF c
  <2> QED BY <1>9, <2>1, <2>3 DEF Lists
<1>11. Len(LastRows(d, n)) = Cardinality(W)
  BY <1>2, <1>8, LastOfRows DEF c
<1> QED
  BY <1>10, <1>11 DEF Lists

(***************************************************************************)
(* Rows whose ids are distinct are all newest, and listed by themselves.   *)
(***************************************************************************)
LEMMA ListsItself ==
    ASSUME NEW rows \in Seq(Rows)
    PROVE  /\ Lists(rows, rows, DOMAIN rows)
           /\ \A i \in DOMAIN rows : Rank(DOMAIN rows, i) = i
<1>1. ASSUME NEW i \in DOMAIN rows PROVE Rank(DOMAIN rows, i) = i
  <2>1. {j \in DOMAIN rows : j <= i} = 1..i /\ i \in Nat /\ i > 0
    OBVIOUS
  <2>2. Cardinality(1..i) = i
    BY <2>1, FS_Interval
  <2> QED BY <2>1, <2>2 DEF Rank
<1>2. Cardinality(DOMAIN rows) = Len(rows)
  <2>1. DOMAIN rows = 1..Len(rows) /\ Len(rows) \in Nat
    OBVIOUS
  <2> QED BY <2>1, FS_Interval
<1> QED
  BY <1>1, <1>2 DEF Lists

\* Rows with ids of their own are left alone.
LEMMA DistinctIsDeduped ==
    ASSUME NEW rows \in Seq(Rows), Distinct(rows)
    PROVE  DedupedRows(rows) = rows
<1> DEFINE new == DedupedRows(rows)
<1>1. NewestFrom(rows, 1) = DOMAIN rows
  <2>1. \A i \in 1..Len(rows) : \A j \in (i + 1)..Len(rows) : j \in DOMAIN rows /\ i # j
    OBVIOUS
  <2>2. DOMAIN rows = 1..Len(rows)
    OBVIOUS
  <2> QED BY <2>1, <2>2 DEF NewestFrom, Distinct
<1>2. new \in Seq(Rows) /\ Lists(new, rows, DOMAIN rows)
  BY <1>1, DedupedIsNewest DEF DedupedOf, WithinFrom
<1>3. Len(new) = Len(rows) /\ \A i \in DOMAIN rows : new[i] = rows[i]
  BY <1>2, ListsItself DEF Lists
<1> HIDE DEF new
<1>4. new = rows
  BY <1>2, <1>3
<1> QED BY <1>4 DEF new

(***************************************************************************)
(* A compaction keeps rows of the file, in its order and with distinct ids *)
(* if it removes copies: the newest ones, as many as the retention allows. *)
(* Doing it again changes nothing.                                         *)
(***************************************************************************)
NewestOf(f, rows) ==
    {i \in DOMAIN rows : f \in Deduped => \A j \in (i + 1)..Len(rows) : rows[j].id # rows[i].id}

KeptOf(f, rows) ==
    {i \in NewestOf(f, rows) :
        Retention[f] = 0
          \/ Cardinality({j \in NewestOf(f, rows) : j > i}) < Retention[f]}

\* Some of the rows with ids of their own have ids of their own.
LEMMA DistinctWithin ==
    ASSUME NEW old \in Seq(Rows), NEW new, Within(new, old), Distinct(old)
    PROVE  Distinct(new)
<1> SUFFICES ASSUME NEW i \in DOMAIN new, NEW j \in DOMAIN new,
                    new[i].id = new[j].id, i < j
             PROVE  FALSE
  <2>1. \A i \in DOMAIN new : i \in Nat
    BY DEF Within, WithinFrom
  <2>2. \A i, j \in Nat : i < j \/ j < i \/ i = j
    OBVIOUS
  <2> QED BY <2>1, <2>2 DEF Distinct
<1>1. PICK p \in DOMAIN old, q \in DOMAIN old :
         p < q /\ new[i] = old[p] /\ new[j] = old[q]
  BY DEF Within, WithinFrom
<1>2. p \in Nat /\ q \in Nat /\ p # q
  BY <1>1
<1> QED
  BY <1>1, <1>2 DEF Distinct

\* What _compact_rows keeps, and that it keeps all of it the next time.
LEMMA CompactKeepsNewest ==
    ASSUME NEW f \in Files, NEW rows \in Seq(Rows)
    PROVE  /\ Within(CompactRows(f, rows), rows)
           /\ f \in Deduped \/ Distinct(rows) => Distinct(CompactRows(f, rows))
           /\ Lists(CompactRows(f, rows), rows, KeptOf(f, rows))
           /\ CompactRows(f, CompactRows(f, rows)) = CompactRows(f, rows)
<1> DEFINE d == IF f \in Deduped THEN DedupedRows(rows) ELSE rows
           n == Retention[f]
           kept == CompactRows(f, rows)
           S == NewestOf(f, rows)
<1>0. n \in Nat
  BY DoctorConstants
<1>1. /\ Within(d, rows) /\ d \in Seq(Rows) /\ Lists(d, rows, S)
      /\ f \in Deduped \/ Distinct(rows) => Distinct(d)
  <2>1. CASE f \in Deduped
    <3>1. DedupedOf(rows, 1, DedupedRows(rows))
      BY DedupedIsNewest
    <3>2. S = NewestFrom(rows, 1)
      BY <2>1 DEF NewestOf, NewestFrom
    <3>3. Within(DedupedRows(rows), rows) /\ Lists(DedupedRows(rows), rows, S)
          /\ Distinct(DedupedRows(rows))
      BY <3>1, <3>2 DEF DedupedOf, Within
    <3>4. d = DedupedRows(rows)
      BY <2>1
    <3> QED BY <3>3, <3>4 DEF Within, WithinFrom
  <2>2. CASE f \notin Deduped
    <3>1. d = rows /\ S = DOMAIN rows
      BY <2>2 DEF NewestOf
    <3> QED BY <2>2, <3>1, ListsItself, WithinItself
  <2> QED BY <2>1, <2>2
<1>2. kept = IF n > 0 THEN LastRows(d, n) ELSE d
  BY DEF CompactRows
<1> HIDE DEF d
<1>3. Within(kept, d) /\ kept \in Seq(Rows)
  <2>1. Within(LastRows(d, n), d) /\ Within(d, d)
    BY <1>0, <1>1, LastOfRows, WithinItself
  <2> QED BY <1>1, <1>2, <2>1 DEF Within, WithinFrom
<1>4. Within(kept, rows)
  BY <1>1, <1>3, WithinIsTransitive
<1>5. f \in Deduped \/ Distinct(rows) => Distinct(kept)
  BY <1>1, <1>3, DistinctWithin
<1>6. Lists(kept, rows, KeptOf(f, rows))
  <2>1. CASE n > 0
    <3>1. KeptOf(f, rows) = LastOf(S, n)
      BY <1>0, <2>1 DEF KeptOf, LastOf
    <3>2. S \in SUBSET DOMAIN rows
      BY DEF NewestOf
    <3> QED
      BY <1>0, <1>1, <1>2, <2>1, <3>1, <3>2, ListsLast
  <2>2. CASE ~(n > 0)
    <3>1. n = 0
      BY <1>0, <2>2
    <3>2. KeptOf(f, rows) = S
      BY <3>1 DEF KeptOf
    <3> QED BY <1>1, <1>2, <2>2, <3>2
  <2> QED BY <2>1, <2>2
<1>7. CompactRows(f, kept) = kept
  <2>1. (IF f \in Deduped THEN DedupedRows(kept) ELSE kept) = kept
    BY <1>3, <1>5, DistinctIsDeduped
  <2>2. n > 0 => LastRows(kept, n) = kept
    <3> SUFFICES ASSUME n > 0 PROVE LastRows(kept, n) = kept
      OBVIOUS
    <3>0. kept = LastRows(d, n)
      BY <1>2
    <3>1. Len(kept) = Len(d) - Cut(d, n) /\ Len(d) \in Nat
      <4>1. Len(LastRows(d, n)) = Len(d) - Cut(d, n)
        BY <1>0, <1>1, LastOfRows
      <4> HIDE DEF kept
      <4> QED BY <1>1, <3>0, <4>1
    <3>2. Len(kept) <= n /\ Len(kept) \in Nat
      BY <1>0, <1>1, <1>3, <3>1 DEF Cut
    <3>3. ~(Len(kept) > n)
      BY <1>0, <3>2
    <3> HIDE DEF kept
    <3> QED BY <1>3, <3>3 DEF LastRows
  <2>3. CompactRows(f, kept) = IF n > 0 THEN LastRows(kept, n) ELSE kept
    BY <2>1 DEF CompactRows
  <2> QED BY <2>2, <2>3
<1> QED
  BY <1>4, <1>5, <1>6, <1>7

-----------------------------------------------------------------------------
(* What is written to a file.                                              *)

Clean(rows) == \A i \in DOMAIN rows : Good(rows[i])

\* Valid rows end all of their lines.
LEMMA CleanLines ==
    ASSUME NEW rows \in Seq(Rows), Clean(rows)
    PROVE  rows \in Lines
  BY DEF Clean, Good, Lines

\* Some of the valid rows are valid rows.
LEMMA CleanWithin ==
    ASSUME NEW old \in Seq(Rows), NEW new, Within(new, old), Clean(old)
    PROVE  Clean(new) /\ new \in Seq(Rows)
  BY DEF Clean, Within, WithinFrom

\* What the stores and the doctor read of a file: all its valid rows and no other.
LEMMA ValidRowsClean ==
    ASSUME NEW rows \in Seq(Rows)
    PROVE  /\ ValidRows(rows) \in Seq(Rows) /\ Clean(ValidRows(rows))
           /\ Within(ValidRows(rows), rows)
           /\ \A p \in DOMAIN rows : Good(rows[p]) =>
                 \E i \in DOMAIN ValidRows(rows) : ValidRows(rows)[i] = rows[p]
           /\ InvalidCount(rows) \in Nat
           /\ InvalidCount(rows) = 0 <=> Clean(rows)
<1>1. ValidOf(rows, 1, ValidRows(rows))
  BY ValidIsValid
<1>2. ValidRows(rows) \in Seq(Rows) /\ Within(ValidRows(rows), rows)
  BY <1>1 DEF ValidOf, WithinFrom, Within
<1>3. 1..Len(rows) = DOMAIN rows
  OBVIOUS
<1>4. /\ Clean(ValidRows(rows))
      /\ \A p \in DOMAIN rows : Good(rows[p]) =>
            \E i \in DOMAIN ValidRows(rows) : ValidRows(rows)[i] = rows[p]
  BY <1>1, <1>3 DEF ValidOf, Clean
<1>5. /\ Len(ValidRows(rows)) <= Len(rows) + 1 - 1
      /\ Len(ValidRows(rows)) = Len(rows) + 1 - 1 <=> Clean(rows)
  BY <1>1, <1>3 DEF ValidOf, Clean
<1>6. Len(rows) \in Nat /\ Len(ValidRows(rows)) \in Nat
  BY <1>2
<1>7. /\ InvalidCount(rows) \in Nat
      /\ InvalidCount(rows) = 0 <=> Len(ValidRows(rows)) = Len(rows) + 1 - 1
  BY <1>5, <1>6 DEF InvalidCount
<1> QED
  BY <1>2, <1>4, <1>5, <1>7

(***************************************************************************)
(* An appended row, or the start of one, leaves whole lines before it.     *)
(***************************************************************************)
LEMMA AppendedLines ==
    ASSUME NEW rows \in Lines, NEW row \in Rows
    PROVE  /\ Appended(rows, row) \in Lines
           /\ Clean(rows) /\ Good(row) => Clean(Appended(rows, row))
<1>0. rows \in Seq(Rows) /\ \A i \in DOMAIN rows : rows[i].kind = "torn" => i = Len(rows)
  BY DEF Lines
<1>1. CASE rows # <<>> /\ Last(rows).kind = "torn"
  <2> DEFINE bad == [row EXCEPT !.kind = "bad"]
             new == Append(Front(rows), bad)
  <2>1. bad \in Rows /\ bad.kind = "bad"
    BY DEF Rows
  <2>2. /\ Front(rows) \in Seq(Rows) /\ Len(Front(rows)) = Len(rows) - 1
        /\ Len(rows) \in Nat /\ Len(rows) > 0
        /\ \A i \in 1..(Len(rows) - 1) : Front(rows)[i] = rows[i]
    <3>1. Len(rows) \in Nat /\ Len(rows) > 0
      BY <1>0, <1>1
    <3>2. /\ SubSeq(rows, 1, Len(rows) - 1) \in Seq(Rows)
          /\ Len(SubSeq(rows, 1, Len(rows) - 1)) = Len(rows) - 1
          /\ \A i \in 1..(Len(rows) - 1) : SubSeq(rows, 1, Len(rows) - 1)[i] = rows[i]
      <4>1. ASSUME NEW m \in 0..Len(rows)
            PROVE  /\ SubSeq(rows, 1, m) \in Seq(Rows) /\ Len(SubSeq(rows, 1, m)) = m
                   /\ \A i \in 1..m : SubSeq(rows, 1, m)[i] = rows[i]
        BY <1>0, <3>1
      <4>2. Len(rows) - 1 \in 0..Len(rows)
        BY <3>1
      <4> QED BY <4>1, <4>2
    <3> QED BY <3>1, <3>2 DEF Front
  <2> HIDE DEF bad
  <2>3. /\ new \in Seq(Rows) /\ Len(new) = Len(rows) /\ DOMAIN new = 1..Len(rows)
        /\ new[Len(rows)] = bad
        /\ \A i \in 1..(Len(rows) - 1) : new[i] = rows[i]
    BY <2>1, <2>2
  <2> HIDE DEF new
  <2>4. ASSUME NEW i \in DOMAIN new PROVE new[i].kind # "torn"
    <3>1. CASE i = Len(rows)
      BY <2>1, <2>3, <3>1
    <3>2. CASE i # Len(rows)
      <4>1. i \in 1..(Len(rows) - 1) /\ i \in DOMAIN rows
        BY <1>0, <2>2, <2>3, <3>2
      <4> QED BY <1>0, <2>3, <3>2, <4>1
    <3> QED BY <3>1, <3>2
  <2>5. new \in Lines
    BY <2>3, <2>4 DEF Lines
  <2>6. ~Clean(rows)
    BY <1>0, <1>1 DEF Clean, Good, Last
  <2>7. Appended(rows, row) = new
    BY <1>1 DEF Appended, new, bad
  <2> QED BY <2>5, <2>6, <2>7
<1>2. CASE ~(rows # <<>> /\ Last(rows).kind = "torn")
  <2> DEFINE new == Append(rows, row)
  <2>1. /\ new \in Seq(Rows) /\ Len(new) = Len(rows) + 1 /\ new[Len(rows) + 1] = row
        /\ DOMAIN new = 1..(Len(rows) + 1) /\ Len(rows) \in Nat
        /\ \A i \in 1..Len(rows) : new[i] = rows[i] /\ i \in DOMAIN rows
    BY <1>0
  <2>2. Appended(rows, row) = new
    BY <1>2 DEF Appended
  <2> HIDE DEF new
  <2>3. \A i \in DOMAIN new : i \in 1..Len(rows) \/ i = Len(rows) + 1
    BY <2>1
  <2>4. \A i \in 1..Len(rows) : rows[i].kind # "torn"
    <3> SUFFICES ASSUME NEW i \in 1..Len(rows), rows[i].kind = "torn" PROVE FALSE
      OBVIOUS
    <3>1. i = Len(rows) /\ rows # <<>>
      BY <1>0, <2>1
    <3> QED BY <1>2, <3>1 DEF Last
  <2>5. new \in Lines
    BY <2>1, <2>3, <2>4 DEF Lines
  <2>6. Clean(rows) /\ Good(row) => Clean(new)
    BY <2>1, <2>3 DEF Clean
  <2> QED BY <2>2, <2>5, <2>6
<1> QED BY <1>1, <1>2

(***************************************************************************)
(* A text that overwrites another one leaves whole lines but the last.     *)
(***************************************************************************)
LEMMA JoinedLines ==
    ASSUME NEW a \in Seq(Rows), NEW b \in Lines,
           \A i \in DOMAIN a : a[i].kind = "torn" => b = <<>> /\ i = Len(a)
    PROVE  a \o b \in Lines
<1>0. b \in Seq(Rows) /\ \A i \in DOMAIN b : b[i].kind = "torn" => i = Len(b)
  BY DEF Lines
<1> DEFINE new == a \o b
<1>1. /\ new \in Seq(Rows) /\ Len(new) = Len(a) + Len(b) /\ Len(a) \in Nat /\ Len(b) \in Nat
      /\ \A i \in 1..Len(a) : new[i] = a[i] /\ i \in DOMAIN a
      /\ \A i \in 1..Len(b) : new[Len(a) + i] = b[i] /\ i \in DOMAIN b
  BY <1>0
<1> HIDE DEF new
<1>2. ASSUME NEW i \in DOMAIN new, new[i].kind = "torn" PROVE i = Len(new)
  <2>1. CASE i \in 1..Len(a)
    <3>1. b = <<>> /\ i = Len(a)
      BY <1>1, <1>2, <2>1
    <3> QED BY <1>1, <3>1
  <2>2. CASE i \notin 1..Len(a)
    <3>1. i - Len(a) \in 1..Len(b) /\ i = Len(a) + (i - Len(a))
      BY <1>1, <2>2
    <3>2. b[i - Len(a)].kind = "torn"
      BY <1>1, <1>2, <3>1
    <3>3. i - Len(a) = Len(b)
      BY <1>0, <1>1, <3>1, <3>2
    <3> QED BY <1>1, <3>1, <3>3
  <2> QED BY <2>1, <2>2
<1>3. new \in Lines
  BY <1>1, <1>2 DEF Lines
<1> QED BY <1>3 DEF new

\* The end of a file is lines too.
LEMMA SuffixLines ==
    ASSUME NEW b \in Lines, NEW k \in 1..(Len(b) + 1)
    PROVE  SubSeq(b, k, Len(b)) \in Lines
<1>0. b \in Seq(Rows) /\ \A i \in DOMAIN b : b[i].kind = "torn" => i = Len(b)
  BY DEF Lines
<1> DEFINE new == SubSeq(b, k, Len(b))
<1>1. /\ new \in Seq(Rows) /\ Len(new) = Len(b) + 1 - k /\ Len(b) \in Nat
      /\ \A i \in 1..Len(new) : new[i] = b[(k + i) - 1] /\ (k + i) - 1 \in DOMAIN b
  BY <1>0
<1> HIDE DEF new
<1>2. ASSUME NEW i \in DOMAIN new, new[i].kind = "torn" PROVE i = Len(new)
  <2>1. i \in 1..Len(new)
    BY <1>1
  <2>2. (k + i) - 1 = Len(b)
    BY <1>0, <1>1, <1>2, <2>1
  <2> QED BY <1>1, <2>1, <2>2
<1>3. new \in Lines
  BY <1>1, <1>2 DEF Lines
<1> QED BY <1>3 DEF new

\* What is in a file after a text was written over it: the text, and perhaps more.
LEMMA OverwrittenLines ==
    ASSUME NEW old \in Lines, NEW new \in Seq(Rows), Clean(new),
           NEW rows \in Overwritten(old, new)
    PROVE  /\ rows \in Lines
           /\ old = <<>> => rows = new
           /\ \A i \in DOMAIN new : \E j \in DOMAIN rows : rows[j] = new[i]
<1>0. /\ old \in Seq(Rows) /\ \A i \in DOMAIN new : new[i].kind # "torn"
      /\ Len(old) \in Nat /\ DOMAIN old = 1..Len(old)
      /\ \A k \in DOMAIN old : old[k] \in Rows
  BY DEF Lines, Clean, Good
<1>1. ASSUME NEW rest \in Seq(Rows)
      PROVE  \A i \in DOMAIN new : /\ i \in DOMAIN (new \o rest)
                                   /\ (new \o rest)[i] = new[i]
  OBVIOUS
<1>2. CASE rows = new
  BY <1>2, CleanLines
<1>3. ASSUME NEW k \in 2..Len(old), rows = new \o SubSeq(old, k, Len(old))
      PROVE  /\ rows \in Lines /\ old # <<>>
             /\ \A i \in DOMAIN new : \E j \in DOMAIN rows : rows[j] = new[i]
  <2>1. SubSeq(old, k, Len(old)) \in Lines /\ SubSeq(old, k, Len(old)) \in Seq(Rows)
    <3>1. k \in 1..(Len(old) + 1)
      BY <1>0
    <3> QED BY <3>1, SuffixLines DEF Lines
  <2>2. rows \in Lines
    BY <1>0, <1>3, <2>1, JoinedLines
  <2>3. old # <<>>
    BY <1>0
  <2> QED BY <1>1, <1>3, <2>1, <2>2, <2>3
<1>4. ASSUME NEW k \in DOMAIN old, NEW part,
             part = [old[k] EXCEPT !.kind = IF k = Len(old) /\ @ = "torn" THEN "torn" ELSE "bad"],
             rows = new \o <<part>> \o SubSeq(old, k + 1, Len(old))
      PROVE  /\ rows \in Lines /\ old # <<>>
             /\ \A i \in DOMAIN new : \E j \in DOMAIN rows : rows[j] = new[i]
  <2> DEFINE rest == SubSeq(old, k + 1, Len(old))
  <2>1. part \in Rows /\ (part.kind = "torn" => k = Len(old))
    BY <1>0, <1>4 DEF Rows
  <2>2. rest \in Lines /\ rest \in Seq(Rows) /\ (k = Len(old) => rest = <<>>)
    <3>1. k + 1 \in 1..(Len(old) + 1)
      BY <1>0
    <3>2. k = Len(old) => rest = <<>>
      BY <1>0
    <3> QED BY <3>1, <3>2, SuffixLines DEF Lines
  <2> DEFINE head == new \o <<part>>
  <2>3. /\ head \in Seq(Rows) /\ Len(head) = Len(new) + 1 /\ Len(new) \in Nat
        /\ head[Len(new) + 1] = part
        /\ \A i \in 1..Len(new) : head[i] = new[i] /\ i \in DOMAIN new
        /\ \A i \in DOMAIN head : i \in 1..Len(new) \/ i = Len(new) + 1
    BY <2>1
  <2>4. ASSUME NEW i \in DOMAIN head, head[i].kind = "torn"
        PROVE  rest = <<>> /\ i = Len(head)
    <3> HIDE DEF head, rest
    <3> QED BY <1>0, <2>1, <2>2, <2>3, <2>4
  <2>5. rows = head \o rest
    BY <1>4
  <2>6. rows \in Lines
    <3> HIDE DEF head, rest
    <3> QED BY <2>2, <2>3, <2>4, <2>5, JoinedLines
  <2>7. \A i \in DOMAIN new : i \in DOMAIN rows /\ rows[i] = new[i]
    <3>1. <<part>> \o rest \in Seq(Rows)
      BY <2>1, <2>2
    <3>2. rows = new \o (<<part>> \o rest)
      <4>1. new \in Seq(Rows) /\ <<part>> \in Seq(Rows) /\ rest \in Seq(Rows)
        BY <2>1, <2>2
      <4>2. \A s, t, u \in Seq(Rows) : (s \o t) \o u = s \o (t \o u)
        BY ConcatAssociative
      <4> HIDE DEF rest
      <4>3. (new \o <<part>>) \o rest = new \o (<<part>> \o rest)
        BY <4>1, <4>2
      <4> QED BY <1>4, <4>3 DEF rest
    <3> QED BY <1>1, <3>1, <3>2
  <2>8. old # <<>>
    BY <1>0, <1>4
  <2> QED BY <2>6, <2>7, <2>8
<1> QED
  BY <1>2, <1>3, <1>4 DEF Overwritten

(***************************************************************************)
(* An upserted fact replaces the value of the first row with its key, or   *)
(* is added at the end.                                                    *)
(***************************************************************************)
LEMMA UpsertedRows ==
    ASSUME NEW rows \in Seq(Rows), Clean(rows), NEW key \in Nat, NEW val \in Nat
    PROVE  LET new == Upserted(rows, key, val)
           IN  /\ new \in Seq(Rows) /\ Clean(new)
               /\ \E i \in DOMAIN new : new[i] = Row(key, "good", val)
               /\ \A i \in DOMAIN rows :
                     rows[i].id # key => \E j \in DOMAIN new : new[j] = rows[i]
               /\ Distinct(rows) => Distinct(new)
<1> DEFINE new == Upserted(rows, key, val)
           fact == Row(key, "good", val)
<1>0. /\ fact \in Rows /\ fact.id = key /\ Good(fact) /\ Len(rows) \in Nat
      /\ \A i \in DOMAIN rows : rows[i] \in Rows /\ i \in 1..Len(rows)
  <2>1. fact \in Rows /\ fact.id = key /\ Good(fact)
    BY DEF Row, Rows, Good
  <2>2. Len(rows) \in Nat /\ \A i \in DOMAIN rows : rows[i] \in Rows /\ i \in 1..Len(rows)
    OBVIOUS
  <2> QED BY <2>1, <2>2
<1>1. CASE \E i \in DOMAIN rows : rows[i].id = key
  <2> DEFINE P(i) == rows[i].id = key /\ \A j \in 1..(i - 1) : rows[j].id # key
             c == CHOOSE i \in DOMAIN rows : P(i)
  <2>1. \E i \in DOMAIN rows : P(i)
    <3> DEFINE T == {i \in DOMAIN rows : rows[i].id = key}
    <3>1. T \in SUBSET Nat /\ T # {}
      BY <1>1
    <3>2. PICK i \in T : \A j \in T : i <= j
      <4> HIDE DEF T
      <4> QED BY <3>1, LeastNat
    <3>3. ASSUME NEW j \in 1..(i - 1) PROVE rows[j].id # key
      <4>1. j \in DOMAIN rows /\ ~(i <= j)
        BY <1>0
      <4> QED BY <3>2, <4>1
    <3> QED BY <3>2, <3>3
  <2>2. c \in DOMAIN rows /\ P(c)
    BY <2>1
  <2>3. new = [rows EXCEPT ![c].val = val]
    BY <1>1 DEF Upserted
  <2> HIDE DEF c
  <2>4. [rows[c] EXCEPT !.val = val] = fact
    <3>1. ASSUME NEW old \in Rows, old.id = key, old.kind = "good"
          PROVE  [old EXCEPT !.val = val] = [id |-> key, kind |-> "good", val |-> val]
      BY <3>1 DEF Rows
    <3>2. rows[c] \in Rows /\ rows[c].id = key /\ rows[c].kind = "good"
      BY <1>0, <2>2 DEF Clean, Good
    <3> QED BY <3>1, <3>2 DEF Row
  <2>5. new = [rows EXCEPT ![c] = fact]
    BY <2>2, <2>3, <2>4
  <2> HIDE DEF new, fact
  <2>6. /\ new \in Seq(Rows) /\ DOMAIN new = DOMAIN rows /\ new[c] = fact
        /\ \A i \in DOMAIN rows : i # c => new[i] = rows[i]
    BY <1>0, <2>2, <2>5
  <2>7. Clean(new)
    BY <1>0, <2>6 DEF Clean
  <2>8. Distinct(rows) => Distinct(new)
    <3>1. \A i \in DOMAIN rows : new[i].id = rows[i].id
      BY <1>0, <2>2, <2>6
    <3> QED BY <2>6, <3>1 DEF Distinct
  <2>9. \A i \in DOMAIN rows : rows[i].id # key => new[i] = rows[i]
    BY <2>2, <2>6
  <2> QED BY <2>2, <2>6, <2>7, <2>8, <2>9 DEF new, fact
<1>2. CASE ~\E i \in DOMAIN rows : rows[i].id = key
  <2>1. new = Append(rows, fact)
    BY <1>2 DEF Upserted
  <2> HIDE DEF new, fact
  <2>2. /\ new \in Seq(Rows) /\ DOMAIN new = 1..(Len(rows) + 1)
        /\ new[Len(rows) + 1] = fact
        /\ \A i \in 1..Len(rows) : new[i] = rows[i] /\ i \in DOMAIN rows /\ i \in DOMAIN new
        /\ \A i \in DOMAIN new : i \in 1..Len(rows) \/ i = Len(rows) + 1
        /\ Len(rows) + 1 \in DOMAIN new
    BY <1>0, <2>1
  <2>3. Clean(new)
    BY <1>0, <2>2 DEF Clean
  <2>4. Distinct(rows) => Distinct(new)
    BY <1>0, <1>2, <2>2 DEF Distinct
  <2> QED BY <1>0, <2>2, <2>3, <2>4 DEF new, fact
<1> QED BY <1>1, <1>2

-----------------------------------------------------------------------------
(* Types, and where a thread is in its operation.                          *)

Ops == {"none", "episode", "task", "fact", "doctor"} \cup Jobs

Requests ==
    [op : Ops, repair : BOOLEAN, compact : BOOLEAN, n : Nat, key : Nat,
     todo : Seq(Files), rows : Seq(Rows), bad : Nat, changed : BOOLEAN,
     status : [Jobs -> Runs], stale : BOOLEAN, detached : BOOLEAN, torn : BOOLEAN]

\* What a thread works on, by its phase: only the stores of tasks and facts
\* rewrite their file in place, and what is to be written is valid.
Located(p, w) ==
    /\ p = "append" => \/ w.op = "episode" /\ w.todo = <<"episodic">>
                       \/ w.op = "task" /\ w.todo = <<"tasks">>
    /\ p \in Rewriting => \/ w.op = "fact" /\ w.todo = <<"semantic">>
                          \/ w.op = "task" /\ w.todo = <<"tasks">>
    /\ p \in Doctoring => w.todo # <<>> /\ w.op \in Jobs \cup {"doctor"}
    /\ p \in {"load_status", "save_status", "episode"} => w.op \in Jobs
    /\ p \in Doctoring \cup {"truncate", "write"} => Clean(w.rows)

Types ==
    /\ file \in [Files -> Lines]
    /\ backup \in [Files -> [0..MaxTime -> Seq(Rows)]]
    /\ status \in [Jobs -> Runs]
    /\ recorded \in [Jobs -> Runs]
    /\ now \in 0..MaxTime
    /\ phase \in [Actors -> Phases]
    /\ req \in [Actors -> Requests]
    /\ requests \in 0..MaxRequests
    /\ crashes \in 0..MaxCrashes
    /\ history \in [Files -> Seq(Rows)]
    /\ excused \in [Files -> SUBSET Rows]
    /\ collided \in SUBSET Files
    /\ setBack \in SUBSET Jobs

ThreadTypes == \A a \in Actors : Located(phase[a], req[a])

(***************************************************************************)
(* What the other threads keep when a file changes, and what they learn.   *)
(***************************************************************************)
LEMMA OthersKeep ==
    ASSUME Types, NEW a \in Actors, NEW p, NEW w, NEW f,
           NEW renamed \in BOOLEAN, NEW torn \in BOOLEAN,
           GotoChanging(a, p, w, f, renamed, torn)
    PROVE  /\ phase'[a] = p /\ req'[a] = w
           /\ \A b \in Actors : b # a =>
                 /\ phase'[b] = phase[b] /\ req'[b] \in Requests
                 /\ req'[b].op = req[b].op /\ req'[b].repair = req[b].repair
                 /\ req'[b].n = req[b].n /\ req'[b].todo = req[b].todo
                 /\ req'[b].rows = req[b].rows /\ req'[b].bad = req[b].bad
                 /\ req'[b].key = req[b].key
<1>1. phase'[a] = p /\ req'[a] = w
  BY DEF Types, GotoChanging
<1>2. ASSUME NEW b \in Actors, b # a
      PROVE  /\ phase'[b] = phase[b] /\ req'[b] \in Requests
             /\ req'[b].op = req[b].op /\ req'[b].repair = req[b].repair
             /\ req'[b].n = req[b].n /\ req'[b].todo = req[b].todo
             /\ req'[b].rows = req[b].rows /\ req'[b].bad = req[b].bad
             /\ req'[b].key = req[b].key
  <2> DEFINE s == req[b].stale \/ Holds(b, f)
             d == req[b].detached \/ (renamed /\ Holds(b, f) /\ phase[b] = "write")
             t == req[b].torn \/ (torn /\ req[b].repair)
  <2>1. req'[b] = [req[b] EXCEPT !.stale = s, !.detached = d, !.torn = t]
    BY <1>2 DEF GotoChanging
  <2>2. s \in BOOLEAN /\ d \in BOOLEAN /\ t \in BOOLEAN /\ req[b] \in Requests
    BY DEF Types
  <2>3. phase'[b] = phase[b]
    BY <1>2 DEF GotoChanging, Types
  <2> HIDE DEF s, d, t
  <2> QED BY <2>1, <2>2, <2>3 DEF Requests
<1> QED
  BY <1>1, <1>2

\* What a change to f does to the other threads.
LEMMA OthersLearn ==
    ASSUME Types, NEW a \in Actors, NEW p, NEW w, NEW f,
           NEW renamed \in BOOLEAN, NEW torn \in BOOLEAN,
           GotoChanging(a, p, w, f, renamed, torn)
    PROVE  \A b \in Actors : b # a =>
              /\ req'[b].stale <=> req[b].stale \/ Holds(b, f)
              /\ req'[b].detached <=>
                    req[b].detached \/ (renamed /\ Holds(b, f) /\ phase[b] = "write")
              /\ req'[b].torn <=> req[b].torn \/ (torn /\ req[b].repair)
<1> SUFFICES ASSUME NEW b \in Actors, b # a
             PROVE  /\ req'[b].stale <=> req[b].stale \/ Holds(b, f)
                    /\ req'[b].detached <=>
                         req[b].detached \/ (renamed /\ Holds(b, f) /\ phase[b] = "write")
                    /\ req'[b].torn <=> req[b].torn \/ (torn /\ req[b].repair)
  OBVIOUS
<1> DEFINE s == req[b].stale \/ Holds(b, f)
           d == req[b].detached \/ (renamed /\ Holds(b, f) /\ phase[b] = "write")
           t == req[b].torn \/ (torn /\ req[b].repair)
<1>1. req'[b] = [req[b] EXCEPT !.stale = s, !.detached = d, !.torn = t]
  BY DEF GotoChanging
<1>2. s \in BOOLEAN /\ d \in BOOLEAN /\ t \in BOOLEAN /\ req[b] \in Requests
  BY DEF Types
<1>3. req'[b].stale = s /\ req'[b].detached = d /\ req'[b].torn = t
  <2> HIDE DEF s, d, t
  <2> QED BY <1>1, <1>2 DEF Requests
<1> QED BY <1>3

(***************************************************************************)
(* A thread that goes on, with or without changing a file.                 *)
(***************************************************************************)
LEMMA GotoTypes ==
    ASSUME Types, ThreadTypes, NEW a \in Actors, NEW p \in Phases, NEW w \in Requests,
           Located(p, w),
           \/ Goto(a, p, w)
           \/ \E f, renamed, torn :
                 /\ renamed \in BOOLEAN /\ torn \in BOOLEAN
                 /\ GotoChanging(a, p, w, f, renamed, torn)
    PROVE  /\ phase' \in [Actors -> Phases] /\ req' \in [Actors -> Requests]
           /\ ThreadTypes'
<1>1. CASE Goto(a, p, w)
  BY <1>1 DEF Goto, Types, ThreadTypes
<1>2. ASSUME NEW f, NEW renamed \in BOOLEAN, NEW torn \in BOOLEAN,
             GotoChanging(a, p, w, f, renamed, torn)
      PROVE  /\ phase' \in [Actors -> Phases] /\ req' \in [Actors -> Requests]
             /\ ThreadTypes'
  <2>1. /\ phase'[a] = p /\ req'[a] = w
        /\ \A b \in Actors : b # a =>
              /\ phase'[b] = phase[b] /\ req'[b] \in Requests
              /\ req'[b].op = req[b].op /\ req'[b].todo = req[b].todo
              /\ req'[b].rows = req[b].rows
    BY <1>2, OthersKeep
  <2>2. ASSUME NEW b \in Actors PROVE Located(phase'[b], req'[b]) /\ req'[b] \in Requests
    <3>1. CASE b = a
      BY <2>1, <3>1
    <3>2. CASE b # a
      <4>1. Located(phase[b], req[b])
        BY DEF ThreadTypes
      <4>2. ASSUME NEW q, NEW v, NEW u, Located(q, v),
                   u.op = v.op, u.todo = v.todo, u.rows = v.rows
            PROVE  Located(q, u)
        BY <4>2 DEF Located
      <4> QED BY <2>1, <3>2, <4>1, <4>2
    <3> QED BY <3>1, <3>2
  <2>3. phase' \in [Actors -> Phases]
    BY <1>2 DEF GotoChanging, Types
  <2>4. DOMAIN req' = Actors /\ req' = [b \in Actors |-> req'[b]]
    BY <1>2 DEF GotoChanging
  <2>5. req' \in [Actors -> Requests]
    BY <2>2, <2>4
  <2> QED BY <2>2, <2>3, <2>5 DEF ThreadTypes
<1> QED BY <1>1, <1>2

\* The thread at rest.
LEMMA IdleIsTyped == Idle \in Requests /\ Located("idle", Idle)
<1>1. NoRun \in Runs
  BY DEF NoRun, Runs
<1>2. Idle \in Requests
  BY <1>1 DEF Idle, Requests, Ops
<1> QED
  BY <1>2 DEF Located, Rewriting, Doctoring

\* The doctor has a file to begin with.
LEMMA ArtifactsAreThere == Artifacts \in Seq(Files) /\ Artifacts # <<>>
<1>1. Artifacts \in Seq(Files) /\ "semantic" \in Range(Artifacts)
  BY DoctorConstants DEF Files
<1> QED
  BY <1>1 DEF Range

(***************************************************************************)
(* How an operation begins.                                                *)
(***************************************************************************)
BeginsAs(a, p, w) ==
    /\ p \in Phases /\ w \in Requests /\ Located(p, w)
    /\ Goto(a, p, w)
    /\ p \in {"append", "load", "read"}
    /\ w.n = requests + 1 /\ w.bad = 0 /\ ~w.detached

\* What a request begins with.
LEMMA BeginsTyped ==
    ASSUME Types, NEW a \in Actors, NEW op \in Ops \ {"none"}, NEW flags, NEW key \in Nat,
           op = "doctor" => flags \in [repair : BOOLEAN, compact : BOOLEAN],
           Begin(a, op, flags, key)
    PROVE  /\ \E p, w : BeginsAs(a, p, w)
           /\ phase[a] = "idle" /\ requests' = requests + 1 /\ requests < MaxRequests
           /\ UNCHANGED <<disk, status, now, crashes, ghosts>>
<1> DEFINE p == CASE op \in {"episode", "task"} -> "append"
                  [] op = "fact" -> "load"
                  [] OTHER -> "read"
           todo == CASE op = "episode" -> <<"episodic">>
                     [] op = "task" -> <<"tasks">>
                     [] op = "fact" -> <<"semantic">>
                     [] OTHER -> Artifacts
           repair == op = "doctor" /\ flags.repair
           compact == op = "weekly_compact" \/ (op = "doctor" /\ flags.compact)
           w == [Idle EXCEPT !.op = op, !.n = requests + 1, !.key = key,
                             !.repair = repair, !.compact = compact, !.todo = todo]
<1>2. /\ Goto(a, p, w)
      /\ phase[a] = "idle" /\ requests' = requests + 1 /\ requests < MaxRequests
      /\ UNCHANGED <<disk, status, now, crashes, ghosts>>
  BY DEF Begin
<1>3. repair \in BOOLEAN /\ compact \in BOOLEAN
  OBVIOUS
<1>4. /\ todo \in Seq(Files)
      /\ op = "episode" => p = "append" /\ todo = <<"episodic">>
      /\ op = "task" => p = "append" /\ todo = <<"tasks">>
      /\ op = "fact" => p = "load" /\ todo = <<"semantic">>
      /\ op \in Jobs \cup {"doctor"} => p = "read" /\ todo # <<>>
  BY DoctorConstants, ArtifactsAreThere DEF Jobs
<1> HIDE DEF repair, compact, todo, p
<1>5. /\ w \in Requests /\ w.op = op /\ w.todo = todo /\ w.n = requests + 1
      /\ w.rows = <<>> /\ w.bad = 0 /\ ~w.detached
  <2>1. Idle \in Requests /\ Idle.rows = <<>> /\ Idle.bad = 0 /\ ~Idle.detached
    BY IdleIsTyped DEF Idle
  <2>2. requests + 1 \in Nat /\ op \in Ops
    BY DoctorConstants DEF Types
  <2> QED BY <1>3, <1>4, <2>1, <2>2 DEF Requests
<1> HIDE DEF w
<1>6. p \in Phases /\ p \in {"append", "load", "read"} /\ Located(p, w)
  <2>1. Clean(<<>>)
    BY DEF Clean
  <2> QED
    BY <1>4, <1>5, <2>1 DEF Located, Ops, Jobs, Phases, Doctoring, Rewriting
<1> QED
  BY <1>2, <1>5, <1>6 DEF BeginsAs

\* Likewise, whichever request it is.
LEMMA BeginShape ==
    ASSUME Types, NEW a \in Actors, Request(a)
    PROVE  /\ \E p, w : BeginsAs(a, p, w)
           /\ phase[a] = "idle" /\ requests' = requests + 1 /\ requests < MaxRequests
           /\ UNCHANGED <<disk, status, now, crashes, ghosts>>
<1>1. ASSUME NEW op \in {"episode", "task"} \cup Jobs, Begin(a, op, Idle, 0)
      PROVE  /\ \E p, w : BeginsAs(a, p, w)
             /\ phase[a] = "idle" /\ requests' = requests + 1 /\ requests < MaxRequests
             /\ UNCHANGED <<disk, status, now, crashes, ghosts>>
  <2>1. op \in Ops \ {"none"} /\ op # "doctor" /\ 0 \in Nat
    BY DEF Ops, Jobs
  <2> QED BY <1>1, <2>1, BeginsTyped
<1>2. ASSUME NEW key \in FactKeys, Begin(a, "fact", Idle, key)
      PROVE  /\ \E p, w : BeginsAs(a, p, w)
             /\ phase[a] = "idle" /\ requests' = requests + 1 /\ requests < MaxRequests
             /\ UNCHANGED <<disk, status, now, crashes, ghosts>>
  <2>1. "fact" \in Ops \ {"none"} /\ key \in Nat
    BY DoctorConstants DEF Ops
  <2> QED BY <1>2, <2>1, BeginsTyped
<1>3. ASSUME NEW flags \in Flags, Begin(a, "doctor", flags, 0)
      PROVE  /\ \E p, w : BeginsAs(a, p, w)
             /\ phase[a] = "idle" /\ requests' = requests + 1 /\ requests < MaxRequests
             /\ UNCHANGED <<disk, status, now, crashes, ghosts>>
  <2>1. /\ "doctor" \in Ops \ {"none"} /\ 0 \in Nat
        /\ flags \in [repair : BOOLEAN, compact : BOOLEAN]
    BY DoctorConstants DEF Ops
  <2> QED BY <1>3, <2>1, BeginsTyped
<1> QED
  BY <1>1, <1>2, <1>3 DEF Request

(***************************************************************************)
(* How the doctor goes on after an artifact.                               *)
(***************************************************************************)
LEMMA NextArtifactShape ==
    ASSUME NEW a \in Actors, NEW r \in Requests, r.todo # <<>>,
           r.op \in Jobs \cup {"doctor"}, NextArtifact(a, r)
    PROVE  \E p, w : /\ p \in {"read", "load_status", "idle"}
                     /\ w \in Requests /\ Located(p, w) /\ Goto(a, p, w)
                     /\ w = Idle \/ (/\ w.repair = r.repair /\ w.bad = r.bad
                                   /\ w.torn = r.torn /\ w.detached = r.detached)
<1> DEFINE left == [r EXCEPT !.todo = Tail(r.todo), !.rows = <<>>, !.changed = FALSE]
<1>1. r.todo \in Seq(Files) /\ Tail(r.todo) \in Seq(Files)
      /\ (Len(r.todo) > 1 => Tail(r.todo) # <<>>)
  <2>1. r.todo \in Seq(Files)
    BY DEF Requests
  <2>2. ASSUME NEW s \in Seq(Files), s # <<>>
        PROVE  Tail(s) \in Seq(Files) /\ (Len(s) > 1 => Tail(s) # <<>>)
    <3> DEFINE u == Tail(s)
    <3>1. u \in Seq(Files) /\ Len(u) = Len(s) - 1 /\ Len(s) \in Nat
      BY <2>2
    <3> HIDE DEF u
    <3> DEFINE n == Len(s)
               m == Len(u)
    <3>2. n \in Nat /\ m = n - 1 /\ (u = <<>> => m = 0)
      BY <3>1
    <3>3. Len(s) > 1 => u # <<>>
      <4>1. n > 1 => u # <<>>
        <5> HIDE DEF n, m
        <5> QED BY <3>2
      <4> QED BY <4>1
    <3> QED BY <3>1, <3>3 DEF u
  <2> QED BY <2>1, <2>2
<1>2. /\ left \in Requests /\ left.op = r.op /\ left.rows = <<>>
      /\ left.todo = Tail(r.todo)
      /\ left.repair = r.repair /\ left.bad = r.bad /\ left.torn = r.torn
      /\ left.detached = r.detached
  <2>1. ASSUME NEW t \in Seq(Files), NEW w,
               w = [r EXCEPT !.todo = t, !.rows = <<>>, !.changed = FALSE]
        PROVE  /\ w \in Requests /\ w.op = r.op /\ w.rows = <<>> /\ w.todo = t
               /\ w.repair = r.repair /\ w.bad = r.bad /\ w.torn = r.torn /\ w.detached = r.detached
    <3>1. <<>> \in Seq(Rows) /\ FALSE \in BOOLEAN
      OBVIOUS
    <3>2. w \in Requests
      BY <2>1, <3>1 DEF Requests
    <3>3. /\ w.op = r.op /\ w.rows = <<>> /\ w.todo = t
          /\ w.repair = r.repair /\ w.bad = r.bad /\ w.torn = r.torn /\ w.detached = r.detached
      BY <2>1 DEF Requests
    <3> QED BY <3>2, <3>3
  <2> QED BY <1>1, <2>1
<1>3. \/ Len(r.todo) > 1 /\ Goto(a, "read", left)
      \/ r.op \in Jobs /\ Goto(a, "load_status", left)
      \/ Goto(a, "idle", Idle)
  BY DEF NextArtifact
<1> HIDE DEF left
<1>4. Len(r.todo) > 1 => Located("read", left)
  BY <1>1, <1>2 DEF Located, Doctoring, Rewriting, Clean
<1>5. r.op \in Jobs => Located("load_status", left)
  BY <1>1, <1>2 DEF Located, Doctoring, Rewriting
<1> QED
  BY <1>2, <1>3, <1>4, <1>5, IdleIsTyped

\* The members of rows are rows.
LEMMA RowsInRange ==
    ASSUME NEW rows \in Seq(Rows)
    PROVE  Range(rows) \subseteq Rows
BY DEF Range

(***************************************************************************)
(* What is known of a thread inside an operation.                          *)
(***************************************************************************)
LEMMA ThreadFacts ==
    ASSUME Types, ThreadTypes, NEW a \in Actors
    PROVE  /\ req[a] \in Requests /\ phase[a] \in Phases /\ Located(phase[a], req[a])
           /\ phase[a] \in Doctoring \cup Rewriting \cup {"append"} =>
                 req[a].todo # <<>> /\ Head(req[a].todo) \in Files
           /\ phase[a] = "append" =>
                 Head(req[a].todo) = IF req[a].op = "task" THEN "tasks" ELSE "episodic"
           /\ phase[a] \in Rewriting =>
                 Head(req[a].todo) = IF req[a].op = "fact" THEN "semantic" ELSE "tasks"
<1>1. req[a] \in Requests /\ phase[a] \in Phases /\ Located(phase[a], req[a])
  BY DEF Types, ThreadTypes
<1>2. \A s \in Seq(Files) : s # <<>> => Head(s) \in Files
  OBVIOUS
<1>3. req[a].todo \in Seq(Files)
  BY <1>1 DEF Requests
<1>4. Head(<<"tasks">>) = "tasks" /\ Head(<<"episodic">>) = "episodic" /\ Head(<<"semantic">>) = "semantic"
  OBVIOUS
<1>5. <<"tasks">> # <<>> /\ <<"episodic">> # <<>> /\ <<"semantic">> # <<>>
  OBVIOUS
<1>6. /\ phase[a] = "append" =>
          Head(req[a].todo) = IF req[a].op = "task" THEN "tasks" ELSE "episodic"
      /\ phase[a] \in Rewriting =>
          Head(req[a].todo) = IF req[a].op = "fact" THEN "semantic" ELSE "tasks"
  BY <1>1, <1>4 DEF Located
<1>7. phase[a] \in Doctoring \cup Rewriting \cup {"append"} => req[a].todo # <<>>
  BY <1>1, <1>5 DEF Located
<1> QED
  BY <1>1, <1>2, <1>3, <1>6, <1>7

\* The row that an append writes, and the torn one.
LEMMA FreshRow ==
    ASSUME Types, NEW a \in Actors
    PROVE  /\ Fresh(a) \in Rows /\ Good(Fresh(a)) /\ Fresh(a).kind = "good"
           /\ Fresh(a).id = StartIds + req[a].n
           /\ [Fresh(a) EXCEPT !.kind = "torn"] \in Rows
           /\ ~Good([Fresh(a) EXCEPT !.kind = "torn"])
           /\ [Fresh(a) EXCEPT !.kind = "torn"].id = StartIds + req[a].n
<1>1. StartIds + req[a].n \in Nat
  <2>1. req[a] \in Requests /\ StartIds \in Nat
    BY DoctorConstants DEF Types
  <2>2. req[a].n \in Nat
    BY <2>1 DEF Requests
  <2> QED BY <2>1, <2>2
<1> QED
  BY <1>1 DEF Fresh, Row, Rows, Good

\* Types through an append.
LEMMA AppendTypes ==
    ASSUME Types, NEW f \in Files, NEW row \in Rows, Append1(f, row)
    PROVE  /\ file' \in [Files -> Lines] /\ history' \in [Files -> Seq(Rows)]
           /\ excused' \in [Files -> SUBSET Rows]
<1>1. Appended(file[f], row) \in Lines /\ file[f] \in Seq(Rows)
  BY AppendedLines DEF Types, Lines
<1>2. Append(file[f], row) \in Seq(Rows) /\ Append(history[f], row) \in Seq(Rows)
  BY <1>1 DEF Types
<1>3. Range(Append(file[f], row)) \subseteq Rows
  BY <1>2, RowsInRange
<1>4. file' \in [Files -> Lines]
  BY <1>1 DEF Append1, Types
<1>5. history' \in [Files -> Seq(Rows)]
  BY <1>2 DEF Append1, Types
<1>6. excused' \in [Files -> SUBSET Rows]
  BY <1>3 DEF Append1, Types
<1> QED
  BY <1>4, <1>5, <1>6

(***************************************************************************)
(* One step keeps the types: first the appends.                            *)
(***************************************************************************)
LEMMA AppendEpisodeTypes ==
    ASSUME Types, ThreadTypes, NEW a \in Actors, AppendEpisode(a)
    PROVE  Types' /\ ThreadTypes'
<1>1. "episodic" \in Files
  BY DoctorConstants
<1>2. /\ file' \in [Files -> Lines] /\ history' \in [Files -> Seq(Rows)]
      /\ excused' \in [Files -> SUBSET Rows]
  BY <1>1, FreshRow, AppendTypes DEF AppendEpisode
<1>3. GotoChanging(a, "idle", Idle, "episodic", FALSE, FALSE)
  BY DEF AppendEpisode
<1>4. "idle" \in Phases /\ FALSE \in BOOLEAN
  BY DEF Phases
<1>5. phase' \in [Actors -> Phases] /\ req' \in [Actors -> Requests] /\ ThreadTypes'
  BY <1>3, <1>4, IdleIsTyped, GotoTypes
<1>6. UNCHANGED <<backup, status, now, requests, crashes, collided, recorded, setBack>>
  BY DEF AppendEpisode, bounds
<1> QED
  BY <1>2, <1>5, <1>6 DEF Types

\* Types through AppendTask.
LEMMA AppendTaskTypes ==
    ASSUME Types, ThreadTypes, NEW a \in Actors, AppendTask(a)
    PROVE  Types' /\ ThreadTypes'
<1>1. "tasks" \in Files
  BY DoctorConstants
<1>2. /\ file' \in [Files -> Lines] /\ history' \in [Files -> Seq(Rows)]
      /\ excused' \in [Files -> SUBSET Rows]
  BY <1>1, FreshRow, AppendTypes DEF AppendTask
<1>3. GotoChanging(a, "load", req[a], "tasks", FALSE, FALSE)
  BY DEF AppendTask
<1>4. "load" \in Phases /\ FALSE \in BOOLEAN /\ req[a] \in Requests
  BY DEF Phases, Rewriting, Types
<1>5. Located("load", req[a])
  BY ThreadFacts DEF AppendTask, Located, Rewriting, Doctoring
<1>6. phase' \in [Actors -> Phases] /\ req' \in [Actors -> Requests] /\ ThreadTypes'
  BY <1>3, <1>4, <1>5, GotoTypes
<1>7. UNCHANGED <<backup, status, now, requests, crashes, collided, recorded, setBack>>
  BY DEF AppendTask, bounds
<1> QED
  BY <1>2, <1>6, <1>7 DEF Types

\* Types through AppendTorn.
LEMMA AppendTornTypes ==
    ASSUME Types, ThreadTypes, NEW a \in Actors, AppendTorn(a)
    PROVE  Types' /\ ThreadTypes'
<1> DEFINE f == Head(req[a].todo)
           row == [Fresh(a) EXCEPT !.kind = "torn"]
<1>1. f \in Files /\ row \in Rows
  BY ThreadFacts, FreshRow DEF AppendTorn
<1>2. Append1(f, row) /\ GotoChanging(a, "idle", Idle, f, FALSE, TRUE)
  BY DEF AppendTorn
<1> HIDE DEF f, row
<1>3. /\ file' \in [Files -> Lines] /\ history' \in [Files -> Seq(Rows)]
      /\ excused' \in [Files -> SUBSET Rows]
  BY <1>1, <1>2, AppendTypes
<1>4. "idle" \in Phases /\ FALSE \in BOOLEAN /\ TRUE \in BOOLEAN
  BY DEF Phases
<1>5. phase' \in [Actors -> Phases] /\ req' \in [Actors -> Requests] /\ ThreadTypes'
  BY <1>2, <1>4, IdleIsTyped, GotoTypes
<1>6. UNCHANGED <<backup, status, now, requests, collided, recorded, setBack>>
  BY DEF AppendTorn
<1>7. crashes' \in 0..MaxCrashes
  <2>1. crashes < MaxCrashes /\ crashes' = crashes + 1
    BY DEF AppendTorn
  <2>2. MaxCrashes \in Nat
    BY DoctorConstants
  <2>3. crashes \in 0..MaxCrashes
    BY DEF Types
  <2> QED BY <2>1, <2>2, <2>3
<1> QED
  BY <1>3, <1>5, <1>6, <1>7 DEF Types

(***************************************************************************)
(* The steps of a rewrite in place.                                        *)
(***************************************************************************)
LEMMA LoadShape ==
    ASSUME Types, ThreadTypes, NEW a \in Actors, Load(a)
    PROVE  \/ Goto(a, "idle", Idle)
           \/ \E rows, stale :
                 /\ rows \in Seq(Rows) /\ Clean(rows) /\ stale \in BOOLEAN
                 /\ Goto(a, "truncate", [req[a] EXCEPT !.stale = stale, !.rows = rows])
                 /\ stale = Truncated(Head(req[a].todo))
                 /\ \/ /\ req[a].op = "fact"
                       /\ rows = Upserted(ValidRows(file["semantic"]), req[a].key, req[a].n)
                    \/ /\ req[a].op = "task"
                       /\ rows = LastRows(ValidRows(file["tasks"]), Retention["tasks"])
<1> DEFINE f == Head(req[a].todo)
           valid == ValidRows(file[f])
<1>1. /\ phase[a] \in Rewriting /\ f \in Files /\ f = IF req[a].op = "fact" THEN "semantic" ELSE "tasks"
      /\ req[a].op \in {"fact", "task"} /\ req[a] \in Requests
  BY ThreadFacts DEF Load, Located, Rewriting
<1>2. valid \in Seq(Rows) /\ Clean(valid)
  BY <1>1, ValidRowsClean DEF Types, Lines
<1>3. Truncated(f) \in BOOLEAN
  BY DEF Truncated
<1>4. CASE req[a].op = "fact"
  <2> DEFINE rows == Upserted(valid, req[a].key, req[a].n)
  <2>1. Goto(a, "truncate", [req[a] EXCEPT !.stale = Truncated(f), !.rows = rows])
    BY <1>4 DEF Load
  <2>2. req[a].key \in Nat /\ req[a].n \in Nat
    BY <1>1 DEF Requests
  <2>3. rows \in Seq(Rows) /\ Clean(rows)
    BY <1>2, <2>2, UpsertedRows
  <2>4. f = "semantic"
    BY <1>1, <1>4
  <2> QED BY <1>3, <1>4, <2>1, <2>3, <2>4
<1>5. CASE req[a].op # "fact" /\ ~(Len(valid) <= Retention[f])
  <2> DEFINE rows == LastRows(valid, Retention[f])
  <2>1. Goto(a, "truncate", [req[a] EXCEPT !.stale = Truncated(f), !.rows = rows])
    BY <1>5 DEF Load
  <2>2. Retention[f] \in Nat
    BY <1>1, DoctorConstants
  <2>3. rows \in Seq(Rows) /\ Clean(rows)
    BY <1>2, <2>2, LastOfRows, CleanWithin
  <2>4. f = "tasks" /\ req[a].op = "task"
    BY <1>1, <1>5
  <2> QED BY <1>3, <2>1, <2>3, <2>4
<1>6. CASE req[a].op # "fact" /\ Len(valid) <= Retention[f]
  BY <1>6 DEF Load
<1> QED
  BY <1>4, <1>5, <1>6

\* Types through Load.
LEMMA LoadTypes ==
    ASSUME Types, ThreadTypes, NEW a \in Actors, Load(a)
    PROVE  Types' /\ ThreadTypes'
<1>1. UNCHANGED <<file, backup, status, now, requests, crashes, history, excused, collided, recorded, setBack>>
  BY DEF Load, disk, bounds, ghosts
<1>2. CASE Goto(a, "idle", Idle)
  <2>1. phase' \in [Actors -> Phases] /\ req' \in [Actors -> Requests] /\ ThreadTypes'
    <3>1. "idle" \in Phases
      BY DEF Phases
    <3> QED BY <1>2, <3>1, IdleIsTyped, GotoTypes
  <2> QED BY <1>1, <2>1 DEF Types
<1>3. ASSUME NEW rows \in Seq(Rows), NEW stale \in BOOLEAN, Clean(rows),
             Goto(a, "truncate", [req[a] EXCEPT !.stale = stale, !.rows = rows])
      PROVE  Types' /\ ThreadTypes'
  <2> DEFINE w == [req[a] EXCEPT !.stale = stale, !.rows = rows]
  <2>1. w \in Requests /\ w.op = req[a].op /\ w.todo = req[a].todo /\ w.rows = rows
    <3>1. req[a] \in Requests
      BY DEF Types
    <3> QED BY <1>3, <3>1 DEF Requests
  <2> HIDE DEF w
  <2>2. Located("truncate", w) /\ "truncate" \in Phases
    BY <1>3, <2>1, ThreadFacts DEF Load, Located, Rewriting, Doctoring, Phases
  <2>3. Goto(a, "truncate", w)
    BY <1>3 DEF w
  <2>4. phase' \in [Actors -> Phases] /\ req' \in [Actors -> Requests] /\ ThreadTypes'
    BY <2>1, <2>2, <2>3, GotoTypes
  <2> QED BY <1>1, <2>4 DEF Types
<1> QED
  BY <1>2, <1>3, LoadShape

\* Rows that are dropped are rows.
LEMMA DroppedTyped ==
    ASSUME NEW a \in Actors, NEW old \in Seq(Rows), NEW new
    PROVE  Dropped(a, old, new) \in SUBSET Rows
BY RowsInRange DEF Dropped

\* Types through Truncate.
LEMMA TruncateTypes ==
    ASSUME Types, ThreadTypes, NEW a \in Actors, Truncate(a)
    PROVE  Types' /\ ThreadTypes'
<1> DEFINE f == Head(req[a].todo)
           fact == IF req[a].op = "fact" THEN <<Row(req[a].key, "good", req[a].n)>> ELSE <<>>
           d == Dropped(a, file[f], req[a].rows)
<1>1. /\ f \in Files /\ req[a] \in Requests /\ phase[a] = "truncate"
      /\ Located("truncate", req[a])
  BY ThreadFacts DEF Truncate, Rewriting
<1>2. fact \in Seq(Rows)
  <2>1. Row(req[a].key, "good", req[a].n) \in Rows
    BY <1>1 DEF Requests, Row, Rows
  <2> QED BY <2>1
<1>3. d \in SUBSET Rows
  BY <1>1, DroppedTyped DEF Types, Lines
<1>4. /\ file' = [file EXCEPT ![f] = <<>>]
      /\ history' = [history EXCEPT ![f] = history[f] \o fact]
      /\ excused' = [excused EXCEPT ![f] = excused[f] \cup d]
      /\ GotoChanging(a, "write", req[a], f, FALSE, FALSE)
      /\ UNCHANGED <<backup, status, now, requests, crashes, collided, recorded, setBack>>
  BY <1>1 DEF Truncate, bounds, Types
<1> HIDE DEF f, fact, d
<1>5. file' \in [Files -> Lines]
  <2>1. <<>> \in Lines
    BY DEF Lines
  <2> QED BY <1>4, <2>1 DEF Types
<1>6. history' \in [Files -> Seq(Rows)] /\ excused' \in [Files -> SUBSET Rows]
  <2>1. history[f] \o fact \in Seq(Rows) /\ excused[f] \cup d \in SUBSET Rows
    BY <1>1, <1>2, <1>3 DEF Types
  <2> QED BY <1>4, <2>1 DEF Types
<1>7. phase' \in [Actors -> Phases] /\ req' \in [Actors -> Requests] /\ ThreadTypes'
  <2>1. Located("write", req[a]) /\ "write" \in Phases /\ FALSE \in BOOLEAN
    BY <1>1 DEF Located, Rewriting, Doctoring, Phases
  <2> QED BY <1>1, <1>4, <2>1, GotoTypes
<1> QED
  BY <1>4, <1>5, <1>6, <1>7 DEF Types

\* What Write does, in the terms of the proofs.
LEMMA WriteShape ==
    ASSUME Types, ThreadTypes, NEW a \in Actors, Write(a)
    PROVE  LET f == Head(req[a].todo)
           IN  \E rows :
                 /\ rows \in Lines
                 /\ req[a].detached => rows = file[f]
                 /\ ~req[a].detached => rows \in Overwritten(file[f], req[a].rows)
                 /\ file' = [file EXCEPT ![f] = rows]
                 /\ excused' = [excused EXCEPT ![f] =
                                  excused[f] \cup Dropped(a, file[f] \o req[a].rows, rows)]
                 /\ GotoChanging(a, "idle", Idle, f, FALSE, InvalidCount(rows) > 0)
                 /\ f \in Files /\ f \in {"semantic", "tasks"}
                 /\ file[f] \in Lines /\ req[a].rows \in Seq(Rows) /\ Clean(req[a].rows)
<1> DEFINE f == Head(req[a].todo)
<1>1. /\ f \in Files /\ f \in {"semantic", "tasks"} /\ file[f] \in Lines
      /\ req[a].rows \in Seq(Rows) /\ Clean(req[a].rows)
  BY ThreadFacts DEF Write, Rewriting, Located, Types, Requests
<1>2. PICK rows \in IF req[a].detached THEN {file[f]} ELSE Overwritten(file[f], req[a].rows) :
         /\ file' = [file EXCEPT ![f] = rows]
         /\ excused' = [excused EXCEPT ![f] =
                          excused[f] \cup Dropped(a, file[f] \o req[a].rows, rows)]
         /\ GotoChanging(a, "idle", Idle, f, FALSE, InvalidCount(rows) > 0)
  BY <1>1 DEF Write, Types
<1>3. rows \in Lines
  BY <1>1, <1>2, OverwrittenLines
<1> QED
  BY <1>1, <1>2, <1>3

\* Types through Write.
LEMMA WriteTypes ==
    ASSUME Types, ThreadTypes, NEW a \in Actors, Write(a)
    PROVE  Types' /\ ThreadTypes'
<1> DEFINE f == Head(req[a].todo)
<1>1. PICK rows :
         /\ rows \in Lines
         /\ file' = [file EXCEPT ![f] = rows]
         /\ excused' = [excused EXCEPT ![f] =
                          excused[f] \cup Dropped(a, file[f] \o req[a].rows, rows)]
         /\ GotoChanging(a, "idle", Idle, f, FALSE, InvalidCount(rows) > 0)
         /\ f \in Files /\ file[f] \in Lines /\ req[a].rows \in Seq(Rows)
  BY WriteShape
<1> HIDE DEF f
<1>2. file' \in [Files -> Lines]
  BY <1>1 DEF Types
<1>3. excused' \in [Files -> SUBSET Rows]
  <2> DEFINE d == Dropped(a, file[f] \o req[a].rows, rows)
  <2>1. file[f] \o req[a].rows \in Seq(Rows)
    BY <1>1 DEF Lines
  <2>2. d \in SUBSET Rows
    BY <2>1, DroppedTyped
  <2>3. excused' = [excused EXCEPT ![f] = excused[f] \cup d]
    BY <1>1
  <2> HIDE DEF d
  <2> QED BY <1>1, <2>2, <2>3 DEF Types
<1>4. phase' \in [Actors -> Phases] /\ req' \in [Actors -> Requests] /\ ThreadTypes'
  <2>1. "idle" \in Phases /\ FALSE \in BOOLEAN /\ (InvalidCount(rows) > 0) \in BOOLEAN
    BY DEF Phases
  <2> QED BY <1>1, <2>1, IdleIsTyped, GotoTypes
<1>5. collided' \in SUBSET Files
  <2>1. collided' = collided \/ collided' = collided \cup {f}
    BY DEF Write, f
  <2> QED BY <1>1, <2>1 DEF Types
<1>6. UNCHANGED <<backup, status, now, requests, crashes, history, recorded, setBack>>
  BY DEF Write, bounds
<1> QED
  BY <1>2, <1>3, <1>4, <1>5, <1>6 DEF Types

(***************************************************************************)
(* The steps of the doctor.                                                *)
(***************************************************************************)
LEMMA DoctorFacts ==
    ASSUME Types, ThreadTypes, NEW a \in Actors, phase[a] \in Doctoring
    PROVE  /\ req[a] \in Requests /\ req[a].todo # <<>> /\ req[a].op \in Jobs \cup {"doctor"}
           /\ Head(req[a].todo) \in Files /\ file[Head(req[a].todo)] \in Lines
           /\ file[Head(req[a].todo)] \in Seq(Rows)
           /\ req[a].rows \in Seq(Rows) /\ Clean(req[a].rows)
           /\ req[a].bad \in Nat /\ InvalidCount(file[Head(req[a].todo)]) \in Nat
<1>1. /\ req[a] \in Requests /\ req[a].todo # <<>> /\ req[a].op \in Jobs \cup {"doctor"}
      /\ Head(req[a].todo) \in Files /\ Clean(req[a].rows)
  BY ThreadFacts DEF Located
<1>2. file[Head(req[a].todo)] \in Lines /\ file[Head(req[a].todo)] \in Seq(Rows)
  BY <1>1 DEF Types, Lines
<1>3. req[a].rows \in Seq(Rows) /\ req[a].bad \in Nat
  BY <1>1 DEF Requests
<1> QED
  BY <1>1, <1>2, <1>3, ValidRowsClean

\* The thread after it has read its artifact, and after it has counted what
\* is not valid in it.
HasRead(a) == [req[a] EXCEPT !.rows = ValidRows(file[Head(req[a].todo)]),
                             !.stale = Truncated(Head(req[a].todo))]
Counted(a, w) == [w EXCEPT !.bad = req[a].bad + InvalidCount(file[Head(req[a].todo)])]

\* The thread that has read its artifact.
LEMMA HasReadTyped ==
    ASSUME Types, ThreadTypes, NEW a \in Actors, phase[a] \in Doctoring
    PROVE  /\ HasRead(a) \in Requests
           /\ HasRead(a).rows = ValidRows(file[Head(req[a].todo)])
           /\ HasRead(a).stale = Truncated(Head(req[a].todo))
           /\ HasRead(a).op = req[a].op /\ HasRead(a).todo = req[a].todo
           /\ HasRead(a).repair = req[a].repair /\ HasRead(a).compact = req[a].compact
           /\ HasRead(a).bad = req[a].bad /\ HasRead(a).torn = req[a].torn
           /\ HasRead(a).detached = req[a].detached /\ HasRead(a).n = req[a].n
<1> DEFINE f == Head(req[a].todo)
<1>1. req[a] \in Requests /\ file[f] \in Seq(Rows)
  BY DoctorFacts
<1>2. ValidRows(file[f]) \in Seq(Rows) /\ Truncated(f) \in BOOLEAN
  BY <1>1, ValidRowsClean DEF Truncated
<1> DEFINE rows == ValidRows(file[f])
           stale == Truncated(f)
<1>3. HasRead(a) = [req[a] EXCEPT !.rows = rows, !.stale = stale]
  BY DEF HasRead
<1>4. rows \in Seq(Rows) /\ stale \in BOOLEAN
  BY <1>2
<1> HIDE DEF rows, stale
<1> DEFINE v == HasRead(a)
<1>5. v = [req[a] EXCEPT !.rows = rows, !.stale = stale]
  BY <1>3
<1> HIDE DEF v
<1>6. /\ v \in Requests /\ v.rows = rows /\ v.stale = stale
      /\ v.op = req[a].op /\ v.todo = req[a].todo /\ v.repair = req[a].repair
      /\ v.compact = req[a].compact /\ v.bad = req[a].bad /\ v.torn = req[a].torn
      /\ v.detached = req[a].detached /\ v.n = req[a].n
  BY <1>1, <1>4, <1>5 DEF Requests
<1> QED
  BY <1>6 DEF v, rows, stale, f

\* The thread that has counted the lines that are not valid.
LEMMA CountedTyped ==
    ASSUME Types, ThreadTypes, NEW a \in Actors, phase[a] \in Doctoring, NEW w \in Requests
    PROVE  /\ Counted(a, w) \in Requests
           /\ Counted(a, w).bad = req[a].bad + InvalidCount(file[Head(req[a].todo)])
           /\ Counted(a, w).op = w.op /\ Counted(a, w).todo = w.todo
           /\ Counted(a, w).repair = w.repair /\ Counted(a, w).torn = w.torn
           /\ Counted(a, w).detached = w.detached
<1> DEFINE b == req[a].bad + InvalidCount(file[Head(req[a].todo)])
<1>1. b \in Nat
  BY DoctorFacts
<1>2. ASSUME NEW n \in Nat, NEW v, v = [w EXCEPT !.bad = n]
      PROVE  /\ v \in Requests /\ v.bad = n
             /\ v.op = w.op /\ v.todo = w.todo /\ v.repair = w.repair /\ v.torn = w.torn
             /\ v.detached = w.detached
  BY <1>2 DEF Requests
<1> QED
  BY <1>1, <1>2 DEF Counted

\* What Read does, in the terms of the proofs.
LEMMA ReadShape ==
    ASSUME Types, ThreadTypes, NEW a \in Actors, Read(a)
    PROVE  LET f == Head(req[a].todo)
               bad == InvalidCount(file[f])
           IN  \/ req[a].repair /\ Goto(a, "repair_backup", HasRead(a))
               \/ /\ ~(req[a].repair /\ bad > 0)
                  /\ Goto(a, "compact_backup", HasRead(a))
               \/ /\ ~(req[a].repair /\ bad > 0)
                  /\ NextArtifact(a, Counted(a, HasRead(a)))
<1> DEFINE f == Head(req[a].todo)
           bad == InvalidCount(file[f])
<1>1. phase[a] \in Doctoring
  BY DEF Read, Doctoring
<1>2. HasRead(a).repair = req[a].repair /\ HasRead(a).bad = req[a].bad
  BY <1>1, HasReadTyped
<1>3. Counted(a, HasRead(a)) = [HasRead(a) EXCEPT !.bad = HasRead(a).bad + bad]
  BY <1>2 DEF Counted
<1> QED
  BY <1>2, <1>3 DEF Read, HasRead

\* Types through Read.
LEMMA ReadTypes ==
    ASSUME Types, ThreadTypes, NEW a \in Actors, Read(a)
    PROVE  Types' /\ ThreadTypes'
<1>1. UNCHANGED <<file, backup, status, now, requests, crashes, history, excused, collided, recorded, setBack>>
  BY DEF Read, disk, bounds, ghosts
<1>2. phase[a] \in Doctoring
  BY DEF Read, Doctoring
<1>3. /\ HasRead(a) \in Requests /\ HasRead(a).todo # <<>> /\ Clean(HasRead(a).rows)
      /\ HasRead(a).op \in Jobs \cup {"doctor"}
  BY <1>2, HasReadTyped, DoctorFacts, ValidRowsClean
<1>4. \A p \in {"repair_backup", "compact_backup"} : p \in Phases /\ Located(p, HasRead(a))
  BY <1>3 DEF Located, Rewriting, Doctoring, Phases
<1>5. CASE \E p \in {"repair_backup", "compact_backup"} : Goto(a, p, HasRead(a))
  <2>1. phase' \in [Actors -> Phases] /\ req' \in [Actors -> Requests] /\ ThreadTypes'
    BY <1>3, <1>4, <1>5, GotoTypes
  <2> QED BY <1>1, <2>1 DEF Types
<1>6. CASE NextArtifact(a, Counted(a, HasRead(a)))
  <2>1. /\ Counted(a, HasRead(a)) \in Requests /\ Counted(a, HasRead(a)).todo # <<>>
        /\ Counted(a, HasRead(a)).op \in Jobs \cup {"doctor"}
    BY <1>2, <1>3, CountedTyped
  <2>2. PICK p, w : /\ p \in {"read", "load_status", "idle"}
                    /\ w \in Requests /\ Located(p, w) /\ Goto(a, p, w)
    BY <1>6, <2>1, NextArtifactShape
  <2>3. p \in Phases
    BY <2>2 DEF Phases, Doctoring
  <2>4. phase' \in [Actors -> Phases] /\ req' \in [Actors -> Requests] /\ ThreadTypes'
    BY <2>2, <2>3, GotoTypes
  <2> QED BY <1>1, <2>4 DEF Types
<1> QED
  BY <1>5, <1>6, ReadShape

\* Types through Backup.
LEMMA BackupTypes ==
    ASSUME Types, ThreadTypes, NEW a \in Actors, Backup(a)
    PROVE  Types' /\ ThreadTypes'
<1> DEFINE f == Head(req[a].todo)
           d == Range(backup[f][now]) \ Range(file[f])
           p == IF phase[a] = "repair_backup" THEN "repair_write" ELSE "compact_write"
<1>1. /\ phase[a] \in Doctoring
      /\ f \in Files /\ req[a] \in Requests /\ Located(phase[a], req[a]) /\ file[f] \in Seq(Rows)
  BY ThreadFacts, DoctorFacts DEF Backup, Doctoring
<1>2. backup[f][now] \in Seq(Rows)
  BY <1>1 DEF Types
<1>3. d \in SUBSET Rows
  BY <1>2, RowsInRange
<1>4. /\ backup' = [backup EXCEPT ![f][now] = file[f]]
      /\ excused' = [excused EXCEPT ![f] = excused[f] \cup d]
      /\ Goto(a, p, req[a])
      /\ UNCHANGED <<file, status, now, requests, crashes, history, collided, recorded, setBack>>
  BY <1>1 DEF Backup, bounds, Types
<1>5. p \in Phases /\ Located(p, req[a])
  BY <1>1 DEF Located, Rewriting, Doctoring, Phases
<1> HIDE DEF f, d, p
<1>6. backup' \in [Files -> [0..MaxTime -> Seq(Rows)]]
  <2>1. [backup[f] EXCEPT ![now] = file[f]] \in [0..MaxTime -> Seq(Rows)]
    BY <1>1 DEF Types
  <2>2. backup' = [backup EXCEPT ![f] = [backup[f] EXCEPT ![now] = file[f]]]
    BY <1>1, <1>4 DEF Types
  <2> QED BY <2>1, <2>2 DEF Types
<1>7. excused' \in [Files -> SUBSET Rows]
  BY <1>1, <1>3, <1>4 DEF Types
<1>8. phase' \in [Actors -> Phases] /\ req' \in [Actors -> Requests] /\ ThreadTypes'
  BY <1>1, <1>4, <1>5, GotoTypes
<1> QED
  BY <1>4, <1>6, <1>7, <1>8 DEF Types

\* The thread after it has replaced the file by the rows.
HasReplaced(a, rows) == [req[a] EXCEPT !.changed = TRUE, !.rows = rows]

\* The thread that has renamed its new file over the old one.
LEMMA HasReplacedTyped ==
    ASSUME NEW a \in Actors, req[a] \in Requests, NEW rows \in Seq(Rows)
    PROVE  /\ HasReplaced(a, rows) \in Requests
           /\ HasReplaced(a, rows).rows = rows
           /\ HasReplaced(a, rows).op = req[a].op /\ HasReplaced(a, rows).todo = req[a].todo
           /\ HasReplaced(a, rows).repair = req[a].repair
           /\ HasReplaced(a, rows).compact = req[a].compact
           /\ HasReplaced(a, rows).bad = req[a].bad /\ HasReplaced(a, rows).torn = req[a].torn
           /\ HasReplaced(a, rows).stale = req[a].stale
           /\ HasReplaced(a, rows).detached = req[a].detached
           /\ HasReplaced(a, rows).n = req[a].n
<1>1. ASSUME NEW w \in Requests, NEW v, v = [w EXCEPT !.changed = TRUE, !.rows = rows]
      PROVE  /\ v \in Requests /\ v.rows = rows
             /\ v.op = w.op /\ v.todo = w.todo /\ v.repair = w.repair /\ v.compact = w.compact
             /\ v.bad = w.bad /\ v.torn = w.torn /\ v.stale = w.stale
             /\ v.detached = w.detached /\ v.n = w.n
  <2>1. TRUE \in BOOLEAN
    OBVIOUS
  <2>2. v \in Requests
    BY <1>1, <2>1 DEF Requests
  <2> QED BY <1>1, <2>2 DEF Requests
<1> QED
  BY <1>1 DEF HasReplaced

\* A step of a thread that replaces its artifact.
Replacing(a, rows, p) ==
    LET f == Head(req[a].todo)
    IN  /\ rows \in Seq(Rows) /\ Clean(rows) /\ Within(rows, req[a].rows)
        /\ file' = [file EXCEPT ![f] = rows]
        /\ excused' = [excused EXCEPT ![f] = excused[f] \cup Dropped(a, file[f], rows)]
        /\ GotoChanging(a, p, HasReplaced(a, rows), f, TRUE, FALSE)
        /\ UNCHANGED <<backup, status, now, requests, crashes, history, collided, recorded, setBack>>

\* What RepairWrite and CompactWrite do, in the terms of the proofs.
LEMMA ReplaceShape ==
    ASSUME Types, ThreadTypes, NEW a \in Actors, RepairWrite(a) \/ CompactWrite(a)
    PROVE  /\ phase[a] \in {"repair_write", "compact_write"}
           /\ \E rows, p : Replacing(a, rows, p) /\ p \in {"compact_backup", "report"}
<1> DEFINE f == Head(req[a].todo)
<1>1. phase[a] \in {"repair_write", "compact_write"} /\ phase[a] \in Doctoring
  BY DEF RepairWrite, CompactWrite, Doctoring
<1>2. f \in Files /\ req[a] \in Requests /\ req[a].rows \in Seq(Rows) /\ Clean(req[a].rows)
  BY <1>1, DoctorFacts
<1>3. ASSUME NEW rows \in Seq(Rows), Clean(rows), Within(rows, req[a].rows), NEW p, Replace(a, rows, p)
      PROVE  Replacing(a, rows, p)
  BY <1>2, <1>3 DEF Replace, Replacing, HasReplaced, bounds, Types
<1>4. CASE RepairWrite(a)
  <2>1. [req[a] EXCEPT !.changed = TRUE].changed
    BY <1>2 DEF Requests
  <2> DEFINE p == AfterRepair(a, [req[a] EXCEPT !.changed = TRUE])
  <2>2. p \in {"compact_backup", "report"}
    BY <2>1 DEF AfterRepair
  <2>3. Replace(a, req[a].rows, p)
    BY <1>4 DEF RepairWrite
  <2>4. Within(req[a].rows, req[a].rows)
    BY <1>2, WithinItself
  <2> HIDE DEF p
  <2> QED BY <1>1, <1>2, <1>3, <2>2, <2>3, <2>4
<1>5. CASE CompactWrite(a)
  <2> DEFINE rows == CompactRows(f, req[a].rows)
  <2>1. Within(rows, req[a].rows)
    BY <1>2, CompactKeepsNewest
  <2>2. rows \in Seq(Rows) /\ Clean(rows)
    BY <1>2, <2>1, CleanWithin
  <2>3. Replace(a, rows, "report")
    BY <1>5 DEF CompactWrite
  <2> HIDE DEF rows
  <2> QED BY <1>1, <1>3, <2>1, <2>2, <2>3
<1> QED
  BY <1>4, <1>5

\* Types through RepairWrite and CompactWrite.
LEMMA ReplaceTypes ==
    ASSUME Types, ThreadTypes, NEW a \in Actors, RepairWrite(a) \/ CompactWrite(a)
    PROVE  Types' /\ ThreadTypes'
<1> DEFINE f == Head(req[a].todo)
<1>1. PICK rows, p : Replacing(a, rows, p) /\ p \in {"compact_backup", "report"}
  BY ReplaceShape
<1>2. phase[a] \in Doctoring
  BY ReplaceShape DEF Doctoring
<1>3. /\ f \in Files /\ req[a] \in Requests /\ file[f] \in Seq(Rows)
      /\ req[a].todo # <<>> /\ req[a].op \in Jobs \cup {"doctor"}
  BY <1>2, DoctorFacts
<1>4. /\ rows \in Seq(Rows) /\ Clean(rows)
      /\ file' = [file EXCEPT ![f] = rows]
      /\ excused' = [excused EXCEPT ![f] = excused[f] \cup Dropped(a, file[f], rows)]
      /\ GotoChanging(a, p, HasReplaced(a, rows), f, TRUE, FALSE)
      /\ UNCHANGED <<backup, status, now, requests, crashes, history, collided, recorded, setBack>>
  BY <1>1 DEF Replacing
<1> HIDE DEF f
<1>5. file' \in [Files -> Lines]
  <2>1. rows \in Lines
    BY <1>4, CleanLines
  <2> QED BY <1>4, <2>1 DEF Types
<1>6. excused' \in [Files -> SUBSET Rows]
  <2>1. Dropped(a, file[f], rows) \in SUBSET Rows
    BY <1>3, DroppedTyped
  <2> QED BY <1>3, <1>4, <2>1 DEF Types
<1>7. phase' \in [Actors -> Phases] /\ req' \in [Actors -> Requests] /\ ThreadTypes'
  <2>1. /\ HasReplaced(a, rows) \in Requests /\ HasReplaced(a, rows).rows = rows
        /\ HasReplaced(a, rows).op = req[a].op /\ HasReplaced(a, rows).todo = req[a].todo
    BY <1>3, <1>4, HasReplacedTyped
  <2>2. p \in Phases /\ Located(p, HasReplaced(a, rows)) /\ TRUE \in BOOLEAN /\ FALSE \in BOOLEAN
    BY <1>1, <1>3, <1>4, <2>1 DEF Located, Rewriting, Doctoring, Phases
  <2> QED BY <1>4, <2>1, <2>2, GotoTypes
<1> QED
  BY <1>4, <1>5, <1>6, <1>7 DEF Types

\* What Report does, in the terms of the proofs.
LEMMA ReportShape ==
    ASSUME Types, ThreadTypes, NEW a \in Actors, Report(a)
    PROVE  /\ phase[a] = "report" /\ NextArtifact(a, Counted(a, req[a]))
           /\ UNCHANGED <<file, backup, status, now, requests, crashes,
                          history, excused, collided, recorded, setBack>>
BY DEF Report, Counted, disk, bounds, ghosts

\* Types through Report.
LEMMA ReportTypes ==
    ASSUME Types, ThreadTypes, NEW a \in Actors, Report(a)
    PROVE  Types' /\ ThreadTypes'
<1>1. phase[a] \in Doctoring
  BY DEF Report, Doctoring
<1>2. /\ Counted(a, req[a]) \in Requests /\ Counted(a, req[a]).todo # <<>>
      /\ Counted(a, req[a]).op \in Jobs \cup {"doctor"}
  BY <1>1, DoctorFacts, CountedTyped
<1>3. PICK p, w : /\ p \in {"read", "load_status", "idle"}
                  /\ w \in Requests /\ Located(p, w) /\ Goto(a, p, w)
  BY <1>2, ReportShape, NextArtifactShape
<1>4. p \in Phases
  BY <1>3 DEF Phases, Doctoring
<1>5. phase' \in [Actors -> Phases] /\ req' \in [Actors -> Requests] /\ ThreadTypes'
  BY <1>3, <1>4, GotoTypes
<1> QED
  BY <1>5, ReportShape DEF Types

(***************************************************************************)
(* The steps of a job that saves its outcome, a crash and the clock.       *)
(***************************************************************************)
LEMMA OutcomeTyped ==
    ASSUME Types, NEW a \in Actors
    PROVE  Outcome(a) \in Runs
<1>1. req[a].n \in Nat
  <2>1. req[a] \in Requests
    BY DEF Types
  <2> QED BY <2>1 DEF Requests
<1>2. (req[a].op = "weekly_compact" \/ req[a].bad = 0) \in BOOLEAN
  OBVIOUS
<1> QED
  BY <1>1, <1>2 DEF Outcome, Runs

\* Types through LoadStatus.
LEMMA LoadStatusTypes ==
    ASSUME Types, ThreadTypes, NEW a \in Actors, LoadStatus(a)
    PROVE  Types' /\ ThreadTypes'
<1> DEFINE w == [req[a] EXCEPT !.status = status]
<1>1. w \in Requests /\ w.op = req[a].op /\ w.rows = req[a].rows
  <2>1. req[a] \in Requests /\ status \in [Jobs -> Runs]
    BY DEF Types
  <2> QED BY <2>1 DEF Requests
<1>2. Goto(a, "save_status", w)
  BY DEF LoadStatus
<1> HIDE DEF w
<1>3. "save_status" \in Phases /\ Located("save_status", w)
  BY <1>1, ThreadFacts DEF LoadStatus, Located, Rewriting, Doctoring, Phases
<1>4. phase' \in [Actors -> Phases] /\ req' \in [Actors -> Requests] /\ ThreadTypes'
  BY <1>1, <1>2, <1>3, GotoTypes
<1>5. UNCHANGED <<file, backup, status, now, requests, crashes, history, excused, collided, recorded, setBack>>
  BY DEF LoadStatus, disk, bounds, ghosts
<1> QED
  BY <1>4, <1>5 DEF Types

\* Types through SaveStatus.
LEMMA SaveStatusTypes ==
    ASSUME Types, ThreadTypes, NEW a \in Actors, SaveStatus(a)
    PROVE  Types' /\ ThreadTypes'
<1> DEFINE job == req[a].op
           w == [Idle EXCEPT !.op = job, !.n = req[a].n]
           undone == {j \in Jobs \ {job} : status[j] # req[a].status[j]}
<1>1. job \in Jobs /\ req[a] \in Requests /\ req[a].status \in [Jobs -> Runs] /\ req[a].n \in Nat
  <2>1. job \in Jobs /\ req[a] \in Requests
    BY ThreadFacts DEF SaveStatus, Located
  <2> QED BY <2>1 DEF Requests
<1>2. w \in Requests /\ w.op = job
  <2>1. Idle \in Requests /\ job \in Ops /\ req[a].n \in Nat
    BY <1>1, IdleIsTyped DEF Ops
  <2> QED BY <2>1 DEF Requests
<1>3. /\ status' = [req[a].status EXCEPT ![job] = Outcome(a)]
      /\ recorded' = [recorded EXCEPT ![job] = Outcome(a)]
      /\ setBack' = (setBack \ {job}) \cup undone
      /\ Goto(a, "episode", w)
      /\ UNCHANGED <<file, backup, now, requests, crashes, history, excused, collided>>
  BY DEF SaveStatus, disk, bounds
<1> HIDE DEF w, job, undone
<1>4. status' \in [Jobs -> Runs] /\ recorded' \in [Jobs -> Runs]
  BY <1>1, <1>3, OutcomeTyped DEF Types
<1>5. setBack' \in SUBSET Jobs
  BY <1>3 DEF Types, undone
<1>6. "episode" \in Phases /\ Located("episode", w)
  BY <1>1, <1>2 DEF Located, Rewriting, Doctoring, Phases
<1>7. phase' \in [Actors -> Phases] /\ req' \in [Actors -> Requests] /\ ThreadTypes'
  BY <1>2, <1>3, <1>6, GotoTypes
<1> QED
  BY <1>3, <1>4, <1>5, <1>7 DEF Types

\* What Crash does, in the terms of the proofs.
LEMMA CrashShape ==
    ASSUME Types, ThreadTypes, NEW a \in Actors, Crash(a)
    PROVE  LET f == Head(req[a].todo)
           IN  /\ Goto(a, "idle", Idle)
               /\ crashes' \in 0..MaxCrashes
               /\ UNCHANGED <<file, backup, status, now, requests,
                              history, collided, recorded, setBack>>
               /\ \/ phase[a] # "write" /\ excused' = excused
                  \/ /\ phase[a] = "write" /\ f \in Files
                     /\ req[a].rows \in Seq(Rows)
                     /\ excused' = [excused EXCEPT ![f] = excused[f] \cup Range(req[a].rows)]
<1> DEFINE f == Head(req[a].todo)
<1>1. phase[a] = "write" => f \in Files /\ req[a].rows \in Seq(Rows)
  <2>1. req[a] \in Requests /\ (phase[a] = "write" => f \in Files)
    BY ThreadFacts DEF Rewriting
  <2> QED BY <2>1 DEF Requests
<1>2. crashes' \in 0..MaxCrashes
  <2>1. crashes < MaxCrashes /\ crashes' = crashes + 1
    BY DEF Crash
  <2>2. crashes \in 0..MaxCrashes /\ MaxCrashes \in Nat
    BY DoctorConstants DEF Types
  <2> QED BY <2>1, <2>2
<1>3. Goto(a, "idle", Idle) /\ UNCHANGED <<file, backup, status, now, requests, history, collided, recorded, setBack>>
  BY DEF Crash, disk
<1>4. \/ phase[a] # "write" /\ excused' = excused
      \/ /\ phase[a] = "write"
         /\ excused' = [excused EXCEPT ![f] = excused[f] \cup Range(req[a].rows)]
  BY <1>1 DEF Crash, Types
<1> QED
  BY <1>1, <1>2, <1>3, <1>4

\* Types through Crash.
LEMMA CrashTypes ==
    ASSUME Types, ThreadTypes, NEW a \in Actors, Crash(a)
    PROVE  Types' /\ ThreadTypes'
<1>1. excused' \in [Files -> SUBSET Rows]
  <2>1. ASSUME NEW f \in Files, NEW d \in SUBSET Rows,
               excused' = [excused EXCEPT ![f] = excused[f] \cup d]
        PROVE  excused' \in [Files -> SUBSET Rows]
    BY <2>1 DEF Types
  <2>2. CASE excused' = excused
    BY <2>2 DEF Types
  <2> QED BY <2>1, <2>2, CrashShape, RowsInRange
<1>2. phase' \in [Actors -> Phases] /\ req' \in [Actors -> Requests] /\ ThreadTypes'
  <2>1. "idle" \in Phases
    BY DEF Phases
  <2> QED BY <2>1, CrashShape, IdleIsTyped, GotoTypes
<1> QED
  BY <1>1, <1>2, CrashShape DEF Types

\* Types through Request.
LEMMA BeginTypes ==
    ASSUME Types, ThreadTypes, NEW a \in Actors, Request(a)
    PROVE  Types' /\ ThreadTypes'
<1>1. PICK p, w : BeginsAs(a, p, w)
  BY BeginShape
<1>2. phase' \in [Actors -> Phases] /\ req' \in [Actors -> Requests] /\ ThreadTypes'
  BY <1>1, GotoTypes DEF BeginsAs
<1>3. /\ requests' = requests + 1 /\ requests < MaxRequests
      /\ UNCHANGED <<file, backup, status, now, crashes, history, excused, collided, recorded, setBack>>
  BY BeginShape DEF disk, ghosts
<1>4. requests' \in 0..MaxRequests
  BY <1>3, DoctorConstants DEF Types
<1> QED
  BY <1>2, <1>3, <1>4 DEF Types

\* Types through Tick.
LEMMA TickTypes ==
    ASSUME Types, ThreadTypes, Tick
    PROVE  Types' /\ ThreadTypes'
<1>1. UNCHANGED <<file, backup, status, phase, req, requests, crashes, history, excused, collided, recorded, setBack>>
  BY DEF Tick, disk, bounds, ghosts
<1>2. now' \in 0..MaxTime
  BY DoctorConstants DEF Tick, Types
<1> QED
  BY <1>1, <1>2 DEF Types, ThreadTypes

\* Types to begin with.
LEMMA TypesInit == Init => Types /\ ThreadTypes
<1> SUFFICES ASSUME Init PROVE Types /\ ThreadTypes
  OBVIOUS
<1>1. file \in [Files -> Lines] /\ history = file
  BY DoctorStarts DEF Init
<1>2. history \in [Files -> Seq(Rows)]
  BY <1>1 DEF Lines
<1>3. status \in [Jobs -> Runs] /\ recorded \in [Jobs -> Runs]
  BY DEF Init, NoRun, Runs
<1>4. phase \in [Actors -> Phases] /\ req \in [Actors -> Requests] /\ ThreadTypes
  BY IdleIsTyped DEF Init, Phases, ThreadTypes
<1>5. backup \in [Files -> [0..MaxTime -> Seq(Rows)]]
  BY DEF Init
<1>6. now \in 0..MaxTime /\ requests \in 0..MaxRequests /\ crashes \in 0..MaxCrashes
  BY DoctorConstants DEF Init
<1>7. excused \in [Files -> SUBSET Rows] /\ collided \in SUBSET Files /\ setBack \in SUBSET Jobs
  BY DEF Init
<1> QED
  BY <1>1, <1>2, <1>3, <1>4, <1>5, <1>6, <1>7 DEF Types

\* Types through every step.
LEMMA TypesStep ==
    ASSUME Types, ThreadTypes, [Next]_vars
    PROVE  Types' /\ ThreadTypes'
<1>1. CASE UNCHANGED vars
  BY <1>1 DEF vars, disk, bounds, ghosts, Types, ThreadTypes
<1>2. CASE Tick
  BY <1>2, TickTypes
<1>3. ASSUME NEW a \in Actors, Request(a) PROVE Types' /\ ThreadTypes'
  BY <1>3, BeginTypes
<1>4. ASSUME NEW a \in Actors, Crash(a) PROVE Types' /\ ThreadTypes'
  BY <1>4, CrashTypes
<1>5. ASSUME NEW a \in Actors, Step(a) PROVE Types' /\ ThreadTypes'
  BY <1>5, AppendEpisodeTypes, AppendTaskTypes, AppendTornTypes, LoadTypes, TruncateTypes,
     WriteTypes, ReadTypes, BackupTypes, ReplaceTypes, ReportTypes, LoadStatusTypes,
     SaveStatusTypes DEF Step
<1> QED
  BY <1>1, <1>2, <1>3, <1>4, <1>5 DEF Next

(***************************************************************************)
(* The files, the status and the threads always have their types; only the *)
(* last line of a file lacks its end of line.                              *)
(***************************************************************************)
THEOREM DoctorTypesHold == Spec => [](Types /\ ThreadTypes)
<1>1. Types /\ ThreadTypes /\ [Next]_vars => (Types /\ ThreadTypes)'
  BY TypesStep
<1> QED
  BY <1>1, TypesInit, PTL DEF Spec

(***************************************************************************)
(* TypeOK: of every file only the last line lacks its end of line, through *)
(* all appends, rewrites, repairs and torn writes.                         *)
(***************************************************************************)
THEOREM DoctorTypeCorrect == Spec => []TypeOK
<1>1. Types => TypeOK
  BY DEF Types, TypeOK
<1> QED
  BY <1>1, DoctorTypesHold, PTL

-----------------------------------------------------------------------------
(* Compaction and the status of the jobs.                                  *)

(***************************************************************************)
(* Whatever the doctor has read of a file, a compaction of it keeps the    *)
(* newest copy of each id, in order, as many as the retention allows, and  *)
(* is idempotent.                                                          *)
(***************************************************************************)
LEMMA TypesGiveNewest == Types /\ ThreadTypes => NewestCopiesSurvive
<1> SUFFICES ASSUME Types, ThreadTypes, NEW a \in Actors,
                    phase[a] \in {"compact_backup", "compact_write"}
             PROVE  LET f == Head(req[a].todo)
                        rows == req[a].rows
                        kept == CompactRows(f, rows)
                        within == KeptOf(f, rows)
                    IN  /\ Len(kept) = Cardinality(within)
                        /\ \A i \in within :
                              kept[Cardinality({j \in within : j <= i})] = rows[i]
                        /\ CompactRows(f, kept) = kept
  BY DEF NewestCopiesSurvive, KeptOf, NewestOf
<1>1. Head(req[a].todo) \in Files /\ req[a].rows \in Seq(Rows)
  BY DoctorFacts DEF Doctoring
<1> QED
  BY <1>1, CompactKeepsNewest DEF Lists, Rank

(***************************************************************************)
(* A compaction keeps exactly the newest copy of each id and the newest of *)
(* these that the retention allows, for all files, and is idempotent       *)
(* (doctor.py, _compact_rows).                                             *)
(***************************************************************************)
THEOREM DoctorKeepsNewest == Spec => []NewestCopiesSurvive
BY TypesGiveNewest, DoctorTypesHold, PTL

(***************************************************************************)
(* maintenance.json holds the latest outcome of a job unless the other     *)
(* job saved a copy that it had loaded before: a save only undoes what     *)
(* changed since the load.                                                 *)
(***************************************************************************)
LEMMA StatusStep ==
    ASSUME Types, ThreadTypes, StatusIsLatest, [Next]_vars
    PROVE  StatusIsLatest'
<1>1. ASSUME NEW a \in Actors, SaveStatus(a) PROVE StatusIsLatest'
  <2> DEFINE job == req[a].op
             undone == {j \in Jobs \ {job} : status[j] # req[a].status[j]}
  <2>1. /\ status' = [req[a].status EXCEPT ![job] = Outcome(a)]
        /\ recorded' = [recorded EXCEPT ![job] = Outcome(a)]
        /\ setBack' = (setBack \ {job}) \cup undone
    BY <1>1 DEF SaveStatus
  <2>2. req[a].status \in [Jobs -> Runs] /\ recorded \in [Jobs -> Runs] /\ job \in Jobs
    <3>1. req[a] \in Requests /\ job \in Jobs
      BY <1>1, ThreadFacts DEF SaveStatus, Located
    <3> QED BY <3>1 DEF Requests, Types
  <2>3. ASSUME NEW j \in Jobs, j \notin setBack' PROVE status'[j] = recorded'[j]
    <3>1. CASE j = job
      BY <2>1, <2>2, <3>1
    <3>2. CASE j # job
      <4>1. status[j] = req[a].status[j] /\ j \notin setBack
        BY <2>1, <2>3, <3>2
      <4>2. status'[j] = req[a].status[j] /\ recorded'[j] = recorded[j]
        BY <2>1, <2>2, <3>2
      <4> QED BY <4>1, <4>2 DEF StatusIsLatest
    <3> QED BY <3>1, <3>2
  <2> QED BY <2>3 DEF StatusIsLatest
<1>2. CASE UNCHANGED <<status, recorded, setBack>>
  <2>1. status' = status /\ recorded' = recorded /\ setBack' = setBack
    BY <1>2
  <2> QED BY <2>1 DEF StatusIsLatest
<1>3. ASSUME NEW a \in Actors, Step(a), ~SaveStatus(a)
      PROVE  UNCHANGED <<status, recorded, setBack>>
  BY <1>3 DEF Step, AppendEpisode, AppendTask, AppendTorn, Load, Truncate, Write, Read,
     Backup, RepairWrite, CompactWrite, Replace, Report, LoadStatus, ghosts
<1>4. ASSUME NEW a \in Actors, Request(a) PROVE UNCHANGED <<status, recorded, setBack>>
  BY <1>4, BeginShape DEF ghosts
<1>5. ASSUME NEW a \in Actors, Crash(a) PROVE UNCHANGED <<status, recorded, setBack>>
  BY <1>5 DEF Crash
<1>6. CASE Tick
  BY <1>6 DEF Tick, ghosts, StatusIsLatest
<1>7. CASE UNCHANGED vars
  BY <1>7 DEF vars, ghosts, StatusIsLatest
<1> QED
  BY <1>1, <1>2, <1>3, <1>4, <1>5, <1>6, <1>7 DEF Next

(***************************************************************************)
(* maintenance.json holds the latest outcome of both jobs, unless an       *)
(* overlapping save has undone it (save_maintenance_status).               *)
(***************************************************************************)
THEOREM DoctorStatusIsLatest == Spec => []StatusIsLatest
<1>1. Init => StatusIsLatest
  BY DEF Init, StatusIsLatest
<1>2. Types /\ ThreadTypes /\ StatusIsLatest /\ [Next]_vars => StatusIsLatest'
  BY StatusStep
<1> QED
  BY <1>1, <1>2, DoctorTypesHold, PTL DEF Spec

-----------------------------------------------------------------------------
(* Repairs.                                                                *)

(***************************************************************************)
(* Once a repairing doctor has rewritten an artifact, or found nothing to  *)
(* repair in it, the artifact is clean until the doctor goes on, unless a  *)
(* line that is not valid was written since it began.                      *)
(***************************************************************************)
Healed(p, w, contents) ==
    /\ w.repair /\ w.bad > 0 => w.torn
    /\ p \in {"compact_backup", "compact_write", "report"} /\ w.repair /\ ~w.torn =>
          Clean(contents[Head(w.todo)])

Heals == \A a \in Actors : Healed(phase[a], req[a], file)

\* A step that changes no file keeps Heals, if it leaves its own thread healed.
LEMMA HealedByGoing ==
    ASSUME Types, ThreadTypes, Heals, NEW a \in Actors, NEW p, NEW w,
           Goto(a, p, w), UNCHANGED file, Healed(p, w, file)
    PROVE  Heals'
<1> SUFFICES ASSUME NEW b \in Actors PROVE Healed(phase'[b], req'[b], file')
  BY DEF Heals
<1>1. CASE b = a
  <2>1. phase'[a] = p /\ req'[a] = w
    BY DEF Goto, Types
  <2> QED BY <1>1, <2>1
<1>2. CASE b # a
  <2>1. phase'[b] = phase[b] /\ req'[b] = req[b]
    BY <1>2 DEF Goto, Types
  <2> QED BY <2>1 DEF Heals
<1> QED
  BY <1>1, <1>2

\* So does one that changes f, if it tells the repairs of f of a line it breaks.
LEMMA HealedByChanging ==
    ASSUME Types, ThreadTypes, Heals, NEW a \in Actors, NEW p, NEW w, NEW f \in Files,
           NEW renamed \in BOOLEAN, NEW torn \in BOOLEAN, NEW rows,
           GotoChanging(a, p, w, f, renamed, torn),
           file' = [file EXCEPT ![f] = rows],
           torn \/ (Clean(file[f]) => Clean(rows)),
           Healed(p, w, file')
    PROVE  Heals'
<1> SUFFICES ASSUME NEW b \in Actors PROVE Healed(phase'[b], req'[b], file')
  BY DEF Heals
<1>1. CASE b = a
  <2>1. phase'[a] = p /\ req'[a] = w
    BY OthersKeep
  <2> QED BY <1>1, <2>1
<1>2. CASE b # a
  <2>1. /\ phase'[b] = phase[b] /\ req'[b].repair = req[b].repair
        /\ req'[b].bad = req[b].bad /\ req'[b].todo = req[b].todo
    BY <1>2, OthersKeep
  <2>2. req'[b].torn <=> req[b].torn \/ (torn /\ req[b].repair)
    BY <1>2, OthersLearn
  <2>3. Healed(phase[b], req[b], file)
    BY DEF Heals
  <2>4. req'[b].repair /\ req'[b].bad > 0 => req'[b].torn
    BY <2>1, <2>2, <2>3 DEF Healed
  <2>5. ASSUME phase'[b] \in {"compact_backup", "compact_write", "report"},
               req'[b].repair, ~req'[b].torn
        PROVE  Clean(file'[Head(req'[b].todo)])
    <3>1. /\ phase[b] \in {"compact_backup", "compact_write", "report"}
          /\ req[b].repair /\ ~req[b].torn /\ ~torn
      BY <2>1, <2>2, <2>5
    <3>2. Clean(file[Head(req[b].todo)])
      BY <2>3, <3>1 DEF Healed
    <3>3. Head(req[b].todo) \in Files
      BY <3>1, ThreadFacts DEF Doctoring
    <3>4. Clean(file[f]) => Clean(rows)
      BY <3>1
    <3>5. \A g \in Files : file'[g] = IF g = f THEN rows ELSE file[g]
      BY DEF Types
    <3> QED BY <2>1, <3>2, <3>3, <3>4, <3>5
  <2> QED BY <2>4, <2>5 DEF Healed
<1> QED
  BY <1>1, <1>2

\* A thread that does not repair has nothing to heal.
LEMMA IdleIsHealed ==
    ASSUME NEW contents
    PROVE  /\ Healed("idle", Idle, contents)
           /\ \A w : ~w.repair => Healed("idle", w, contents)
BY DEF Healed, Idle

\* Heals through the appends: only a torn one breaks a line, and it tells.
LEMMA HealsAppend ==
    ASSUME Types, ThreadTypes, Heals, NEW a \in Actors,
           AppendEpisode(a) \/ AppendTask(a) \/ AppendTorn(a)
    PROVE  Heals'
<1>1. Fresh(a) \in Rows /\ Good(Fresh(a))
  BY FreshRow
<1>2. \A f \in Files : Clean(file[f]) => Clean(Appended(file[f], Fresh(a)))
  BY <1>1, AppendedLines DEF Types
<1>3. CASE AppendEpisode(a)
  <2>1. "episodic" \in Files /\ file' = [file EXCEPT !["episodic"] = Appended(file["episodic"], Fresh(a))]
    BY <1>3, DoctorConstants DEF AppendEpisode, Append1, Types
  <2>2. GotoChanging(a, "idle", Idle, "episodic", FALSE, FALSE) /\ FALSE \in BOOLEAN
    BY <1>3 DEF AppendEpisode
  <2> QED BY <1>2, <2>1, <2>2, IdleIsHealed, HealedByChanging
<1>4. CASE AppendTask(a)
  <2>1. "tasks" \in Files /\ file' = [file EXCEPT !["tasks"] = Appended(file["tasks"], Fresh(a))]
    BY <1>4, DoctorConstants DEF AppendTask, Append1, Types
  <2>2. GotoChanging(a, "load", req[a], "tasks", FALSE, FALSE) /\ FALSE \in BOOLEAN
    BY <1>4 DEF AppendTask
  <2>3. Healed("load", req[a], file')
    BY DEF Heals, Healed
  <2> QED BY <1>2, <2>1, <2>2, <2>3, HealedByChanging
<1>5. CASE AppendTorn(a)
  <2> DEFINE f == Head(req[a].todo)
             rows == Appended(file[f], [Fresh(a) EXCEPT !.kind = "torn"])
  <2>1. f \in Files
    BY <1>5, ThreadFacts DEF AppendTorn
  <2>2. file' = [file EXCEPT ![f] = rows]
    BY <1>5, <2>1 DEF AppendTorn, Append1, Types
  <2>3. GotoChanging(a, "idle", Idle, f, FALSE, TRUE) /\ FALSE \in BOOLEAN /\ TRUE \in BOOLEAN
    BY <1>5 DEF AppendTorn
  <2> HIDE DEF f, rows
  <2> QED BY <2>1, <2>2, <2>3, IdleIsHealed, HealedByChanging
<1> QED
  BY <1>3, <1>4, <1>5

\* Heals through a rewrite in place, which tells if a line is left broken.
LEMMA HealsRewrite ==
    ASSUME Types, ThreadTypes, Heals, NEW a \in Actors, Load(a) \/ Truncate(a) \/ Write(a)
    PROVE  Heals'
<1>1. CASE Load(a)
  <2>1. UNCHANGED file
    BY <1>1 DEF Load, disk
  <2>2. ASSUME NEW rows, NEW stale,
               Goto(a, "truncate", [req[a] EXCEPT !.stale = stale, !.rows = rows])
        PROVE  Heals'
    <3> DEFINE w == [req[a] EXCEPT !.stale = stale, !.rows = rows]
    <3>1. w.repair = req[a].repair /\ w.bad = req[a].bad /\ w.torn = req[a].torn
      <4>1. req[a] \in Requests
        BY DEF Types
      <4> QED BY <4>1 DEF Requests
    <3>2. Goto(a, "truncate", w)
      BY <2>2
    <3> HIDE DEF w
    <3>3. Healed("truncate", w, file)
      BY <3>1 DEF Heals, Healed
    <3> QED BY <2>1, <3>2, <3>3, HealedByGoing
  <2>3. CASE Goto(a, "idle", Idle)
    BY <2>1, <2>3, IdleIsHealed, HealedByGoing
  <2> QED BY <1>1, <2>2, <2>3, LoadShape
<1>2. CASE Truncate(a)
  <2> DEFINE f == Head(req[a].todo)
  <2>1. f \in Files
    BY <1>2, ThreadFacts DEF Truncate, Rewriting
  <2>2. file' = [file EXCEPT ![f] = <<>>] /\ Clean(<<>>)
    BY <1>2 DEF Truncate, Clean
  <2>3. GotoChanging(a, "write", req[a], f, FALSE, FALSE) /\ FALSE \in BOOLEAN
    BY <1>2 DEF Truncate
  <2>4. Healed("write", req[a], file')
    BY DEF Heals, Healed
  <2> QED BY <2>1, <2>2, <2>3, <2>4, HealedByChanging
<1>3. CASE Write(a)
  <2> DEFINE f == Head(req[a].todo)
  <2>1. PICK rows : /\ rows \in Lines /\ f \in Files
                    /\ file' = [file EXCEPT ![f] = rows]
                    /\ GotoChanging(a, "idle", Idle, f, FALSE, InvalidCount(rows) > 0)
    BY <1>3, WriteShape
  <2> DEFINE torn == InvalidCount(rows) > 0
  <2>2. torn \/ Clean(rows)
    <3>1. rows \in Seq(Rows)
      BY <2>1 DEF Lines
    <3>2. InvalidCount(rows) \in Nat /\ (InvalidCount(rows) = 0 <=> Clean(rows))
      BY <3>1, ValidRowsClean
    <3> QED BY <3>2
  <2>3. torn \in BOOLEAN /\ FALSE \in BOOLEAN
    OBVIOUS
  <2>4. GotoChanging(a, "idle", Idle, f, FALSE, torn)
    BY <2>1, Zenon
  <2> HIDE DEF f, torn
  <2> QED BY <2>1, <2>2, <2>3, <2>4, IdleIsHealed, HealedByChanging
<1> QED
  BY <1>1, <1>2, <1>3

\* Going on from an artifact that is clean leaves nothing to complain of.
LEMMA HealedNext ==
    ASSUME Types, ThreadTypes, Heals, NEW a \in Actors, phase[a] \in Doctoring,
           NEW r \in Requests, r.todo # <<>>, r.op \in Jobs \cup {"doctor"},
           r.repair = req[a].repair, r.torn = req[a].torn,
           NextArtifact(a, Counted(a, r)), UNCHANGED file,
           req[a].repair /\ ~req[a].torn => Clean(file[Head(req[a].todo)])
    PROVE  Heals'
<1> DEFINE v == Counted(a, r)
<1>1. /\ v \in Requests /\ v.op = r.op /\ v.todo = r.todo
      /\ v.repair = req[a].repair /\ v.torn = req[a].torn
      /\ v.bad = req[a].bad + InvalidCount(file[Head(req[a].todo)])
  BY CountedTyped
<1>2. v.repair /\ v.bad > 0 => v.torn
  <2> SUFFICES ASSUME req[a].repair, ~req[a].torn PROVE v.bad = 0
    BY <1>1
  <2>1. InvalidCount(file[Head(req[a].todo)]) = 0
    BY DoctorFacts, ValidRowsClean
  <2>2. req[a].bad = 0
    <3>1. ~(req[a].bad > 0) /\ req[a].bad \in Nat
      BY DoctorFacts DEF Heals, Healed
    <3> QED BY <3>1
  <2> QED BY <1>1, <2>1, <2>2
<1> HIDE DEF v
<1>3. PICK p, w : /\ p \in {"read", "load_status", "idle"} /\ Goto(a, p, w)
                  /\ w = Idle \/ (w.repair = v.repair /\ w.bad = v.bad /\ w.torn = v.torn)
  <2>1. NextArtifact(a, v)
    BY DEF v
  <2> QED BY <1>1, <2>1, NextArtifactShape
<1>4. Healed(p, w, file)
  BY <1>2, <1>3 DEF Healed, Idle
<1> QED
  BY <1>3, <1>4, HealedByGoing

\* Heals through the steps of the doctor.
LEMMA HealsDoctor ==
    ASSUME Types, ThreadTypes, Heals, NEW a \in Actors,
           Read(a) \/ Backup(a) \/ RepairWrite(a) \/ CompactWrite(a) \/ Report(a)
    PROVE  Heals'
<1> DEFINE f == Head(req[a].todo)
<1>1. CASE Read(a)
  <2>1. phase[a] \in Doctoring /\ UNCHANGED file
    BY <1>1 DEF Read, Doctoring, disk
  <2>2. /\ HasRead(a) \in Requests /\ HasRead(a).todo = req[a].todo /\ HasRead(a).op = req[a].op
        /\ HasRead(a).repair = req[a].repair /\ HasRead(a).torn = req[a].torn
        /\ HasRead(a).bad = req[a].bad
    BY <2>1, HasReadTyped
  <2>3. req[a].repair /\ ~(req[a].repair /\ InvalidCount(file[f]) > 0) => Clean(file[f])
    <3>1. file[f] \in Seq(Rows)
      BY <2>1, DoctorFacts
    <3>2. InvalidCount(file[f]) \in Nat /\ (InvalidCount(file[f]) = 0 <=> Clean(file[f]))
      BY <3>1, ValidRowsClean
    <3> QED BY <3>2
  <2>4. CASE Goto(a, "repair_backup", HasRead(a))
    <3>1. Healed("repair_backup", HasRead(a), file)
      BY <2>2 DEF Heals, Healed
    <3> QED BY <2>1, <2>4, <3>1, HealedByGoing
  <2>5. CASE ~(req[a].repair /\ InvalidCount(file[f]) > 0) /\ Goto(a, "compact_backup", HasRead(a))
    <3>1. Healed("compact_backup", HasRead(a), file)
      BY <2>2, <2>3, <2>5 DEF Heals, Healed
    <3> QED BY <2>1, <2>5, <3>1, HealedByGoing
  <2>6. CASE ~(req[a].repair /\ InvalidCount(file[f]) > 0) /\ NextArtifact(a, Counted(a, HasRead(a)))
    <3>1. HasRead(a).todo # <<>> /\ HasRead(a).op \in Jobs \cup {"doctor"}
      BY <2>1, <2>2, DoctorFacts
    <3> QED BY <2>1, <2>2, <2>3, <2>6, <3>1, HealedNext
  <2> QED BY <1>1, <2>4, <2>5, <2>6, ReadShape
<1>2. CASE Backup(a)
  <2>1. UNCHANGED file
    BY <1>2 DEF Backup
  <2>2. Healed(phase[a], req[a], file)
    BY DEF Heals
  <2>3. CASE phase[a] = "repair_backup"
    <3>1. Healed("repair_write", req[a], file) /\ Goto(a, "repair_write", req[a])
      BY <1>2, <2>2, <2>3 DEF Healed, Backup
    <3> QED BY <2>1, <3>1, HealedByGoing
  <2>4. CASE phase[a] = "compact_backup"
    <3>1. Healed("compact_write", req[a], file) /\ Goto(a, "compact_write", req[a])
      BY <1>2, <2>2, <2>4 DEF Healed, Backup
    <3> QED BY <2>1, <3>1, HealedByGoing
  <2> QED BY <1>2, <2>3, <2>4 DEF Backup
<1>3. CASE RepairWrite(a) \/ CompactWrite(a)
  <2>1. PICK rows, p : Replacing(a, rows, p) /\ p \in {"compact_backup", "report"}
    BY <1>3, ReplaceShape
  <2>2. phase[a] \in Doctoring
    BY <1>3, ReplaceShape DEF Doctoring
  <2>3. f \in Files /\ req[a] \in Requests
    BY <2>2, DoctorFacts
  <2>4. /\ rows \in Seq(Rows) /\ Clean(rows) /\ file' = [file EXCEPT ![f] = rows]
        /\ GotoChanging(a, p, HasReplaced(a, rows), f, TRUE, FALSE)
    BY <2>1 DEF Replacing
  <2>5. /\ HasReplaced(a, rows).repair = req[a].repair /\ HasReplaced(a, rows).torn = req[a].torn
        /\ HasReplaced(a, rows).bad = req[a].bad /\ HasReplaced(a, rows).todo = req[a].todo
    BY <2>3, <2>4, HasReplacedTyped
  <2>6. Clean(file'[f])
    BY <2>3, <2>4 DEF Types
  <2>7. Healed(p, HasReplaced(a, rows), file')
    BY <2>5, <2>6 DEF Heals, Healed
  <2>8. TRUE \in BOOLEAN /\ FALSE \in BOOLEAN
    OBVIOUS
  <2> QED BY <2>3, <2>4, <2>7, <2>8, HealedByChanging
<1>4. CASE Report(a)
  <2>1. phase[a] \in Doctoring /\ UNCHANGED file /\ NextArtifact(a, Counted(a, req[a]))
    BY <1>4, ReportShape DEF Doctoring
  <2>2. req[a] \in Requests /\ req[a].todo # <<>> /\ req[a].op \in Jobs \cup {"doctor"}
    BY <2>1, DoctorFacts
  <2>3. req[a].repair /\ ~req[a].torn => Clean(file[f])
    BY <1>4 DEF Report, Heals, Healed
  <2> QED BY <2>1, <2>2, <2>3, HealedNext
<1> QED
  BY <1>1, <1>2, <1>3, <1>4

\* Heals through the steps of the jobs, requests and crashes.
LEMMA HealsOther ==
    ASSUME Types, ThreadTypes, Heals, NEW a \in Actors,
           LoadStatus(a) \/ SaveStatus(a) \/ Crash(a) \/ Request(a)
    PROVE  Heals'
<1>1. CASE LoadStatus(a)
  <2> DEFINE w == [req[a] EXCEPT !.status = status]
  <2>1. w.repair = req[a].repair /\ w.bad = req[a].bad /\ w.torn = req[a].torn
    <3>1. req[a] \in Requests
      BY DEF Types
    <3> QED BY <3>1 DEF Requests
  <2>2. Goto(a, "save_status", w) /\ UNCHANGED file
    BY <1>1 DEF LoadStatus, disk
  <2> HIDE DEF w
  <2>3. Healed("save_status", w, file)
    BY <2>1 DEF Heals, Healed
  <2> QED BY <2>2, <2>3, HealedByGoing
<1>2. CASE SaveStatus(a)
  <2> DEFINE w == [Idle EXCEPT !.op = req[a].op, !.n = req[a].n]
  <2>1. w.repair = FALSE
    BY DEF Idle
  <2>2. Goto(a, "episode", w) /\ UNCHANGED file
    BY <1>2 DEF SaveStatus, disk
  <2> HIDE DEF w
  <2>3. Healed("episode", w, file)
    BY <2>1 DEF Healed
  <2> QED BY <2>2, <2>3, HealedByGoing
<1>3. CASE Crash(a)
  BY <1>3, CrashShape, IdleIsHealed, HealedByGoing
<1>4. CASE Request(a)
  <2>1. PICK p, w : BeginsAs(a, p, w)
    BY <1>4, BeginShape
  <2>2. Goto(a, p, w) /\ p \in {"append", "load", "read"} /\ w.bad = 0
    BY <2>1 DEF BeginsAs
  <2>3. UNCHANGED file
    BY <1>4, BeginShape DEF disk
  <2>4. Healed(p, w, file)
    BY <2>2 DEF Healed
  <2> QED BY <2>2, <2>3, <2>4, HealedByGoing
<1> QED
  BY <1>1, <1>2, <1>3, <1>4

\* Heals through every step.
LEMMA HealsStep ==
    ASSUME Types, ThreadTypes, Heals, [Next]_vars
    PROVE  Heals'
<1>1. CASE UNCHANGED vars \/ Tick
  BY <1>1 DEF vars, disk, Tick, Heals
<1>2. ASSUME NEW a \in Actors, Step(a) PROVE Heals'
  BY <1>2, HealsAppend, HealsRewrite, HealsDoctor, HealsOther DEF Step
<1>3. ASSUME NEW a \in Actors, Request(a) \/ Crash(a) PROVE Heals'
  BY <1>3, HealsOther
<1> QED
  BY <1>1, <1>2, <1>3 DEF Next

(***************************************************************************)
(* A doctor that repairs reports an invalid line only if one was written   *)
(* while it ran.                                                           *)
(***************************************************************************)
THEOREM DoctorHeals == Spec => []RepairHeals
<1>1. Init => Heals
  BY IdleIsHealed DEF Init, Heals
<1>2. Types /\ ThreadTypes /\ Heals /\ [Next]_vars => Heals'
  BY HealsStep
<1>3. Heals => RepairHeals
  BY DEF Heals, Healed, RepairHeals
<1> QED
  BY <1>1, <1>2, <1>3, DoctorTypesHold, PTL DEF Spec

-----------------------------------------------------------------------------
(* One fact of a key, and tasks in the order they were written.            *)

(***************************************************************************)
(* Contents that only a collision puts out of order: no two valid facts    *)
(* have the same key, and the valid task lines have been written, in the   *)
(* order of the file.                                                      *)
(***************************************************************************)
OneEach(rows) ==
    \A i, j \in DOMAIN rows :
        Good(rows[i]) /\ Good(rows[j]) /\ rows[i].id = rows[j].id => i = j

Known(rows, h) ==
    \A p \in DOMAIN rows : Good(rows[p]) => \E i \in DOMAIN h : h[i] = rows[p]

InOrder(rows, h) ==
    \A p, q \in DOMAIN rows : p < q /\ Good(rows[p]) /\ Good(rows[q]) =>
        \E i, j \in DOMAIN h : i < j /\ h[i] = rows[p] /\ h[j] = rows[q]

Tidy(f, rows, h) ==
    /\ f = "semantic" => OneEach(rows)
    /\ f = "tasks" => Known(rows, h) /\ InOrder(rows, h)

Holding == (Doctoring \cup Rewriting) \ {"read", "load", "report"}

TidyThread(p, w) ==
    p \in Holding /\ Head(w.todo) \in Files \ collided =>
        Tidy(Head(w.todo), w.rows, history[Head(w.todo)])

AllTidy ==
    /\ \A f \in Files \ collided : Tidy(f, file[f], history[f])
    /\ \A a \in Actors : TidyThread(phase[a], req[a])

\* A history and a later one.
Longer(h, h2) ==
    /\ h \in Seq(Rows) /\ h2 \in Seq(Rows) /\ Len(h) <= Len(h2)
    /\ \A i \in DOMAIN h : i \in DOMAIN h2 /\ h2[i] = h[i]

\* What is appended makes a history longer.
LEMMA LongerItself ==
    ASSUME NEW h \in Seq(Rows)
    PROVE  /\ Longer(h, h)
           /\ \A row \in Rows : Longer(h, Append(h, row))
           /\ \A s \in Seq(Rows) : Longer(h, h \o s)
<1>1. Longer(h, h)
  BY DEF Longer
<1>2. ASSUME NEW row \in Rows PROVE Longer(h, Append(h, row))
  BY DEF Longer
<1>3. ASSUME NEW s \in Seq(Rows) PROVE Longer(h, h \o s)
  BY DEF Longer
<1> QED
  BY <1>1, <1>2, <1>3

\* Rows that are tidy stay so when more is written elsewhere.
LEMMA TidyLater ==
    ASSUME NEW f, NEW rows, NEW h, NEW h2, Tidy(f, rows, h), Longer(h, h2)
    PROVE  Tidy(f, rows, h2)
<1>1. ASSUME Known(rows, h) PROVE Known(rows, h2)
  BY <1>1 DEF Known, Longer
<1>2. ASSUME InOrder(rows, h) PROVE InOrder(rows, h2)
  BY <1>2 DEF InOrder, Longer
<1> QED
  BY <1>1, <1>2 DEF Tidy

\* Some of the rows of a tidy file are tidy.
LEMMA TidyWithin ==
    ASSUME NEW f, NEW old \in Seq(Rows), NEW new, NEW h, Tidy(f, old, h), Within(new, old)
    PROVE  Tidy(f, new, h)
<1>0. /\ \A i \in DOMAIN new : i \in Nat
      /\ \A i \in DOMAIN old : i \in Nat
      /\ \A i \in DOMAIN new : \E p \in DOMAIN old : new[i] = old[p]
      /\ \A i, j \in DOMAIN new : i < j =>
            \E p, q \in DOMAIN old : p < q /\ new[i] = old[p] /\ new[j] = old[q]
  BY DEF Within, WithinFrom
<1>1. ASSUME OneEach(old) PROVE OneEach(new)
  <2> SUFFICES ASSUME NEW i \in DOMAIN new, NEW j \in DOMAIN new, Good(new[i]), Good(new[j]),
                      new[i].id = new[j].id, i < j
               PROVE  FALSE
    <3>1. \A i, j \in Nat : i < j \/ j < i \/ i = j
      OBVIOUS
    <3> QED BY <1>0, <3>1 DEF OneEach
  <2>1. PICK p \in DOMAIN old, q \in DOMAIN old : p < q /\ new[i] = old[p] /\ new[j] = old[q]
    BY <1>0
  <2>2. p \in Nat /\ q \in Nat /\ p # q
    BY <1>0, <2>1
  <2> QED BY <1>1, <2>1, <2>2 DEF OneEach
<1>2. ASSUME Known(old, h) PROVE Known(new, h)
  BY <1>0, <1>2 DEF Known
<1>3. ASSUME InOrder(old, h) PROVE InOrder(new, h)
  <2> SUFFICES ASSUME NEW i \in DOMAIN new, NEW j \in DOMAIN new, i < j, Good(new[i]), Good(new[j])
               PROVE  \E p, q \in DOMAIN h : p < q /\ h[p] = new[i] /\ h[q] = new[j]
    BY DEF InOrder
  <2>1. PICK p \in DOMAIN old, q \in DOMAIN old : p < q /\ new[i] = old[p] /\ new[j] = old[q]
    BY <1>0
  <2> QED BY <1>3, <2>1 DEF InOrder
<1> QED
  BY <1>1, <1>2, <1>3 DEF Tidy

\* No rows are tidy.
LEMMA TidyEmpty ==
    ASSUME NEW f, NEW h
    PROVE  Tidy(f, <<>>, h)
BY DEF Tidy, OneEach, Known, InOrder

\* A sequence with a row put behind it, row by row.
LEMMA RowAtEnd ==
    ASSUME NEW front \in Seq(Rows), NEW row \in Rows
    PROVE  LET s == Append(front, row)
           IN  /\ s \in Seq(Rows) /\ Len(s) = Len(front) + 1 /\ Len(front) \in Nat
               /\ \A p \in DOMAIN s : \/ p \in DOMAIN front /\ s[p] = front[p]
                                      \/ p = Len(s) /\ s[p] = row
<1> DEFINE s == Append(front, row)
<1>1. /\ s \in Seq(Rows) /\ Len(s) = Len(front) + 1 /\ Len(front) \in Nat
      /\ DOMAIN s = 1..(Len(front) + 1) /\ DOMAIN front = 1..Len(front)
  OBVIOUS
<1>2. /\ \A p \in 1..Len(front) : s[p] = front[p]
      /\ s[Len(front) + 1] = row
  OBVIOUS
<1>3. ASSUME NEW p \in DOMAIN s
      PROVE  \/ p \in DOMAIN front /\ s[p] = front[p]
             \/ p = Len(s) /\ s[p] = row
  <2> HIDE DEF s
  <2>1. p \in 1..Len(front) \/ p = Len(front) + 1
    BY <1>1
  <2> QED BY <1>1, <1>2, <2>1
<1> QED
  BY <1>1, <1>3

(***************************************************************************)
(* A row appended to a file: where the rows of the file end up.            *)
(***************************************************************************)
LEMMA AppendedRows ==
    ASSUME NEW rows \in Lines, NEW row \in Rows
    PROVE  LET new == Appended(rows, row)
           IN  /\ new \in Seq(Rows)
               /\ \A p \in DOMAIN new : \/ p \in DOMAIN rows /\ new[p] = rows[p]
                                        \/ p = Len(new) /\ new[p] = row
                                        \/ p = Len(new) /\ ~Good(new[p])
<1> DEFINE new == Appended(rows, row)
<1>0. rows \in Seq(Rows) /\ Len(rows) \in Nat /\ new \in Seq(Rows)
  BY AppendedLines DEF Lines
<1>1. CASE rows # <<>> /\ Last(rows).kind = "torn"
  <2> DEFINE bad == [row EXCEPT !.kind = "bad"]
  <2>1. bad \in Rows /\ ~Good(bad)
    BY DEF Rows, Good
  <2>2. new = Append(Front(rows), bad)
    BY <1>1 DEF Appended
  <2>3. Front(rows) \in Seq(Rows) /\ \A p \in DOMAIN Front(rows) : p \in DOMAIN rows /\ Front(rows)[p] = rows[p]
    BY <1>0, <1>1 DEF Front
  <2> HIDE DEF bad, new
  <2>4. \A p \in DOMAIN new : \/ p \in DOMAIN Front(rows) /\ new[p] = Front(rows)[p]
                              \/ p = Len(new) /\ new[p] = bad
    BY <2>1, <2>2, <2>3, RowAtEnd
  <2> QED BY <1>0, <2>1, <2>3, <2>4 DEF new
<1>2. CASE ~(rows # <<>> /\ Last(rows).kind = "torn")
  <2>1. new = Append(rows, row)
    BY <1>2 DEF Appended
  <2> HIDE DEF new
  <2>2. \A p \in DOMAIN new : \/ p \in DOMAIN rows /\ new[p] = rows[p]
                              \/ p = Len(new) /\ new[p] = row
    BY <1>0, <2>1, RowAtEnd
  <2> QED BY <1>0, <2>2 DEF new
<1> QED
  BY <1>1, <1>2

\* A tidy file is tidy after an append.
LEMMA TidyAppended ==
    ASSUME NEW f, f # "semantic", NEW rows \in Lines, NEW row \in Rows, NEW h \in Seq(Rows),
           Tidy(f, rows, h)
    PROVE  Tidy(f, Appended(rows, row), Append(h, row))
<1> DEFINE new == Appended(rows, row)
           later == Append(h, row)
<1>1. /\ new \in Seq(Rows)
      /\ \A p \in DOMAIN new : \/ p \in DOMAIN rows /\ new[p] = rows[p]
                               \/ p = Len(new) /\ new[p] = row
                               \/ p = Len(new) /\ ~Good(new[p])
  BY AppendedRows
<1>2. /\ Len(h) \in Nat /\ Len(h) + 1 \in DOMAIN later /\ later[Len(h) + 1] = row
      /\ \A i \in DOMAIN h : i \in Nat /\ i < Len(h) + 1 /\ i \in DOMAIN later /\ later[i] = h[i]
  OBVIOUS
<1>3. Len(new) \in Nat /\ \A p \in DOMAIN new : p \in Nat /\ p <= Len(new)
  BY <1>1
<1> HIDE DEF new, later
<1>4. ASSUME Known(rows, h) PROVE Known(new, later)
  BY <1>1, <1>2, <1>4 DEF Known
<1>5. ASSUME Known(rows, h), InOrder(rows, h) PROVE InOrder(new, later)
  <2> SUFFICES ASSUME NEW p \in DOMAIN new, NEW q \in DOMAIN new, p < q, Good(new[p]), Good(new[q])
               PROVE  \E i, j \in DOMAIN later : i < j /\ later[i] = new[p] /\ later[j] = new[q]
    BY DEF InOrder
  <2>1. p \in DOMAIN rows /\ new[p] = rows[p]
    <3>1. p # Len(new)
      BY <1>3
    <3> QED BY <1>1, <3>1
  <2>2. CASE q \in DOMAIN rows /\ new[q] = rows[q]
    BY <1>2, <1>5, <2>1, <2>2 DEF InOrder
  <2>3. CASE new[q] = row
    <3>1. PICK i \in DOMAIN h : h[i] = rows[p]
      BY <1>5, <2>1 DEF Known
    <3> QED BY <1>2, <2>1, <2>3, <3>1
  <2> QED BY <1>1, <2>2, <2>3
<1> QED
  BY <1>4, <1>5 DEF Tidy, new, later

(***************************************************************************)
(* What a step has to show of the thread that takes it, and of the file.   *)
(***************************************************************************)
LEMMA TidyByGoing ==
    ASSUME Types, ThreadTypes, AllTidy, NEW a \in Actors, NEW p, NEW w,
           Goto(a, p, w), UNCHANGED <<file, history, collided>>, TidyThread(p, w)
    PROVE  AllTidy'
<1>1. ASSUME NEW b \in Actors PROVE TidyThread(phase[b], req[b])'
  <2>1. CASE b = a
    <3>1. phase'[a] = p /\ req'[a] = w
      BY DEF Goto, Types
    <3> QED BY <2>1, <3>1 DEF TidyThread
  <2>2. CASE b # a
    <3>1. phase'[b] = phase[b] /\ req'[b] = req[b]
      BY <2>2 DEF Goto, Types
    <3>2. TidyThread(phase[b], req[b])
      BY DEF AllTidy
    <3> QED BY <3>1, <3>2 DEF TidyThread
  <2> QED BY <2>1, <2>2
<1> QED
  BY <1>1 DEF AllTidy

\* A step that changes f keeps AllTidy, if it leaves f and its thread tidy.
LEMMA TidyByChanging ==
    ASSUME Types, ThreadTypes, AllTidy, NEW a \in Actors, NEW p, NEW w, NEW f \in Files,
           NEW renamed \in BOOLEAN, NEW torn \in BOOLEAN, NEW rows,
           GotoChanging(a, p, w, f, renamed, torn),
           file' = [file EXCEPT ![f] = rows],
           collided \subseteq collided',
           \A g \in Files : Longer(history[g], history'[g]),
           f \notin collided' => Tidy(f, rows, history'[f]),
           p \in Holding /\ Head(w.todo) \in Files \ collided' =>
               Tidy(Head(w.todo), w.rows, history'[Head(w.todo)])
    PROVE  AllTidy'
<1>1. ASSUME NEW b \in Actors PROVE TidyThread(phase[b], req[b])'
  <2>1. CASE b = a
    <3>1. phase'[a] = p /\ req'[a] = w
      BY OthersKeep
    <3> QED BY <2>1, <3>1 DEF TidyThread
  <2>2. CASE b # a
    <3>1. phase'[b] = phase[b] /\ req'[b].todo = req[b].todo /\ req'[b].rows = req[b].rows
      BY <2>2, OthersKeep
    <3>2. TidyThread(phase[b], req[b])
      BY DEF AllTidy
    <3>3. ASSUME phase[b] \in Holding, Head(req[b].todo) \in Files \ collided'
          PROVE  Tidy(Head(req[b].todo), req[b].rows, history'[Head(req[b].todo)])
      <4>1. Tidy(Head(req[b].todo), req[b].rows, history[Head(req[b].todo)])
        BY <3>2, <3>3 DEF TidyThread
      <4> QED BY <3>3, <4>1, TidyLater
    <3> QED BY <3>1, <3>3 DEF TidyThread
  <2> QED BY <2>1, <2>2
<1>2. ASSUME NEW g \in Files \ collided' PROVE Tidy(g, file'[g], history'[g])
  <2>1. CASE g = f
    BY <1>2, <2>1 DEF Types
  <2>2. CASE g # f
    <3>1. file'[g] = file[g] /\ Tidy(g, file[g], history[g])
      BY <1>2, <2>2 DEF Types, AllTidy
    <3> QED BY <1>2, <3>1, TidyLater
  <2> QED BY <2>1, <2>2
<1> QED
  BY <1>1, <1>2 DEF AllTidy

\* A thread that holds no rows has nothing to be tidy.
LEMMA IdleIsTidy ==
    /\ \A p, w : p \notin Holding => TidyThread(p, w)
    /\ {"idle", "append", "load", "read", "report", "load_status", "save_status", "episode"}
         \cap Holding = {}
BY DEF TidyThread, Holding, Doctoring, Rewriting

\* A history that is not added to, or added to in one place, gets longer.
LEMMA LongerHistories ==
    ASSUME Types, NEW f \in Files, NEW h, Longer(history[f], h),
           history' = [history EXCEPT ![f] = h]
    PROVE  /\ \A g \in Files : Longer(history[g], history'[g])
           /\ history'[f] = h
<1>1. \A g \in Files : history[g] \in Seq(Rows) /\ history'[g] = IF g = f THEN h ELSE history[g]
  BY DEF Types
<1> QED
  BY <1>1, LongerItself

\* What does not change is not shorter.
LEMMA SameHistories ==
    ASSUME Types, UNCHANGED history
    PROVE  \A g \in Files : Longer(history[g], history'[g])
BY LongerItself DEF Types

\* AllTidy through one append.
LEMMA TidyAppend ==
    ASSUME Types, ThreadTypes, AllTidy, NEW a \in Actors, NEW f \in Files, f # "semantic",
           NEW row \in Rows, Append1(f, row), UNCHANGED collided,
           NEW p, p \notin Holding, NEW w, NEW torn \in BOOLEAN,
           GotoChanging(a, p, w, f, FALSE, torn)
    PROVE  AllTidy'
<1> DEFINE rows == Appended(file[f], row)
           h == Append(history[f], row)
<1>1. file' = [file EXCEPT ![f] = rows] /\ history' = [history EXCEPT ![f] = h]
  BY DEF Append1, Types
<1>2. history[f] \in Seq(Rows) /\ file[f] \in Lines
  BY DEF Types
<1>3. Longer(history[f], h)
  BY <1>2, LongerItself
<1>4. f \notin collided => Tidy(f, rows, h)
  BY <1>2, TidyAppended DEF AllTidy
<1> HIDE DEF rows, h
<1>5. (\A g \in Files : Longer(history[g], history'[g])) /\ history'[f] = h
  BY <1>1, <1>3, LongerHistories
<1>6. FALSE \in BOOLEAN
  OBVIOUS
<1> QED
  BY <1>1, <1>4, <1>5, <1>6, TidyByChanging

\* AllTidy through the actions that append.
LEMMA TidyAppends ==
    ASSUME Types, ThreadTypes, AllTidy, NEW a \in Actors,
           AppendEpisode(a) \/ AppendTask(a) \/ AppendTorn(a)
    PROVE  AllTidy'
<1>1. CASE AppendEpisode(a)
  <2>1. /\ Append1("episodic", Fresh(a)) /\ UNCHANGED collided
        /\ GotoChanging(a, "idle", Idle, "episodic", FALSE, FALSE)
    BY <1>1 DEF AppendEpisode
  <2>2. /\ "episodic" \in Files /\ "episodic" # "semantic" /\ Fresh(a) \in Rows
        /\ FALSE \in BOOLEAN /\ "idle" \notin Holding
    BY DoctorConstants, FreshRow, IdleIsTidy
  <2> QED BY <2>1, <2>2, TidyAppend
<1>2. CASE AppendTask(a)
  <2>1. /\ Append1("tasks", Fresh(a)) /\ UNCHANGED collided
        /\ GotoChanging(a, "load", req[a], "tasks", FALSE, FALSE)
    BY <1>2 DEF AppendTask
  <2>2. /\ "tasks" \in Files /\ "tasks" # "semantic" /\ Fresh(a) \in Rows
        /\ FALSE \in BOOLEAN /\ "load" \notin Holding
    BY DoctorConstants, FreshRow, IdleIsTidy
  <2> QED BY <2>1, <2>2, TidyAppend
<1>3. CASE AppendTorn(a)
  <2> DEFINE f == Head(req[a].todo)
             row == [Fresh(a) EXCEPT !.kind = "torn"]
  <2>1. /\ Append1(f, row) /\ UNCHANGED collided
        /\ GotoChanging(a, "idle", Idle, f, FALSE, TRUE)
    BY <1>3 DEF AppendTorn
  <2>2. f \in Files /\ f # "semantic"
    BY <1>3, ThreadFacts DEF AppendTorn
  <2>3. row \in Rows /\ TRUE \in BOOLEAN /\ "idle" \notin Holding
    BY FreshRow, IdleIsTidy
  <2> HIDE DEF f, row
  <2> QED BY <2>1, <2>2, <2>3, TidyAppend
<1> QED
  BY <1>1, <1>2, <1>3

\* What a thread makes of the valid rows of a tidy file is tidy.
LEMMA TidyValid ==
    ASSUME Types, AllTidy, NEW f \in Files \ collided
    PROVE  Tidy(f, ValidRows(file[f]), history[f])
<1>1. file[f] \in Seq(Rows) /\ Tidy(f, file[f], history[f])
  BY DEF Types, Lines, AllTidy
<1> QED
  BY <1>1, ValidRowsClean, TidyWithin

\* Valid facts, one of each key.
LEMMA OneEachIsDistinct ==
    ASSUME NEW rows \in Seq(Rows), Clean(rows)
    PROVE  OneEach(rows) <=> Distinct(rows)
<1>1. \A i \in DOMAIN rows : Good(rows[i])
  BY DEF Clean
<1> QED
  BY <1>1, Zenon DEF OneEach, Distinct

\* AllTidy through a rewrite in place; two that overlap are a collision.
LEMMA TidyRewrites ==
    ASSUME Types, ThreadTypes, AllTidy, NEW a \in Actors, Load(a) \/ Truncate(a) \/ Write(a)
    PROVE  AllTidy'
<1> DEFINE f == Head(req[a].todo)
<1>1. CASE Load(a)
  <2>1. UNCHANGED <<file, history, collided>>
    BY <1>1 DEF Load, disk, ghosts
  <2>2. f = IF req[a].op = "fact" THEN "semantic" ELSE "tasks"
    BY <1>1, ThreadFacts DEF Load, Rewriting
  <2>3. ASSUME NEW rows \in Seq(Rows), NEW stale \in BOOLEAN,
               Goto(a, "truncate", [req[a] EXCEPT !.stale = stale, !.rows = rows]),
               f \in Files \ collided => Tidy(f, rows, history[f])
        PROVE  AllTidy'
    <3> DEFINE w == [req[a] EXCEPT !.stale = stale, !.rows = rows]
    <3>1. w.todo = req[a].todo /\ w.rows = rows
      <4>1. req[a] \in Requests
        BY DEF Types
      <4> QED BY <4>1 DEF Requests
    <3>2. Goto(a, "truncate", w)
      BY <2>3
    <3> HIDE DEF w
    <3>3. TidyThread("truncate", w)
      BY <2>3, <3>1 DEF TidyThread
    <3> QED BY <2>1, <3>2, <3>3, TidyByGoing
  <2>4. CASE Goto(a, "idle", Idle)
    BY <2>1, <2>4, IdleIsTidy, TidyByGoing
  <2>5. ASSUME NEW rows \in Seq(Rows), req[a].op = "fact",
               rows = Upserted(ValidRows(file["semantic"]), req[a].key, req[a].n),
               f \in Files \ collided
        PROVE  Tidy(f, rows, history[f])
    <3> DEFINE valid == ValidRows(file["semantic"])
    <3>1. f = "semantic" /\ file["semantic"] \in Seq(Rows)
      BY <2>2, <2>5 DEF Types, Lines
    <3>2. valid \in Seq(Rows) /\ Clean(valid)
      BY <3>1, ValidRowsClean
    <3>3. OneEach(valid)
      BY <2>5, <3>1, TidyValid DEF Tidy
    <3>4. Distinct(valid)
      BY <3>2, <3>3, OneEachIsDistinct
    <3>5. req[a].key \in Nat /\ req[a].n \in Nat
      <4>1. req[a] \in Requests
        BY DEF Types
      <4> QED BY <4>1 DEF Requests
    <3> HIDE DEF valid
    <3>6. rows = Upserted(valid, req[a].key, req[a].n)
      BY <2>5 DEF valid
    <3>7. Distinct(rows)
      BY <3>2, <3>4, <3>5, <3>6, UpsertedRows
    <3> QED BY <3>1, <3>7 DEF Tidy, OneEach, Distinct
  <2>6. ASSUME NEW rows \in Seq(Rows), req[a].op = "task",
               rows = LastRows(ValidRows(file["tasks"]), Retention["tasks"]),
               f \in Files \ collided
        PROVE  Tidy(f, rows, history[f])
    <3> DEFINE valid == ValidRows(file["tasks"])
    <3>1. f = "tasks" /\ file["tasks"] \in Seq(Rows) /\ Retention["tasks"] \in Nat
      BY <2>2, <2>6, DoctorConstants DEF Types, Lines
    <3>2. valid \in Seq(Rows) /\ Tidy(f, valid, history[f])
      BY <2>6, <3>1, ValidRowsClean, TidyValid
    <3>3. Within(LastRows(valid, Retention["tasks"]), valid)
      BY <3>1, <3>2, LastOfRows
    <3> QED BY <2>6, <3>2, <3>3, TidyWithin
  <2> QED BY <1>1, <2>3, <2>4, <2>5, <2>6, LoadShape
<1>2. CASE Truncate(a)
  <2> DEFINE fact == IF req[a].op = "fact" THEN <<Row(req[a].key, "good", req[a].n)>> ELSE <<>>
             h == history[f] \o fact
  <2>1. /\ f \in Files /\ req[a] \in Requests /\ phase[a] = "truncate"
    BY <1>2, ThreadFacts DEF Truncate, Rewriting
  <2>2. fact \in Seq(Rows)
    <3>1. Row(req[a].key, "good", req[a].n) \in Rows
      BY <2>1 DEF Requests, Row, Rows
    <3> QED BY <3>1
  <2>3. /\ file' = [file EXCEPT ![f] = <<>>] /\ history' = [history EXCEPT ![f] = h]
        /\ GotoChanging(a, "write", req[a], f, FALSE, FALSE) /\ UNCHANGED collided
    BY <1>2, <2>1 DEF Truncate, Types
  <2>4. Longer(history[f], h)
    BY <2>1, <2>2, LongerItself DEF Types
  <2> HIDE DEF f, fact, h
  <2>5. (\A g \in Files : Longer(history[g], history'[g])) /\ history'[f] = h
    BY <2>1, <2>3, <2>4, LongerHistories
  <2>6. ASSUME f \notin collided PROVE Tidy(f, req[a].rows, history'[f])
    <3>1. TidyThread("truncate", req[a])
      BY <2>1 DEF AllTidy
    <3>2. Tidy(f, req[a].rows, history[f])
      BY <2>1, <2>6, <3>1 DEF TidyThread, Holding, Doctoring, Rewriting, f
    <3> QED BY <2>1, <2>5, <3>2, TidyLater
  <2>7. Tidy(f, <<>>, history'[f]) /\ FALSE \in BOOLEAN
    BY TidyEmpty
  <2>8. Head(req[a].todo) = f
    BY DEF f
  <2> QED BY <2>1, <2>3, <2>5, <2>6, <2>7, <2>8, TidyByChanging
<1>3. CASE Write(a)
  <2> DEFINE empty == file[f] = <<>>
  <2>1. PICK rows : /\ rows \in Lines /\ f \in Files
                    /\ req[a].detached => rows = file[f]
                    /\ ~req[a].detached => rows \in Overwritten(file[f], req[a].rows)
                    /\ file' = [file EXCEPT ![f] = rows]
                    /\ GotoChanging(a, "idle", Idle, f, FALSE, InvalidCount(rows) > 0)
                    /\ file[f] \in Lines /\ req[a].rows \in Seq(Rows) /\ Clean(req[a].rows)
    BY <1>3, WriteShape
  <2> DEFINE torn == InvalidCount(rows) > 0
  <2>2. GotoChanging(a, "idle", Idle, f, FALSE, torn)
    BY <2>1, Zenon
  <2>3. torn \in BOOLEAN /\ FALSE \in BOOLEAN /\ "idle" \notin Holding
    BY IdleIsTidy
  <2>4. /\ collided' = IF file[f] = <<>> THEN collided ELSE collided \cup {f}
        /\ UNCHANGED history /\ phase[a] = "write"
    BY <1>3 DEF Write
  <2>5. \A g \in Files : Longer(history[g], history'[g])
    BY <2>4, SameHistories
  <2>6. ASSUME f \notin collided' PROVE Tidy(f, rows, history'[f])
    <3>1. file[f] = <<>> /\ f \notin collided
      BY <2>4, <2>6
    <3>2. CASE req[a].detached
      BY <2>1, <3>1, <3>2, TidyEmpty
    <3>3. CASE ~req[a].detached
      <4>1. rows = req[a].rows
        BY <2>1, <3>1, <3>3, OverwrittenLines
      <4>2. TidyThread("write", req[a])
        BY <2>4 DEF AllTidy
      <4> QED BY <2>1, <2>4, <3>1, <4>1, <4>2 DEF TidyThread, Holding, Doctoring, Rewriting
    <3> QED BY <3>2, <3>3
  <2>7. collided \subseteq collided'
    BY <2>4
  <2> HIDE DEF f, torn
  <2> QED BY <2>1, <2>2, <2>3, <2>5, <2>6, <2>7, TidyByChanging
<1> QED
  BY <1>1, <1>2, <1>3

\* AllTidy when the doctor goes on to its next artifact.
LEMMA TidyNext ==
    ASSUME Types, ThreadTypes, AllTidy, NEW a \in Actors, NEW r \in Requests, r.todo # <<>>,
           r.op \in Jobs \cup {"doctor"}, NextArtifact(a, r), UNCHANGED <<file, history, collided>>
    PROVE  AllTidy'
<1>1. PICK p, w : p \in {"read", "load_status", "idle"} /\ Goto(a, p, w)
  BY NextArtifactShape
<1>2. TidyThread(p, w)
  BY <1>1, IdleIsTidy
<1> QED
  BY <1>1, <1>2, TidyByGoing

\* AllTidy through the steps of the doctor.
LEMMA TidyDoctors ==
    ASSUME Types, ThreadTypes, AllTidy, NEW a \in Actors,
           Read(a) \/ Backup(a) \/ RepairWrite(a) \/ CompactWrite(a) \/ Report(a)
    PROVE  AllTidy'
<1> DEFINE f == Head(req[a].todo)
<1>1. CASE Read(a)
  <2>1. phase[a] \in Doctoring /\ UNCHANGED <<file, history, collided>>
    BY <1>1 DEF Read, Doctoring, disk, ghosts
  <2>2. /\ HasRead(a) \in Requests /\ HasRead(a).todo = req[a].todo /\ HasRead(a).op = req[a].op
        /\ HasRead(a).rows = ValidRows(file[f])
    BY <2>1, HasReadTyped
  <2>3. \A p : TidyThread(p, HasRead(a))
    BY <2>2, TidyValid DEF TidyThread
  <2>4. ASSUME NEW p, Goto(a, p, HasRead(a)) PROVE AllTidy'
    BY <2>1, <2>3, <2>4, TidyByGoing
  <2>5. CASE NextArtifact(a, Counted(a, HasRead(a)))
    <3>1. /\ Counted(a, HasRead(a)) \in Requests /\ Counted(a, HasRead(a)).todo # <<>>
          /\ Counted(a, HasRead(a)).op \in Jobs \cup {"doctor"}
      BY <2>1, <2>2, DoctorFacts, CountedTyped
    <3> QED BY <2>1, <2>5, <3>1, TidyNext
  <2> QED BY <1>1, <2>4, <2>5, ReadShape
<1>2. CASE Backup(a)
  <2>1. /\ UNCHANGED <<file, history, collided>>
        /\ phase[a] \in {"repair_backup", "compact_backup"}
        /\ \E p : Goto(a, p, req[a])
    BY <1>2 DEF Backup
  <2>2. TidyThread(phase[a], req[a]) /\ phase[a] \in Holding
    BY <2>1 DEF AllTidy, Holding, Doctoring, Rewriting
  <2>3. \A p : TidyThread(p, req[a])
    BY <2>2 DEF TidyThread
  <2> QED BY <2>1, <2>3, TidyByGoing
<1>3. CASE RepairWrite(a) \/ CompactWrite(a)
  <2>1. PICK rows, p : Replacing(a, rows, p) /\ p \in {"compact_backup", "report"}
    BY <1>3, ReplaceShape
  <2>2. phase[a] \in Doctoring /\ phase[a] \in Holding
    BY <1>3, ReplaceShape DEF Doctoring, Holding
  <2>3. f \in Files /\ req[a] \in Requests /\ req[a].rows \in Seq(Rows)
    BY <2>2, DoctorFacts
  <2>4. /\ rows \in Seq(Rows) /\ Within(rows, req[a].rows)
        /\ file' = [file EXCEPT ![f] = rows]
        /\ GotoChanging(a, p, HasReplaced(a, rows), f, TRUE, FALSE)
        /\ UNCHANGED <<history, collided>>
    BY <2>1 DEF Replacing
  <2>5. HasReplaced(a, rows).todo = req[a].todo /\ HasReplaced(a, rows).rows = rows
    BY <2>3, <2>4, HasReplacedTyped
  <2>6. f \notin collided => Tidy(f, rows, history[f])
    <3>1. TidyThread(phase[a], req[a])
      BY DEF AllTidy
    <3> QED BY <2>2, <2>3, <2>4, <3>1, TidyWithin DEF TidyThread
  <2>7. \A g \in Files : Longer(history[g], history'[g])
    BY <2>4, SameHistories
  <2>8. TRUE \in BOOLEAN /\ FALSE \in BOOLEAN
    OBVIOUS
  <2>9. Head(HasReplaced(a, rows).todo) = f
    BY <2>5
  <2> HIDE DEF f
  <2> QED BY <2>3, <2>4, <2>5, <2>6, <2>7, <2>8, <2>9, TidyByChanging
<1>4. CASE Report(a)
  <2>1. /\ phase[a] \in Doctoring /\ UNCHANGED <<file, history, collided>>
        /\ NextArtifact(a, Counted(a, req[a]))
    BY <1>4, ReportShape DEF Doctoring
  <2>2. /\ Counted(a, req[a]) \in Requests /\ Counted(a, req[a]).todo # <<>>
        /\ Counted(a, req[a]).op \in Jobs \cup {"doctor"}
    BY <2>1, DoctorFacts, CountedTyped
  <2> QED BY <2>1, <2>2, TidyNext
<1> QED
  BY <1>1, <1>2, <1>3, <1>4

\* AllTidy through the steps of the jobs, requests and crashes.
LEMMA TidyOthers ==
    ASSUME Types, ThreadTypes, AllTidy, NEW a \in Actors,
           LoadStatus(a) \/ SaveStatus(a) \/ Crash(a) \/ Request(a)
    PROVE  AllTidy'
<1>1. \E p, w : p \notin Holding /\ Goto(a, p, w)
  <2>1. CASE LoadStatus(a)
    BY <2>1, IdleIsTidy DEF LoadStatus
  <2>2. CASE SaveStatus(a)
    BY <2>2, IdleIsTidy DEF SaveStatus
  <2>3. CASE Crash(a)
    BY <2>3, IdleIsTidy DEF Crash
  <2>4. CASE Request(a)
    BY <2>4, BeginShape, IdleIsTidy DEF BeginsAs
  <2> QED BY <2>1, <2>2, <2>3, <2>4
<1>2. UNCHANGED <<file, history, collided>>
  BY BeginShape, CrashShape DEF LoadStatus, SaveStatus, disk, ghosts
<1> QED
  BY <1>1, <1>2, IdleIsTidy, TidyByGoing

\* AllTidy through every step.
LEMMA TidyStep ==
    ASSUME Types, ThreadTypes, AllTidy, [Next]_vars
    PROVE  AllTidy'
<1>1. CASE UNCHANGED vars
  BY <1>1 DEF vars, disk, ghosts, AllTidy, TidyThread
<1>2. CASE Tick
  BY <1>2 DEF Tick, disk, ghosts, AllTidy, TidyThread
<1>3. ASSUME NEW a \in Actors, Step(a) PROVE AllTidy'
  BY <1>3, TidyAppends, TidyRewrites, TidyDoctors, TidyOthers DEF Step
<1>4. ASSUME NEW a \in Actors, Request(a) \/ Crash(a) PROVE AllTidy'
  BY <1>4, TidyOthers
<1> QED
  BY <1>1, <1>2, <1>3, <1>4 DEF Next

\* AllTidy to begin with (DoctorStarts).
LEMMA TidyInit == Init => AllTidy
<1> SUFFICES ASSUME Init PROVE AllTidy
  OBVIOUS
<1>1. /\ file \in [Files -> Lines] /\ history = file
      /\ \A i, j \in DOMAIN file["semantic"] :
            Good(file["semantic"][i]) /\ Good(file["semantic"][j])
              /\ file["semantic"][i].id = file["semantic"][j].id => i = j
  BY DoctorStarts DEF Init
<1>2. OneEach(file["semantic"])
  BY <1>1 DEF OneEach
<1>3. Known(file["tasks"], history["tasks"]) /\ InOrder(file["tasks"], history["tasks"])
  BY <1>1 DEF Known, InOrder
<1>4. \A f \in Files : Tidy(f, file[f], history[f])
  BY <1>2, <1>3 DEF Tidy
<1>5. \A a \in Actors : TidyThread(phase[a], req[a])
  BY IdleIsTidy DEF Init
<1> QED
  BY <1>4, <1>5 DEF AllTidy

(***************************************************************************)
(* What is in the files and in the hands of the threads that will rewrite  *)
(* them: one valid fact of each key, and only task lines that were written, *)
(* in that order, unless a file was written while it was rewritten in place. *)
(***************************************************************************)
THEOREM DoctorTidy == Spec => []AllTidy
<1>1. Types /\ ThreadTypes /\ AllTidy /\ [Next]_vars => AllTidy'
  BY TidyStep
<1> QED
  BY <1>1, TidyInit, DoctorTypesHold, PTL DEF Spec

(***************************************************************************)
(* Unless two rewrites wrote into the same truncated file, each key has    *)
(* one fact: every thread holds rows with one fact of each key, and what   *)
(* it makes of them has one too.                                           *)
(***************************************************************************)
THEOREM DoctorOneFact == Spec => []OneFactPerKey
<1>1. Types /\ AllTidy => OneFactPerKey
  <2> SUFFICES ASSUME Types, AllTidy, "semantic" \notin collided
               PROVE  Distinct(ValidRows(file["semantic"]))
    BY DEF OneFactPerKey, Distinct
  <2>1. "semantic" \in Files /\ file["semantic"] \in Seq(Rows)
    BY DoctorConstants DEF Types, Lines
  <2>2. OneEach(ValidRows(file["semantic"]))
    BY <2>1, TidyValid DEF Tidy
  <2> QED BY <2>1, <2>2, ValidRowsClean, OneEachIsDistinct
<1> QED
  BY <1>1, DoctorTypesHold, DoctorTidy, PTL

-----------------------------------------------------------------------------
(* Task lines are told apart by the requests that write them.              *)

Tasks == history["tasks"]

Numbered ==
    /\ \A a \in Actors : phase[a] = "append" =>
          /\ req[a].n \in 1..requests
          /\ \A b \in Actors : phase[b] = "append" /\ req[b].n = req[a].n => a = b
          /\ \A i \in DOMAIN Tasks : Tasks[i].id # StartIds + req[a].n
    /\ \A i \in DOMAIN Tasks : Tasks[i].id <= StartIds + requests
    /\ \A i, j \in DOMAIN Tasks : Tasks[i] = Tasks[j] => i = j

\* No thread but those that were about to append is about to.
NoneBegins ==
    \A b \in Actors : phase'[b] = "append" => phase[b] = "append" /\ req'[b].n = req[b].n

\* A thread that goes on to something other than an append.
LEMMA GoesOn ==
    ASSUME Types, NEW a \in Actors, NEW p, NEW w, p # "append",
           \/ Goto(a, p, w)
           \/ \E f, renamed, torn :
                 /\ renamed \in BOOLEAN /\ torn \in BOOLEAN
                 /\ GotoChanging(a, p, w, f, renamed, torn)
    PROVE  NoneBegins /\ phase'[a] # "append"
<1>1. CASE Goto(a, p, w)
  BY <1>1 DEF Goto, Types, NoneBegins
<1>2. ASSUME NEW f, NEW renamed \in BOOLEAN, NEW torn \in BOOLEAN,
             GotoChanging(a, p, w, f, renamed, torn)
      PROVE  NoneBegins /\ phase'[a] # "append"
  <2>1. /\ phase'[a] = p
        /\ \A b \in Actors : b # a => phase'[b] = phase[b] /\ req'[b].n = req[b].n
    BY <1>2, OthersKeep
  <2> QED BY <2>1 DEF NoneBegins
<1> QED
  BY <1>1, <1>2

\* Only a request begins an append.
LEMMA NoneBeginsByAStep ==
    ASSUME Types, ThreadTypes, NEW a \in Actors, Step(a) \/ Crash(a)
    PROVE  NoneBegins /\ phase'[a] # "append"
<1>0. FALSE \in BOOLEAN /\ TRUE \in BOOLEAN
  OBVIOUS
<1>1. CASE AppendEpisode(a) \/ AppendTask(a) \/ AppendTorn(a)
  BY <1>0, <1>1, GoesOn DEF AppendEpisode, AppendTask, AppendTorn
<1>2. CASE Load(a)
  BY <1>2, GoesOn, LoadShape
<1>3. CASE Truncate(a)
  BY <1>0, <1>3, GoesOn DEF Truncate
<1>4. CASE Write(a)
  <2>1. PICK rows : GotoChanging(a, "idle", Idle, Head(req[a].todo), FALSE, InvalidCount(rows) > 0)
    BY <1>4, WriteShape
  <2>2. (InvalidCount(rows) > 0) \in BOOLEAN
    OBVIOUS
  <2> QED BY <1>0, <2>1, <2>2, GoesOn
<1>5. CASE Read(a)
  <2>1. phase[a] \in Doctoring
    BY <1>5 DEF Read, Doctoring
  <2>2. /\ Counted(a, HasRead(a)) \in Requests /\ Counted(a, HasRead(a)).todo # <<>>
        /\ Counted(a, HasRead(a)).op \in Jobs \cup {"doctor"}
    BY <2>1, HasReadTyped, DoctorFacts, CountedTyped
  <2>3. CASE NextArtifact(a, Counted(a, HasRead(a)))
    <3>1. PICK p, w : p \in {"read", "load_status", "idle"} /\ Goto(a, p, w)
      BY <2>2, <2>3, NextArtifactShape
    <3> QED BY <3>1, GoesOn
  <2>4. CASE \E p \in {"repair_backup", "compact_backup"} : Goto(a, p, HasRead(a))
    BY <2>4, GoesOn
  <2> QED BY <1>5, <2>3, <2>4, ReadShape
<1>6. CASE Backup(a)
  BY <1>6, GoesOn DEF Backup
<1>7. CASE RepairWrite(a) \/ CompactWrite(a)
  <2>1. PICK rows, p : Replacing(a, rows, p) /\ p \in {"compact_backup", "report"}
    BY <1>7, ReplaceShape
  <2> QED BY <1>0, <2>1, GoesOn DEF Replacing
<1>8. CASE Report(a)
  <2>1. phase[a] \in Doctoring
    BY <1>8 DEF Report, Doctoring
  <2>2. /\ Counted(a, req[a]) \in Requests /\ Counted(a, req[a]).todo # <<>>
        /\ Counted(a, req[a]).op \in Jobs \cup {"doctor"}
    BY <2>1, DoctorFacts, CountedTyped
  <2>3. PICK p, w : p \in {"read", "load_status", "idle"} /\ Goto(a, p, w)
    BY <1>8, <2>2, ReportShape, NextArtifactShape
  <2> QED BY <2>3, GoesOn
<1>9. CASE LoadStatus(a) \/ SaveStatus(a) \/ Crash(a)
  BY <1>9, GoesOn DEF LoadStatus, SaveStatus, Crash
<1> QED
  BY <1>1, <1>2, <1>3, <1>4, <1>5, <1>6, <1>7, <1>8, <1>9 DEF Step

\* The task lines that were written.
LEMMA TasksTyped ==
    ASSUME Types
    PROVE  /\ Tasks \in Seq(Rows) /\ "tasks" \in Files
           /\ \A i \in DOMAIN Tasks : Tasks[i] \in Rows /\ Tasks[i].id \in Nat
           /\ StartIds \in Nat /\ requests \in Nat
<1>1. Tasks \in Seq(Rows) /\ "tasks" \in Files
  BY DoctorConstants DEF Types, Tasks
<1>2. \A i \in DOMAIN Tasks : Tasks[i] \in Rows
  BY <1>1
<1>3. \A row \in Rows : row.id \in Nat
  BY DEF Rows
<1> QED
  BY <1>1, <1>2, <1>3, DoctorConstants DEF Types

\* Numbered through a step that writes no task line and begins nothing.
LEMMA NumberedKeeps ==
    ASSUME Types, Numbered, NoneBegins, Tasks' = Tasks, requests' = requests
    PROVE  Numbered'
BY DEF Numbered, NoneBegins

\* Numbered through the append of a task line, whose number is used up.
LEMMA NumberedAppends ==
    ASSUME Types, Numbered, NoneBegins, requests' = requests,
           NEW a \in Actors, phase[a] = "append", phase'[a] # "append",
           NEW row \in Rows, row.id = StartIds + req[a].n, Tasks' = Append(Tasks, row)
    PROVE  Numbered'
<1>1. /\ Tasks \in Seq(Rows) /\ StartIds \in Nat /\ requests \in Nat
      /\ \A i \in DOMAIN Tasks : Tasks[i].id \in Nat
  BY TasksTyped
<1>2. /\ req[a].n \in 1..requests
      /\ \A b \in Actors : phase[b] = "append" /\ req[b].n = req[a].n => a = b
      /\ \A i \in DOMAIN Tasks : Tasks[i].id # StartIds + req[a].n
  BY DEF Numbered
<1> DEFINE later == Append(Tasks, row)
<1>3. /\ later \in Seq(Rows) /\ Len(later) = Len(Tasks) + 1 /\ Len(Tasks) \in Nat
      /\ \A i \in DOMAIN later : \/ i \in DOMAIN Tasks /\ later[i] = Tasks[i]
                                 \/ i = Len(later) /\ later[i] = row
  BY <1>1, RowAtEnd
<1>4. Tasks' = later
  OBVIOUS
<1> HIDE DEF later
<1>5. \A i \in DOMAIN later : later[i].id <= StartIds + requests
  <2>1. row.id <= StartIds + requests
    BY <1>1, <1>2
  <2> QED BY <1>3, <2>1 DEF Numbered
<1>6. \A i, j \in DOMAIN later : later[i] = later[j] => i = j
  <2>1. \A i \in DOMAIN Tasks : Tasks[i] # row
    BY <1>2
  <2> QED BY <1>3, <2>1 DEF Numbered
<1>7. ASSUME NEW b \in Actors, phase'[b] = "append"
      PROVE  /\ req'[b].n \in 1..requests
             /\ \A c \in Actors : phase'[c] = "append" /\ req'[c].n = req'[b].n => b = c
             /\ \A i \in DOMAIN later : later[i].id # StartIds + req'[b].n
  <2>1. phase[b] = "append" /\ req'[b].n = req[b].n /\ b # a
    BY <1>7 DEF NoneBegins
  <2>2. /\ req[b].n \in 1..requests
        /\ \A c \in Actors : phase[c] = "append" /\ req[c].n = req[b].n => b = c
        /\ \A i \in DOMAIN Tasks : Tasks[i].id # StartIds + req[b].n
    BY <2>1 DEF Numbered
  <2>3. req[b].n # req[a].n
    BY <2>1, <2>2
  <2>4. row.id # StartIds + req[b].n
    BY <1>1, <1>2, <2>2, <2>3
  <2>5. \A i \in DOMAIN later : later[i].id # StartIds + req[b].n
    BY <1>3, <2>2, <2>4
  <2> QED BY <2>1, <2>2, <2>5 DEF NoneBegins
<1> QED
  BY <1>4, <1>5, <1>6, <1>7 DEF Numbered

\* Numbered through a request, whose number is new.
LEMMA NumberedBegins ==
    ASSUME Types, Numbered, NEW a \in Actors, Request(a)
    PROVE  Numbered'
<1>1. PICK p, w : BeginsAs(a, p, w)
  BY BeginShape
<1>2. /\ requests' = requests + 1 /\ phase[a] = "idle" /\ Tasks' = Tasks
  BY BeginShape DEF ghosts, Tasks
<1>3. /\ phase'[a] = p /\ req'[a] = w /\ w.n = requests + 1
      /\ \A b \in Actors : b # a => phase'[b] = phase[b] /\ req'[b] = req[b]
  BY <1>1 DEF BeginsAs, Goto, Types
<1>4. /\ StartIds \in Nat /\ requests \in Nat
      /\ \A i \in DOMAIN Tasks : Tasks[i].id \in Nat /\ Tasks[i].id <= StartIds + requests
  BY TasksTyped DEF Numbered
<1>5. \A i \in DOMAIN Tasks : Tasks[i].id <= StartIds + (requests + 1) /\ Tasks[i].id # StartIds + (requests + 1)
  BY <1>4
<1>6. \A b \in Actors : b # a /\ phase'[b] = "append" =>
         /\ req[b].n \in 1..requests /\ phase[b] = "append"
         /\ \A c \in Actors : phase[c] = "append" /\ req[c].n = req[b].n => b = c
         /\ \A i \in DOMAIN Tasks : Tasks[i].id # StartIds + req[b].n
  BY <1>3 DEF Numbered
<1>7. ASSUME NEW b \in Actors, phase'[b] = "append"
      PROVE  /\ req'[b].n \in 1..(requests + 1)
             /\ \A c \in Actors : phase'[c] = "append" /\ req'[c].n = req'[b].n => b = c
             /\ \A i \in DOMAIN Tasks : Tasks[i].id # StartIds + req'[b].n
  <2>1. CASE b = a
    <3>1. req'[b].n = requests + 1
      BY <1>3, <2>1
    <3>2. \A c \in Actors : c # a /\ phase'[c] = "append" => req'[c].n # requests + 1
      BY <1>3, <1>4, <1>6
    <3> QED BY <1>4, <1>5, <2>1, <3>1, <3>2
  <2>2. CASE b # a
    <3>1. req'[b].n = req[b].n /\ req[b].n \in 1..requests /\ req[b].n \in 1..(requests + 1)
      BY <1>3, <1>4, <1>6, <1>7, <2>2
    <3>2. ASSUME NEW c \in Actors, phase'[c] = "append", req'[c].n = req'[b].n PROVE b = c
      <4>1. c # a
        BY <1>3, <1>4, <3>1, <3>2
      <4> QED BY <1>3, <1>6, <1>7, <2>2, <3>1, <3>2, <4>1
    <3> QED BY <1>6, <1>7, <2>2, <3>1, <3>2
  <2> QED BY <2>1, <2>2
<1> QED
  BY <1>2, <1>5, <1>7 DEF Numbered

\* Numbered through every step.
LEMMA NumberedStep ==
    ASSUME Types, ThreadTypes, Numbered, [Next]_vars
    PROVE  Numbered'
<1>0. "tasks" \in Files /\ Tasks \in Seq(Rows)
  BY TasksTyped
<1>1. CASE UNCHANGED vars
  BY <1>1 DEF vars, bounds, ghosts, Numbered, Tasks
<1>2. CASE Tick
  BY <1>2 DEF Tick, bounds, ghosts, Numbered, Tasks
<1>3. ASSUME NEW a \in Actors, Request(a) PROVE Numbered'
  BY <1>3, NumberedBegins
<1>4. ASSUME NEW a \in Actors, Crash(a) PROVE Numbered'
  BY <1>4, NoneBeginsByAStep, CrashShape, NumberedKeeps DEF Tasks
<1>5. ASSUME NEW a \in Actors, AppendTask(a) PROVE Numbered'
  <2>1. NoneBegins /\ phase'[a] # "append"
    BY <1>5, NoneBeginsByAStep DEF Step
  <2>2. phase[a] = "append" /\ requests' = requests
    BY <1>5 DEF AppendTask, bounds
  <2>3. Tasks' = Append(Tasks, Fresh(a))
    BY <1>0, <1>5 DEF AppendTask, Append1, Types, Tasks
  <2> QED BY <2>1, <2>2, <2>3, FreshRow, NumberedAppends
<1>6. ASSUME NEW a \in Actors, AppendTorn(a) PROVE Numbered'
  <2>1. NoneBegins /\ phase'[a] # "append"
    BY <1>6, NoneBeginsByAStep DEF Step
  <2> DEFINE f == Head(req[a].todo)
             row == [Fresh(a) EXCEPT !.kind = "torn"]
  <2>2. phase[a] = "append" /\ requests' = requests
    BY <1>6 DEF AppendTorn
  <2>3. f \in Files /\ history' = [history EXCEPT ![f] = Append(history[f], row)]
    BY <1>6, ThreadFacts DEF AppendTorn, Append1, Types
  <2>4. row \in Rows /\ row.id = StartIds + req[a].n
    BY FreshRow
  <2> HIDE DEF f, row
  <2>5. CASE f = "tasks"
    <3>1. Tasks' = Append(Tasks, row)
      BY <1>0, <2>3, <2>5 DEF Types, Tasks
    <3> QED BY <2>1, <2>2, <2>4, <3>1, NumberedAppends
  <2>6. CASE f # "tasks"
    <3>1. Tasks' = Tasks
      BY <1>0, <2>3, <2>6 DEF Types, Tasks
    <3> QED BY <2>1, <2>2, <3>1, NumberedKeeps
  <2> QED BY <2>5, <2>6
<1>7. ASSUME NEW a \in Actors, Truncate(a) PROVE Numbered'
  <2>1. NoneBegins /\ requests' = requests
    BY <1>7, NoneBeginsByAStep DEF Step, Truncate, bounds
  <2> DEFINE f == Head(req[a].todo)
             fact == IF req[a].op = "fact" THEN <<Row(req[a].key, "good", req[a].n)>> ELSE <<>>
  <2>2. f \in Files /\ f = IF req[a].op = "fact" THEN "semantic" ELSE "tasks"
    BY <1>7, ThreadFacts DEF Truncate, Rewriting
  <2>3. history' = [history EXCEPT ![f] = history[f] \o fact]
    BY <1>7, <2>2 DEF Truncate, Types
  <2>4. Tasks' = Tasks
    <3>1. CASE req[a].op = "fact"
      BY <1>0, <2>2, <2>3, <3>1 DEF Types, Tasks
    <3>2. CASE req[a].op # "fact"
      <4>1. fact = <<>> /\ f = "tasks"
        BY <2>2, <3>2
      <4>2. Tasks \o <<>> = Tasks
        BY <1>0
      <4>3. Tasks' = Tasks \o fact
        BY <1>0, <2>3, <4>1 DEF Types, Tasks
      <4> QED BY <4>1, <4>2, <4>3
    <3> QED BY <3>1, <3>2
  <2> HIDE DEF f, fact
  <2> QED BY <2>1, <2>4, NumberedKeeps
<1>8. ASSUME NEW a \in Actors, AppendEpisode(a) PROVE Numbered'
  <2>1. NoneBegins /\ requests' = requests
    BY <1>8, NoneBeginsByAStep DEF Step, AppendEpisode, bounds
  <2>2. Tasks' = Tasks
    BY <1>0, <1>8 DEF AppendEpisode, Append1, Types, Tasks
  <2> QED BY <2>1, <2>2, NumberedKeeps
<1>9. ASSUME NEW a \in Actors, Step(a), UNCHANGED <<history, requests>> PROVE Numbered'
  BY <1>9, NoneBeginsByAStep, NumberedKeeps DEF Tasks
<1>10. ASSUME NEW a \in Actors, Step(a),
              ~(AppendTask(a) \/ AppendTorn(a) \/ AppendEpisode(a) \/ Truncate(a))
       PROVE  UNCHANGED <<history, requests>>
  BY <1>10 DEF Step, Load, Write, Read, Backup, RepairWrite, CompactWrite, Replace, Report,
     LoadStatus, SaveStatus, ghosts, bounds
<1>11. ASSUME NEW a \in Actors, Step(a) PROVE Numbered'
  BY <1>5, <1>6, <1>7, <1>8, <1>9, <1>10, <1>11
<1> QED
  BY <1>1, <1>2, <1>3, <1>4, <1>11 DEF Next

\* Numbered to begin with (DoctorStarts).
LEMMA NumberedInit == Init => Numbered
<1> SUFFICES ASSUME Init PROVE Numbered
  OBVIOUS
<1>1. /\ file \in [Files -> Lines] /\ history = file /\ "tasks" \in Files
      /\ \A i, j \in DOMAIN file["tasks"] : file["tasks"][i] = file["tasks"][j] => i = j
      /\ \A i \in DOMAIN file["tasks"] : file["tasks"][i].id <= StartIds
  BY DoctorStarts, DoctorConstants DEF Init
<1>2. Types /\ requests = 0
  BY TypesInit DEF Init
<1>3. \A i \in DOMAIN Tasks : Tasks[i].id <= StartIds + requests
  BY <1>1, <1>2, TasksTyped DEF Tasks
<1>4. \A a \in Actors : phase[a] # "append"
  BY DEF Init
<1> QED
  BY <1>1, <1>3, <1>4 DEF Numbered, Tasks

-----------------------------------------------------------------------------
(* What a thread knows that nobody has overtaken.                          *)

(***************************************************************************)
(* A thread whose file has not changed since it read it: what it is going  *)
(* to write comes from the rows that are in the file, nothing was added    *)
(* after it truncated the file, and before the doctor replaces the file    *)
(* there is a backup of it as it is.  An upsert always writes its fact.    *)
(***************************************************************************)
Remade(w, rows) ==
    IF w.op = "fact" THEN Upserted(ValidRows(rows), w.key, w.n)
                     ELSE LastRows(ValidRows(rows), Retention["tasks"])

Current(p, w, contents, copies) ==
    LET f == Head(w.todo)
    IN  /\ w.detached => p = "write" /\ w.stale
        /\ ~w.stale /\ p = "write" => contents[f] = <<>>
        /\ ~w.stale /\ p = "truncate" => w.rows = Remade(w, contents[f])
        /\ ~w.stale /\ p \in {"repair_write", "compact_write"} =>
              \E t \in 0..MaxTime : copies[f][t] = contents[f]
        /\ p = "truncate" /\ w.op = "fact" =>
              \E i \in DOMAIN w.rows : w.rows[i] = Row(w.key, "good", w.n)

AllCurrent == \A a \in Actors : Current(phase[a], req[a], file, backup)

\* A step that changes no file keeps AllCurrent, if its thread is current.
LEMMA CurrentByGoing ==
    ASSUME Types, ThreadTypes, AllCurrent, NEW a \in Actors, NEW p, NEW w,
           Goto(a, p, w), UNCHANGED file,
           \/ UNCHANGED backup
           \/ \E f \in Files : backup' = [backup EXCEPT ![f][now] = file[f]],
           Current(p, w, file, backup')
    PROVE  AllCurrent'
<1> SUFFICES ASSUME NEW b \in Actors PROVE Current(phase'[b], req'[b], file, backup')
  BY DEF AllCurrent
<1>1. CASE b = a
  <2>1. phase'[a] = p /\ req'[a] = w
    BY DEF Goto, Types
  <2> QED BY <1>1, <2>1
<1>2. CASE b # a
  <2>1. phase'[b] = phase[b] /\ req'[b] = req[b]
    BY <1>2 DEF Goto, Types
  <2>2. Current(phase[b], req[b], file, backup)
    BY DEF AllCurrent
  <2>3. CASE UNCHANGED backup
    BY <2>1, <2>2, <2>3
  <2>4. ASSUME NEW f \in Files, backup' = [backup EXCEPT ![f][now] = file[f]]
        PROVE  Current(phase[b], req[b], file, backup')
    <3> DEFINE g == Head(req[b].todo)
    <3>1. ASSUME phase[b] \in {"repair_write", "compact_write"}, NEW t \in 0..MaxTime,
                 backup[g][t] = file[g]
          PROVE  backup'[g][t] = file[g]
      <4>1. g \in Files
        BY <3>1, ThreadFacts DEF Doctoring
      <4>2. backup'[g][t] = IF g = f /\ t = now THEN file[f] ELSE backup[g][t]
        BY <2>4, <4>1 DEF Types
      <4> QED BY <3>1, <4>2
    <3> QED BY <2>2, <3>1 DEF Current
  <2> QED BY <2>1, <2>3, <2>4
<1> QED
  BY <1>1, <1>2

\* So does one that changes f: it makes the threads that hold f stale.
LEMMA CurrentByChanging ==
    ASSUME Types, ThreadTypes, AllCurrent, NEW a \in Actors, NEW p, NEW w, NEW f \in Files,
           NEW renamed \in BOOLEAN, NEW torn \in BOOLEAN, NEW rows,
           GotoChanging(a, p, w, f, renamed, torn),
           file' = [file EXCEPT ![f] = rows], UNCHANGED backup,
           Current(p, w, file', backup)
    PROVE  AllCurrent'
<1> SUFFICES ASSUME NEW b \in Actors PROVE Current(phase'[b], req'[b], file', backup)
  BY DEF AllCurrent
<1>1. CASE b = a
  <2>1. phase'[a] = p /\ req'[a] = w
    BY OthersKeep
  <2> QED BY <1>1, <2>1
<1>2. CASE b # a
  <2>1. /\ phase'[b] = phase[b] /\ req'[b].todo = req[b].todo /\ req'[b].op = req[b].op
        /\ req'[b].rows = req[b].rows /\ req'[b].key = req[b].key /\ req'[b].n = req[b].n
    BY <1>2, OthersKeep
  <2>2. req'[b].stale <=> req[b].stale \/ Holds(b, f)
    BY <1>2, OthersLearn
  <2>3. req'[b].detached <=> req[b].detached \/ (renamed /\ Holds(b, f) /\ phase[b] = "write")
    BY <1>2, OthersLearn
  <2>4. Current(phase[b], req[b], file, backup)
    BY DEF AllCurrent
  <2>5. req'[b].detached => phase'[b] = "write" /\ req'[b].stale
    BY <2>1, <2>2, <2>3, <2>4 DEF Current
  <2> DEFINE g == Head(req[b].todo)
  <2>6. ASSUME ~req'[b].stale, phase[b] \in {"write", "truncate", "repair_write", "compact_write"}
        PROVE  file'[g] = file[g] /\ ~req[b].stale
    <3>1. g # f /\ ~req[b].stale
      BY <2>2, <2>6 DEF Holds, Doctoring, Rewriting
    <3>2. g \in Files
      BY <2>6, ThreadFacts DEF Doctoring, Rewriting
    <3> QED BY <3>1, <3>2 DEF Types
  <2>7. Remade(req'[b], file[g]) = Remade(req[b], file[g])
    BY <2>1 DEF Remade
  <2> QED BY <2>1, <2>4, <2>5, <2>6, <2>7 DEF Current
<1> QED
  BY <1>1, <1>2

\* Most phases ask nothing of a thread that still has its file.
LEMMA CurrentElsewhere ==
    ASSUME NEW p, p \notin {"write", "truncate", "repair_write", "compact_write"}, NEW w, ~w.detached,
           NEW contents, NEW copies
    PROVE  Current(p, w, contents, copies)
BY DEF Current

\* Only a thread about to write can hold the old file of a rename.
LEMMA StillAttached ==
    ASSUME AllCurrent, NEW a \in Actors, phase[a] # "write"
    PROVE  ~req[a].detached
BY DEF AllCurrent, Current

\* AllCurrent through the appends.
LEMMA CurrentAppends ==
    ASSUME Types, ThreadTypes, AllCurrent, NEW a \in Actors,
           AppendEpisode(a) \/ AppendTask(a) \/ AppendTorn(a)
    PROVE  AllCurrent'
<1>0. ~Idle.detached /\ FALSE \in BOOLEAN /\ TRUE \in BOOLEAN
  BY DEF Idle
<1>1. CASE AppendEpisode(a)
  <2>1. "episodic" \in Files /\ UNCHANGED backup
        /\ file' = [file EXCEPT !["episodic"] = Appended(file["episodic"], Fresh(a))]
    BY <1>1, DoctorConstants DEF AppendEpisode, Append1, Types
  <2>2. GotoChanging(a, "idle", Idle, "episodic", FALSE, FALSE)
    BY <1>1 DEF AppendEpisode
  <2> QED BY <1>0, <2>1, <2>2, CurrentElsewhere, CurrentByChanging
<1>2. CASE AppendTask(a)
  <2>1. "tasks" \in Files /\ UNCHANGED backup
        /\ file' = [file EXCEPT !["tasks"] = Appended(file["tasks"], Fresh(a))]
    BY <1>2, DoctorConstants DEF AppendTask, Append1, Types
  <2>2. GotoChanging(a, "load", req[a], "tasks", FALSE, FALSE) /\ ~req[a].detached
    BY <1>2, StillAttached DEF AppendTask
  <2> QED BY <1>0, <2>1, <2>2, CurrentElsewhere, CurrentByChanging
<1>3. CASE AppendTorn(a)
  <2> DEFINE f == Head(req[a].todo)
             rows == Appended(file[f], [Fresh(a) EXCEPT !.kind = "torn"])
  <2>1. f \in Files
    BY <1>3, ThreadFacts DEF AppendTorn
  <2>2. file' = [file EXCEPT ![f] = rows] /\ UNCHANGED backup
    BY <1>3, <2>1 DEF AppendTorn, Append1, Types
  <2>3. GotoChanging(a, "idle", Idle, f, FALSE, TRUE)
    BY <1>3 DEF AppendTorn
  <2> HIDE DEF f, rows
  <2> QED BY <1>0, <2>1, <2>2, <2>3, CurrentElsewhere, CurrentByChanging
<1> QED
  BY <1>1, <1>2, <1>3

\* AllCurrent through a rewrite in place.
LEMMA CurrentRewrites ==
    ASSUME Types, ThreadTypes, AllCurrent, NEW a \in Actors, Load(a) \/ Truncate(a) \/ Write(a)
    PROVE  AllCurrent'
<1> DEFINE f == Head(req[a].todo)
<1>0. ~Idle.detached /\ FALSE \in BOOLEAN /\ TRUE \in BOOLEAN
  BY DEF Idle
<1>1. CASE Load(a)
  <2>1. UNCHANGED <<file, backup>> /\ ~req[a].detached
    BY <1>1, StillAttached DEF Load, disk
  <2>2. f = IF req[a].op = "fact" THEN "semantic" ELSE "tasks"
    BY <1>1, ThreadFacts DEF Load, Rewriting
  <2>3. ASSUME NEW rows \in Seq(Rows), NEW stale \in BOOLEAN,
               Goto(a, "truncate", [req[a] EXCEPT !.stale = stale, !.rows = rows]),
               rows = Remade(req[a], file[f]),
               req[a].op = "fact" =>
                   \E i \in DOMAIN rows : rows[i] = Row(req[a].key, "good", req[a].n)
        PROVE  AllCurrent'
    <3> DEFINE w == [req[a] EXCEPT !.stale = stale, !.rows = rows]
    <3>1. /\ w.todo = req[a].todo /\ w.rows = rows /\ w.detached = req[a].detached
          /\ w.op = req[a].op /\ w.key = req[a].key /\ w.n = req[a].n
      <4>1. req[a] \in Requests
        BY DEF Types
      <4> QED BY <4>1 DEF Requests
    <3>2. Goto(a, "truncate", w)
      BY <2>3
    <3> HIDE DEF w
    <3>3. Remade(w, file[f]) = Remade(req[a], file[f])
      BY <3>1 DEF Remade
    <3>4. Current("truncate", w, file, backup')
      BY <2>1, <2>3, <3>1, <3>3 DEF Current
    <3> QED BY <2>1, <3>2, <3>4, CurrentByGoing
  <2>4. CASE Goto(a, "idle", Idle)
    BY <1>0, <2>1, <2>4, CurrentElsewhere, CurrentByGoing
  <2>5. ASSUME NEW rows,
               \/ /\ req[a].op = "fact"
                  /\ rows = Upserted(ValidRows(file["semantic"]), req[a].key, req[a].n)
               \/ /\ req[a].op = "task"
                  /\ rows = LastRows(ValidRows(file["tasks"]), Retention["tasks"])
        PROVE  rows = Remade(req[a], file[f])
    BY <2>2, <2>5 DEF Remade
  <2>6. ASSUME NEW rows, rows = Upserted(ValidRows(file["semantic"]), req[a].key, req[a].n)
        PROVE  \E i \in DOMAIN rows : rows[i] = Row(req[a].key, "good", req[a].n)
    <3> DEFINE valid == ValidRows(file["semantic"])
    <3>1. file["semantic"] \in Seq(Rows) /\ req[a].key \in Nat /\ req[a].n \in Nat
      <4>1. req[a] \in Requests /\ file["semantic"] \in Seq(Rows)
        BY DoctorConstants DEF Types, Lines
      <4> QED BY <4>1 DEF Requests
    <3>2. valid \in Seq(Rows) /\ Clean(valid)
      BY <3>1, ValidRowsClean
    <3> HIDE DEF valid
    <3>3. rows = Upserted(valid, req[a].key, req[a].n)
      BY <2>6 DEF valid
    <3> QED BY <3>1, <3>2, <3>3, UpsertedRows
  <2>7. req[a].op = "task" => req[a].op # "fact"
    OBVIOUS
  <2> QED BY <1>1, <2>3, <2>4, <2>5, <2>6, <2>7, LoadShape
<1>2. CASE Truncate(a)
  <2>1. f \in Files /\ ~req[a].detached
    BY <1>2, ThreadFacts, StillAttached DEF Truncate, Rewriting
  <2>2. file' = [file EXCEPT ![f] = <<>>] /\ GotoChanging(a, "write", req[a], f, FALSE, FALSE)
        /\ UNCHANGED backup
    BY <1>2 DEF Truncate
  <2>3. file'[f] = <<>>
    BY <2>1, <2>2 DEF Types
  <2>4. Current("write", req[a], file', backup)
    BY <2>1, <2>3 DEF Current
  <2> HIDE DEF f
  <2> QED BY <1>0, <2>1, <2>2, <2>4, CurrentByChanging
<1>3. CASE Write(a)
  <2>1. PICK rows : /\ f \in Files /\ file' = [file EXCEPT ![f] = rows]
                    /\ GotoChanging(a, "idle", Idle, f, FALSE, InvalidCount(rows) > 0)
    BY <1>3, WriteShape
  <2> DEFINE torn == InvalidCount(rows) > 0
  <2>2. GotoChanging(a, "idle", Idle, f, FALSE, torn)
    BY <2>1, Zenon
  <2>3. torn \in BOOLEAN /\ UNCHANGED backup
    BY <1>3 DEF Write
  <2> HIDE DEF f, torn
  <2> QED BY <1>0, <2>1, <2>2, <2>3, CurrentElsewhere, CurrentByChanging
<1> QED
  BY <1>1, <1>2, <1>3

\* AllCurrent when the doctor goes on to its next artifact.
LEMMA CurrentNext ==
    ASSUME Types, ThreadTypes, AllCurrent, NEW a \in Actors, NEW r \in Requests, r.todo # <<>>,
           r.op \in Jobs \cup {"doctor"}, ~r.detached, NextArtifact(a, r), UNCHANGED <<file, backup>>
    PROVE  AllCurrent'
<1>1. PICK p, w : /\ p \in {"read", "load_status", "idle"} /\ Goto(a, p, w)
                  /\ w = Idle \/ w.detached = r.detached
  BY NextArtifactShape
<1>2. ~w.detached
  BY <1>1 DEF Idle
<1>3. Current(p, w, file, backup')
  BY <1>1, <1>2, CurrentElsewhere
<1> QED
  BY <1>1, <1>3, CurrentByGoing

\* AllCurrent through the steps of the doctor.
LEMMA CurrentDoctors ==
    ASSUME Types, ThreadTypes, AllCurrent, NEW a \in Actors,
           Read(a) \/ Backup(a) \/ RepairWrite(a) \/ CompactWrite(a) \/ Report(a)
    PROVE  AllCurrent'
<1> DEFINE f == Head(req[a].todo)
<1>1. CASE Read(a)
  <2>1. phase[a] \in Doctoring /\ UNCHANGED <<file, backup>> /\ ~req[a].detached
    BY <1>1, StillAttached DEF Read, Doctoring, disk
  <2>2. /\ HasRead(a) \in Requests /\ HasRead(a).todo = req[a].todo /\ HasRead(a).op = req[a].op
        /\ ~HasRead(a).detached
    BY <2>1, HasReadTyped
  <2>3. ASSUME NEW p \in {"repair_backup", "compact_backup"}, Goto(a, p, HasRead(a)) PROVE AllCurrent'
    <3>1. Current(p, HasRead(a), file, backup')
      BY <2>2, CurrentElsewhere
    <3> QED BY <2>1, <2>3, <3>1, CurrentByGoing
  <2>4. CASE NextArtifact(a, Counted(a, HasRead(a)))
    <3>1. /\ Counted(a, HasRead(a)) \in Requests /\ Counted(a, HasRead(a)).todo # <<>>
          /\ Counted(a, HasRead(a)).op \in Jobs \cup {"doctor"} /\ ~Counted(a, HasRead(a)).detached
      BY <2>1, <2>2, DoctorFacts, CountedTyped
    <3> QED BY <2>1, <2>4, <3>1, CurrentNext
  <2> QED BY <1>1, <2>3, <2>4, ReadShape
<1>2. CASE Backup(a)
  <2>1. /\ phase[a] \in {"repair_backup", "compact_backup"} /\ UNCHANGED file
        /\ backup' = [backup EXCEPT ![f][now] = file[f]]
        /\ \E p \in {"repair_write", "compact_write"} : Goto(a, p, req[a])
    BY <1>2 DEF Backup
  <2>2. f \in Files /\ ~req[a].detached
    BY <2>1, DoctorFacts, StillAttached DEF Doctoring
  <2>3. now \in 0..MaxTime /\ backup'[f][now] = file[f]
    BY <2>1, <2>2 DEF Types
  <2>4. ASSUME NEW p \in {"repair_write", "compact_write"}
        PROVE  Current(p, req[a], file, backup')
    BY <2>2, <2>3 DEF Current
  <2> HIDE DEF f
  <2> QED BY <2>1, <2>2, <2>4, CurrentByGoing
<1>3. CASE RepairWrite(a) \/ CompactWrite(a)
  <2>1. PICK rows, p : Replacing(a, rows, p) /\ p \in {"compact_backup", "report"}
    BY <1>3, ReplaceShape
  <2>2. phase[a] \in Doctoring /\ phase[a] # "write"
    BY <1>3, ReplaceShape DEF Doctoring
  <2>3. f \in Files /\ req[a] \in Requests /\ ~req[a].detached
    BY <2>2, DoctorFacts, StillAttached
  <2>4. /\ rows \in Seq(Rows) /\ file' = [file EXCEPT ![f] = rows] /\ UNCHANGED backup
        /\ GotoChanging(a, p, HasReplaced(a, rows), f, TRUE, FALSE)
    BY <2>1 DEF Replacing
  <2>5. ~HasReplaced(a, rows).detached
    BY <2>3, <2>4, HasReplacedTyped
  <2>6. TRUE \in BOOLEAN /\ FALSE \in BOOLEAN /\ Current(p, HasReplaced(a, rows), file', backup)
    BY <2>1, <2>5, CurrentElsewhere
  <2> HIDE DEF f
  <2> QED BY <2>3, <2>4, <2>6, CurrentByChanging
<1>4. CASE Report(a)
  <2>1. /\ phase[a] \in Doctoring /\ UNCHANGED <<file, backup>> /\ phase[a] # "write"
        /\ NextArtifact(a, Counted(a, req[a]))
    BY <1>4, ReportShape DEF Doctoring
  <2>2. /\ Counted(a, req[a]) \in Requests /\ Counted(a, req[a]).todo # <<>>
        /\ Counted(a, req[a]).op \in Jobs \cup {"doctor"} /\ ~Counted(a, req[a]).detached
    BY <2>1, DoctorFacts, CountedTyped, StillAttached
  <2> QED BY <2>1, <2>2, CurrentNext
<1> QED
  BY <1>1, <1>2, <1>3, <1>4

\* AllCurrent through the steps of the jobs, requests and crashes.
LEMMA CurrentOthers ==
    ASSUME Types, ThreadTypes, AllCurrent, NEW a \in Actors,
           LoadStatus(a) \/ SaveStatus(a) \/ Crash(a) \/ Request(a)
    PROVE  AllCurrent'
<1>0. UNCHANGED <<file, backup>>
  BY BeginShape, CrashShape DEF LoadStatus, SaveStatus, disk
<1>1. ASSUME NEW p \in {"idle", "append", "load", "read", "save_status", "episode"},
             NEW w, Goto(a, p, w), ~w.detached
      PROVE  AllCurrent'
  <2>1. Current(p, w, file, backup')
    BY <1>1, CurrentElsewhere
  <2> QED BY <1>0, <1>1, <2>1, CurrentByGoing
<1>2. CASE LoadStatus(a)
  <2> DEFINE w == [req[a] EXCEPT !.status = status]
  <2>1. w.detached = req[a].detached /\ ~req[a].detached
    <3>1. req[a] \in Requests
      BY DEF Types
    <3> QED BY <1>2, <3>1, StillAttached DEF Requests, LoadStatus
  <2>2. Goto(a, "save_status", w)
    BY <1>2 DEF LoadStatus
  <2> HIDE DEF w
  <2> QED BY <1>1, <2>1, <2>2
<1>3. CASE SaveStatus(a)
  <2> DEFINE w == [Idle EXCEPT !.op = req[a].op, !.n = req[a].n]
  <2>1. ~w.detached
    BY DEF Idle
  <2>2. Goto(a, "episode", w)
    BY <1>3 DEF SaveStatus
  <2> HIDE DEF w
  <2> QED BY <1>1, <2>1, <2>2
<1>4. CASE Crash(a)
  <2>1. ~Idle.detached
    BY DEF Idle
  <2> QED BY <1>1, <1>4, <2>1, CrashShape
<1>5. CASE Request(a)
  BY <1>1, <1>5, BeginShape DEF BeginsAs
<1> QED
  BY <1>2, <1>3, <1>4, <1>5

\* AllCurrent through every step.
LEMMA CurrentStep ==
    ASSUME Types, ThreadTypes, AllCurrent, [Next]_vars
    PROVE  AllCurrent'
<1>1. CASE UNCHANGED vars
  BY <1>1 DEF vars, disk, AllCurrent
<1>2. CASE Tick
  BY <1>2 DEF Tick, disk, AllCurrent
<1>3. ASSUME NEW a \in Actors, Step(a) PROVE AllCurrent'
  BY <1>3, CurrentAppends, CurrentRewrites, CurrentDoctors, CurrentOthers DEF Step
<1>4. ASSUME NEW a \in Actors, Request(a) \/ Crash(a) PROVE AllCurrent'
  BY <1>4, CurrentOthers
<1> QED
  BY <1>1, <1>2, <1>3, <1>4 DEF Next

\* AllCurrent to begin with.
LEMMA CurrentInit == Init => AllCurrent
BY CurrentElsewhere DEF Init, AllCurrent, Idle

-----------------------------------------------------------------------------
(* Nothing vanishes.                                                       *)

(***************************************************************************)
(* Task lines that are in the order they were written: behind a line that  *)
(* n others follow in the file, at least n have been written.              *)
(***************************************************************************)
LEMMA NewerTasks ==
    ASSUME NEW h \in Seq(Rows), \A i, j \in DOMAIN h : h[i] = h[j] => i = j,
           NEW rows \in Seq(Rows), Clean(rows), Known(rows, h), InOrder(rows, h),
           NEW k \in DOMAIN rows, NEW i \in DOMAIN h, h[i] = rows[k]
    PROVE  Len(h) - i >= Len(rows) - k
<1> DEFINE A == (k + 1)..Len(rows)
           B == (i + 1)..Len(h)
           At(q) == CHOOSE j \in DOMAIN h : h[j] = rows[q]
           g == [q \in A |-> At(q)]
<1>1. /\ Len(rows) \in Nat /\ Len(h) \in Nat /\ k \in 1..Len(rows) /\ i \in 1..Len(h)
      /\ DOMAIN rows = 1..Len(rows) /\ DOMAIN h = 1..Len(h)
  OBVIOUS
<1>2. ASSUME NEW q \in DOMAIN rows
      PROVE  At(q) \in DOMAIN h /\ h[At(q)] = rows[q]
  <2>1. \E j \in DOMAIN h : h[j] = rows[q]
    BY DEF Clean, Known
  <2> QED BY <2>1
<1>3. ASSUME NEW q \in DOMAIN rows, NEW r \in DOMAIN rows, q < r
      PROVE  At(q) < At(r)
  <2>1. PICK m, n \in DOMAIN h : m < n /\ h[m] = rows[q] /\ h[n] = rows[r]
    BY <1>3 DEF Clean, InOrder
  <2> HIDE DEF At
  <2>2. At(q) = m /\ At(r) = n
    BY <1>2, <2>1
  <2> QED BY <2>1, <2>2
<1>4. At(k) = i
  <2> HIDE DEF At
  <2> QED BY <1>2
<1> HIDE DEF At
<1>5. A \subseteq DOMAIN rows /\ \A q \in A : k < q /\ q \in Nat
  BY <1>1
<1>6. g \in [A -> B]
  <2>1. ASSUME NEW q \in A PROVE At(q) \in B
    <3>1. At(q) \in DOMAIN h /\ i < At(q)
      <4> HIDE DEF A
      <4> QED BY <1>2, <1>3, <1>4, <1>5
    <3> QED BY <1>1, <3>1
  <2> HIDE DEF A, B
  <2> QED BY <2>1
<1>7. \A q, r \in A : g[q] = g[r] => q = r
  <2> SUFFICES ASSUME NEW q \in A, NEW r \in A, g[q] = g[r], q < r PROVE FALSE
    <3>1. \A q, r \in Nat : q < r \/ r < q \/ q = r
      OBVIOUS
    <3> HIDE DEF A, g
    <3> QED BY <1>5, <3>1
  <2> HIDE DEF A
  <2>1. At(q) < At(r) /\ At(q) = At(r) /\ At(q) \in DOMAIN h
    BY <1>2, <1>3, <1>5
  <2>2. At(q) \in Nat
    BY <1>1, <2>1
  <2> QED BY <2>1, <2>2
<1>8. /\ IsFiniteSet(B)
      /\ Cardinality(A) = IF k + 1 > Len(rows) THEN 0 ELSE Len(rows) - (k + 1) + 1
      /\ Cardinality(B) = IF i + 1 > Len(h) THEN 0 ELSE Len(h) - (i + 1) + 1
  <2>1. k + 1 \in Int /\ Len(rows) \in Int /\ i + 1 \in Int /\ Len(h) \in Int
    BY <1>1
  <2> QED BY <2>1, FS_Interval
<1>9. Cardinality(A) <= Cardinality(B)
  <2> HIDE DEF A, B, g
  <2>1. g \in Injection(A, B)
    BY <1>6, <1>7 DEF Injection, IsInjective
  <2> QED BY <1>8, <2>1, FS_Injection
<1> DEFINE ca == Cardinality(A)
           cb == Cardinality(B)
<1>10. ca = Len(rows) - k /\ cb = Len(h) - i
  <2>1. \A m, n \in Nat : m \in 1..n => (IF m + 1 > n THEN 0 ELSE n - (m + 1) + 1) = n - m
    OBVIOUS
  <2>2. /\ k \in Nat /\ i \in Nat /\ k \in 1..Len(rows) /\ i \in 1..Len(h)
        /\ Len(rows) \in Nat /\ Len(h) \in Nat
    BY <1>1
  <2>3. /\ ca = IF k + 1 > Len(rows) THEN 0 ELSE Len(rows) - (k + 1) + 1
        /\ cb = IF i + 1 > Len(h) THEN 0 ELSE Len(h) - (i + 1) + 1
    <3> HIDE DEF A, B
    <3> QED BY <1>8
  <2> HIDE DEF ca, cb
  <2>4. /\ (IF k + 1 > Len(rows) THEN 0 ELSE Len(rows) - (k + 1) + 1) = Len(rows) - k
        /\ (IF i + 1 > Len(h) THEN 0 ELSE Len(h) - (i + 1) + 1) = Len(h) - i
    BY <2>1, <2>2
  <2> QED BY <2>3, <2>4
<1> HIDE DEF ca, cb
<1>11. ca <= cb
  BY <1>9 DEF ca, cb
<1> QED
  BY <1>1, <1>10, <1>11

(***************************************************************************)
(* A row whose loss is no loss: a newer value of the fact or enough newer  *)
(* tasks were written, or it was not valid.                                *)
(***************************************************************************)
Superseded(f, h, i) ==
    \/ f = "semantic" /\ \E j \in DOMAIN h : j > i /\ h[j].id = h[i].id
    \/ f = "tasks" /\ Len(h) - i >= Retention[f]
    \/ f # "episodic" /\ ~Good(h[i])

\* A row that is superseded stays so.
LEMMA SupersededLater ==
    ASSUME NEW f \in Files, NEW h, NEW h2, Longer(h, h2), NEW i \in DOMAIN h, Superseded(f, h, i)
    PROVE  Superseded(f, h2, i)
<1>1. /\ h \in Seq(Rows) /\ h2 \in Seq(Rows) /\ Len(h) <= Len(h2)
      /\ \A j \in DOMAIN h : j \in DOMAIN h2 /\ h2[j] = h[j]
  BY DEF Longer
<1>2. CASE f = "semantic" /\ \E j \in DOMAIN h : j > i /\ h[j].id = h[i].id
  BY <1>1, <1>2 DEF Superseded
<1>3. CASE f = "tasks" /\ Len(h) - i >= Retention[f]
  <2>1. Len(h) \in Nat /\ Len(h2) \in Nat /\ i \in Nat /\ Retention[f] \in Nat
    BY <1>1, DoctorConstants
  <2>2. Len(h2) - i >= Retention[f]
    BY <1>1, <1>3, <2>1
  <2> QED BY <1>3, <2>2 DEF Superseded
<1>4. CASE f # "episodic" /\ ~Good(h[i])
  BY <1>1, <1>4 DEF Superseded
<1> QED
  BY <1>2, <1>3, <1>4 DEF Superseded

\* The rows that are not lost.
Kept(f) == Present(f) \cup excused[f]

\* NothingVanishes in the terms of the proofs.
LEMMA VanishesIf ==
    NothingVanishes <=>
        \A f \in Files : \A i \in DOMAIN history[f] :
            history[f][i] \in Kept(f) \/ Superseded(f, history[f], i)
BY DEF NothingVanishes, Kept, Superseded

\* Where a row of f can be: in f, in a backup, or with a thread about to write it.
LEMMA PresentRows ==
    /\ \A f, row : row \in Present(f) <=>
          \/ row \in Range(file[f])
          \/ \E t \in 0..MaxTime : row \in Range(backup[f][t])
          \/ \E b \in Actors :
                phase[b] = "write" /\ Head(req[b].todo) = f /\ row \in Range(req[b].rows)
    /\ \A f, row : row \in Present(f)' <=>
          \/ row \in Range(file'[f])
          \/ \E t \in 0..MaxTime : row \in Range(backup'[f][t])
          \/ \E b \in Actors :
                phase'[b] = "write" /\ Head(req'[b].todo) = f /\ row \in Range(req'[b].rows)
<1>1. \A b, f : phase[b] = "write" /\ Holds(b, f) <=> phase[b] = "write" /\ Head(req[b].todo) = f
  BY DEF Holds, Doctoring, Rewriting
<1>2. \A b, f : phase'[b] = "write" /\ Holds(b, f)' <=> phase'[b] = "write" /\ Head(req'[b].todo) = f
  BY DEF Holds, Doctoring, Rewriting
<1>3. ASSUME NEW f, NEW row
      PROVE  row \in Present(f) <=>
                \/ row \in Range(file[f])
                \/ \E t \in 0..MaxTime : row \in Range(backup[f][t])
                \/ \E b \in Actors :
                      phase[b] = "write" /\ Head(req[b].todo) = f /\ row \in Range(req[b].rows)
  <2>1. row \in UNION {Range(backup[f][t]) : t \in 0..MaxTime} <=>
           \E t \in 0..MaxTime : row \in Range(backup[f][t])
    OBVIOUS
  <2>2. row \in UNION {Range(req[b].rows) : b \in Writers(f)} <=>
           \E b \in Writers(f) : row \in Range(req[b].rows)
    OBVIOUS
  <2>3. \A b : b \in Writers(f) <=> b \in Actors /\ phase[b] = "write" /\ Head(req[b].todo) = f
    BY <1>1 DEF Writers
  <2>4. row \in Present(f) <=> \/ row \in Range(file[f])
                              \/ row \in UNION {Range(backup[f][t]) : t \in 0..MaxTime}
                              \/ row \in UNION {Range(req[b].rows) : b \in Writers(f)}
    BY Zenon DEF Present
  <2> QED BY <2>1, <2>2, <2>3, <2>4
<1>4. ASSUME NEW f, NEW row
      PROVE  row \in Present(f)' <=>
                \/ row \in Range(file'[f])
                \/ \E t \in 0..MaxTime : row \in Range(backup'[f][t])
                \/ \E b \in Actors :
                      phase'[b] = "write" /\ Head(req'[b].todo) = f /\ row \in Range(req'[b].rows)
  <2>1. row \in UNION {Range(backup'[f][t]) : t \in 0..MaxTime} <=>
           \E t \in 0..MaxTime : row \in Range(backup'[f][t])
    OBVIOUS
  <2>2. row \in UNION {Range(req'[b].rows) : b \in Writers(f)'} <=>
           \E b \in Writers(f)' : row \in Range(req'[b].rows)
    OBVIOUS
  <2>3. \A b : b \in Writers(f)' <=> b \in Actors /\ phase'[b] = "write" /\ Head(req'[b].todo) = f
    BY <1>2 DEF Writers
  <2>4. row \in Present(f)' <=> \/ row \in Range(file'[f])
                               \/ row \in UNION {Range(backup'[f][t]) : t \in 0..MaxTime}
                               \/ row \in UNION {Range(req'[b].rows) : b \in Writers(f)'}
    BY Zenon DEF Present
  <2> QED BY <2>1, <2>2, <2>3, <2>4
<1> QED
  BY <1>3, <1>4

(***************************************************************************)
(* A step that loses nothing, and one that loses rows of one file only.    *)
(***************************************************************************)
LEMMA KeptByGoing ==
    ASSUME Types, NEW a \in Actors, NEW p, NEW w, Goto(a, p, w), UNCHANGED file,
           \A g \in Files : excused[g] \subseteq excused'[g],
           phase[a] = "write" => Range(req[a].rows) \subseteq excused'[Head(req[a].todo)],
           \A g \in Files : \A t \in 0..MaxTime :
               Range(backup[g][t]) \subseteq Range(backup'[g][t]) \cup excused'[g]
    PROVE  \A g \in Files : Kept(g) \subseteq Kept(g)'
<1> SUFFICES ASSUME NEW g \in Files, NEW row, row \in Kept(g) PROVE row \in Kept(g)'
  OBVIOUS
<1>1. \A b \in Actors : b # a => phase'[b] = phase[b] /\ req'[b] = req[b]
  BY DEF Goto, Types
<1>2. CASE row \in excused[g]
  BY <1>2 DEF Kept
<1>3. CASE row \in Range(file[g])
  BY <1>3, PresentRows DEF Kept
<1>4. ASSUME NEW t \in 0..MaxTime, row \in Range(backup[g][t]) PROVE row \in Kept(g)'
  <2>1. row \in Range(backup'[g][t]) \/ row \in excused'[g]
    BY <1>4
  <2> QED BY <2>1, PresentRows DEF Kept
<1>5. ASSUME NEW b \in Actors, phase[b] = "write", Head(req[b].todo) = g, row \in Range(req[b].rows)
      PROVE  row \in Kept(g)'
  <2>1. CASE b = a
    BY <1>5, <2>1 DEF Kept
  <2>2. CASE b # a
    BY <1>1, <1>5, <2>2, PresentRows DEF Kept
  <2> QED BY <2>1, <2>2
<1> QED
  BY <1>2, <1>3, <1>4, <1>5, PresentRows DEF Kept

\* The step leaves rows in f.
Changes(f, rows) == file' = [file EXCEPT ![f] = rows]

\* What a step of a that leaves rows in f removes from f, or forgets.
Removed(a, f, rows, row) ==
    /\ row \notin Range(rows)
    /\ row \in Range(file[f]) \/ (phase[a] = "write" /\ row \in Range(req[a].rows))

\* A step that changes f keeps what it does not remove.
LEMMA KeptByChanging ==
    ASSUME Types, NEW a \in Actors, NEW p, NEW w, NEW f \in Files,
           NEW renamed \in BOOLEAN, NEW torn \in BOOLEAN, NEW rows,
           GotoChanging(a, p, w, f, renamed, torn),
           Changes(f, rows), UNCHANGED backup,
           \A g \in Files : excused[g] \subseteq excused'[g],
           phase[a] = "write" => Head(req[a].todo) = f
    PROVE  \A g \in Files : \A row \in Kept(g) :
              \/ row \in Kept(g)'
              \/ g = f /\ Removed(a, f, rows, row)
<1> SUFFICES ASSUME NEW g \in Files, NEW row, row \in Kept(g)
             PROVE  \/ row \in Kept(g)'
                    \/ g = f /\ Removed(a, f, rows, row)
  OBVIOUS
<1>0. \A h \in Files : file'[h] = IF h = f THEN rows ELSE file[h]
  BY DEF Types, Changes
<1>1. \A b \in Actors : b # a =>
         phase'[b] = phase[b] /\ req'[b].todo = req[b].todo /\ req'[b].rows = req[b].rows
  BY OthersKeep
<1>2. CASE row \in excused[g]
  BY <1>2 DEF Kept, Removed
<1>3. CASE row \in Range(file[g])
  BY <1>0, <1>3, PresentRows DEF Kept, Removed
<1>4. CASE \E t \in 0..MaxTime : row \in Range(backup[g][t])
  BY <1>4, PresentRows DEF Kept, Removed
<1>5. ASSUME NEW b \in Actors, phase[b] = "write", Head(req[b].todo) = g, row \in Range(req[b].rows)
      PROVE  \/ row \in Kept(g)'
             \/ g = f /\ Removed(a, f, rows, row)
  <2>1. CASE b = a
    BY <1>0, <1>5, <2>1, PresentRows DEF Kept, Removed
  <2>2. CASE b # a
    BY <1>1, <1>5, <2>2, PresentRows DEF Kept, Removed
  <2> QED BY <2>1, <2>2
<1> QED
  BY <1>2, <1>3, <1>4, <1>5, PresentRows DEF Kept, Removed

\* NothingVanishes from what a step does to the rows that were kept.
LEMMA NothingVanishesIf ==
    ASSUME NothingVanishes, \A g \in Files : Longer(history[g], history'[g]),
           \A g \in Files : \A i \in DOMAIN history[g] :
               history[g][i] \in Kept(g) =>
                   history[g][i] \in Kept(g)' \/ Superseded(g, history'[g], i),
           \A g \in Files : \A i \in DOMAIN history'[g] :
               i \in DOMAIN history[g] \/ history'[g][i] \in Kept(g)'
    PROVE  NothingVanishes'
<1> SUFFICES ASSUME NEW g \in Files, NEW i \in DOMAIN history'[g]
             PROVE  history'[g][i] \in Kept(g)' \/ Superseded(g, history'[g], i)
  BY VanishesIf DEF NothingVanishes, Kept, Superseded
<1>1. CASE i \in DOMAIN history[g]
  <2>1. history'[g][i] = history[g][i] /\ Longer(history[g], history'[g])
    BY <1>1 DEF Longer
  <2>2. history[g][i] \in Kept(g) \/ Superseded(g, history[g], i)
    BY <1>1, VanishesIf
  <2>3. CASE Superseded(g, history[g], i)
    BY <1>1, <2>1, <2>3, SupersededLater
  <2>4. CASE history[g][i] \in Kept(g)
    BY <1>1, <2>1, <2>4
  <2> QED BY <2>2, <2>3, <2>4
<1>2. CASE i \notin DOMAIN history[g]
  BY <1>2
<1> QED
  BY <1>1, <1>2

\* Nothing vanishes in a step that appends nothing and changes no file.
LEMMA VanishesByGoing ==
    ASSUME Types, NothingVanishes, NEW a \in Actors, NEW p, NEW w, Goto(a, p, w),
           UNCHANGED <<file, history>>,
           \A g \in Files : excused[g] \subseteq excused'[g],
           phase[a] = "write" => Range(req[a].rows) \subseteq excused'[Head(req[a].todo)],
           \A g \in Files : \A t \in 0..MaxTime :
               Range(backup[g][t]) \subseteq Range(backup'[g][t]) \cup excused'[g]
    PROVE  NothingVanishes'
<1>1. UNCHANGED file /\ UNCHANGED history
  OBVIOUS
<1>2. \A g \in Files : Kept(g) \subseteq Kept(g)'
  BY <1>1, KeptByGoing
<1>3. \A g \in Files : Longer(history[g], history'[g])
  BY <1>1, SameHistories
<1> QED
  BY <1>1, <1>2, <1>3, NothingVanishesIf

\* Nothing vanishes in a step that changes f, if what it removes from f is
\* kept elsewhere or superseded, and so is what it writes.
LEMMA VanishesByChanging ==
    ASSUME Types, NothingVanishes, NEW a \in Actors, NEW p, NEW w, NEW f \in Files,
           NEW renamed \in BOOLEAN, NEW torn \in BOOLEAN, NEW rows,
           GotoChanging(a, p, w, f, renamed, torn),
           Changes(f, rows), UNCHANGED backup,
           \A g \in Files : excused[g] \subseteq excused'[g],
           phase[a] = "write" => Head(req[a].todo) = f,
           \A g \in Files : Longer(history[g], history'[g]),
           \A i \in DOMAIN history[f] : Removed(a, f, rows, history[f][i]) =>
               history[f][i] \in Kept(f)' \/ Superseded(f, history'[f], i),
           \A g \in Files : \A i \in DOMAIN history'[g] :
               i \in DOMAIN history[g] \/ history'[g][i] \in Kept(g)'
    PROVE  NothingVanishes'
<1>1. ASSUME NEW g \in Files, NEW i \in DOMAIN history[g], history[g][i] \in Kept(g)
      PROVE  history[g][i] \in Kept(g)' \/ Superseded(g, history'[g], i)
  <2>1. \/ history[g][i] \in Kept(g)'
        \/ g = f /\ Removed(a, f, rows, history[g][i])
    BY <1>1, KeptByChanging
  <2> QED BY <1>1, <2>1
<1> QED
  BY <1>1, NothingVanishesIf

\* What is excused once is excused for good.
LEMMA ExcusedGrows ==
    ASSUME Types, NEW f \in Files, NEW lost,
           excused' = [excused EXCEPT ![f] = excused[f] \cup lost]
    PROVE  /\ \A g \in Files : excused[g] \subseteq excused'[g]
           /\ lost \subseteq excused'[f]
BY DEF Types

\* What is in the changed file is kept, and what is excused.
LEMMA KeptIn ==
    ASSUME NEW f, NEW row, row \in Range(file'[f]) \/ row \in excused'[f]
    PROVE  row \in Kept(f)'
BY PresentRows DEF Kept

\* Nothing vanishes in an append; a torn line it spoils is excused.
LEMMA VanishesAppend ==
    ASSUME Types, NothingVanishes, NEW a \in Actors, NEW f \in Files, NEW row \in Rows,
           Append1(f, row), UNCHANGED backup, phase[a] # "write",
           NEW p, NEW w, NEW torn \in BOOLEAN, GotoChanging(a, p, w, f, FALSE, torn)
    PROVE  NothingVanishes'
<1> DEFINE rows == Appended(file[f], row)
           lost == Range(Append(file[f], row)) \ Range(rows)
           h == Append(history[f], row)
<1>1. /\ Changes(f, rows) /\ history' = [history EXCEPT ![f] = h]
      /\ excused' = [excused EXCEPT ![f] = excused[f] \cup lost]
  BY DEF Append1, Types, Changes
<1>2. /\ file[f] \in Seq(Rows) /\ history[f] \in Seq(Rows)
      /\ DOMAIN h = 1..(Len(history[f]) + 1) /\ DOMAIN history[f] = 1..Len(history[f])
      /\ h[Len(history[f]) + 1] = row /\ Len(history[f]) \in Nat
  BY DEF Types, Lines
<1>3. Range(file[f]) \subseteq Range(Append(file[f], row)) /\ row \in Range(Append(file[f], row))
  <2> DEFINE s == Append(file[f], row)
  <2>1. /\ \A i \in DOMAIN file[f] : i \in DOMAIN s /\ s[i] = file[f][i]
        /\ Len(file[f]) + 1 \in DOMAIN s /\ s[Len(file[f]) + 1] = row
    BY <1>2
  <2> HIDE DEF s
  <2> QED BY <2>1 DEF Range, s
<1>4. Longer(history[f], h)
  BY <1>2, LongerItself
<1>5. file'[f] = rows
  BY <1>1 DEF Types, Changes
<1>6. \A r : r \in Range(Append(file[f], row)) => r \in Range(rows) \/ r \in lost
  OBVIOUS
<1> HIDE DEF rows, lost, h
<1>7. /\ \A g \in Files : Longer(history[g], history'[g])
      /\ history'[f] = h /\ \A g \in Files : g # f => history'[g] = history[g]
  BY <1>1, <1>4, LongerHistories DEF Types
<1>8. (\A g \in Files : excused[g] \subseteq excused'[g]) /\ lost \subseteq excused'[f]
  BY <1>1, ExcusedGrows
<1>9. \A r \in Range(Append(file[f], row)) : r \in Kept(f)'
  BY <1>5, <1>6, <1>8, KeptIn
<1>10. ASSUME NEW g \in Files, NEW i \in DOMAIN history'[g]
       PROVE  i \in DOMAIN history[g] \/ history'[g][i] \in Kept(g)'
  <2>1. CASE g # f
    BY <1>7, <2>1
  <2>2. CASE g = f
    <3>1. i \in 1..Len(history[f]) \/ i = Len(history[f]) + 1
      BY <1>2, <1>7, <2>2
    <3> QED BY <1>2, <1>3, <1>7, <1>9, <2>2, <3>1
  <2> QED BY <2>1, <2>2
<1>11. FALSE \in BOOLEAN /\ \A i \in DOMAIN history[f] :
          Removed(a, f, rows, history[f][i]) => history[f][i] \in Kept(f)'
  BY <1>3, <1>9 DEF Removed
<1>12. Changes(f, rows)
  BY <1>1
<1>13. ASSUME NEW renamed \in BOOLEAN, GotoChanging(a, p, w, f, renamed, torn)
       PROVE  NothingVanishes'
  BY <1>7, <1>8, <1>10, <1>11, <1>12, <1>13, VanishesByChanging
<1>14. FALSE \in BOOLEAN
  OBVIOUS
<1> QED
  BY <1>13, <1>14

\* Nothing vanishes in the actions that append.
LEMMA VanishesAppends ==
    ASSUME Types, ThreadTypes, NothingVanishes, NEW a \in Actors,
           AppendEpisode(a) \/ AppendTask(a) \/ AppendTorn(a)
    PROVE  NothingVanishes'
<1>1. CASE AppendEpisode(a)
  <2>1. /\ Append1("episodic", Fresh(a)) /\ UNCHANGED backup /\ phase[a] # "write"
        /\ GotoChanging(a, "idle", Idle, "episodic", FALSE, FALSE)
    BY <1>1 DEF AppendEpisode
  <2>2. "episodic" \in Files /\ Fresh(a) \in Rows /\ FALSE \in BOOLEAN
    BY DoctorConstants, FreshRow
  <2> QED BY <2>1, <2>2, VanishesAppend
<1>2. CASE AppendTask(a)
  <2>1. /\ Append1("tasks", Fresh(a)) /\ UNCHANGED backup /\ phase[a] # "write"
        /\ GotoChanging(a, "load", req[a], "tasks", FALSE, FALSE)
    BY <1>2 DEF AppendTask
  <2>2. "tasks" \in Files /\ Fresh(a) \in Rows /\ FALSE \in BOOLEAN
    BY DoctorConstants, FreshRow
  <2> QED BY <2>1, <2>2, VanishesAppend
<1>3. CASE AppendTorn(a)
  <2> DEFINE f == Head(req[a].todo)
             row == [Fresh(a) EXCEPT !.kind = "torn"]
  <2>1. /\ Append1(f, row) /\ UNCHANGED backup /\ phase[a] # "write"
        /\ GotoChanging(a, "idle", Idle, f, FALSE, TRUE)
    BY <1>3 DEF AppendTorn
  <2>2. f \in Files
    BY <1>3, ThreadFacts DEF AppendTorn
  <2>3. row \in Rows /\ TRUE \in BOOLEAN
    BY FreshRow
  <2> HIDE DEF f, row
  <2> QED BY <2>1, <2>2, <2>3, VanishesAppend
<1> QED
  BY <1>1, <1>2, <1>3

(***************************************************************************)
(* What a rewrite in place leaves out of a file that it knows: older       *)
(* values of its fact, tasks with enough newer ones, and invalid lines.    *)
(***************************************************************************)
LEMMA RemadeFact ==
    ASSUME Types, "semantic" \in Files, NEW w \in Requests, w.op = "fact",
           NEW i \in DOMAIN history["semantic"],
           history["semantic"][i] \in Range(file["semantic"]),
           history["semantic"][i] \notin Range(Remade(w, file["semantic"]))
    PROVE  Superseded("semantic", history["semantic"] \o <<Row(w.key, "good", w.n)>>, i)
<1> DEFINE h == history["semantic"]
           rows == file["semantic"]
           valid == ValidRows(rows)
           new == Upserted(valid, w.key, w.n)
           fact == Row(w.key, "good", w.n)
           h2 == h \o <<fact>>
<1>1. /\ rows \in Seq(Rows) /\ h \in Seq(Rows) /\ w.key \in Nat /\ w.n \in Nat
      /\ fact.id = w.key /\ fact \in Rows
  <2>1. rows \in Seq(Rows) /\ h \in Seq(Rows)
    BY DEF Types, Lines
  <2>2. w.key \in Nat /\ w.n \in Nat
    BY DEF Requests
  <2> QED BY <2>1, <2>2 DEF Row, Rows
<1>2. /\ i \in DOMAIN h /\ h[i] \in Range(rows) /\ h[i] \notin Range(new)
  BY DEF Remade
<1> HIDE DEF h, rows, fact
<1>3. /\ i \in DOMAIN h2 /\ h2[i] = h[i] /\ Len(h) + 1 \in DOMAIN h2 /\ h2[Len(h) + 1] = fact
      /\ Len(h) + 1 > i
  BY <1>1, <1>2
<1>4. valid \in Seq(Rows) /\ Clean(valid)
  BY <1>1, ValidRowsClean
<1>5. PICK p \in DOMAIN rows : rows[p] = h[i]
  BY <1>2 DEF Range
<1>6. CASE ~Good(h[i])
  BY <1>3, <1>6 DEF Superseded, h, fact
<1>7. CASE Good(h[i])
  <2>0. \E k \in DOMAIN ValidRows(rows) : ValidRows(rows)[k] = rows[p]
    BY <1>1, <1>5, <1>7, ValidRowsClean
  <2> HIDE DEF new
  <2>1. PICK k \in DOMAIN valid : valid[k] = h[i]
    BY <1>5, <2>0
  <2> HIDE DEF valid
  <2>2. valid[k].id = w.key
    <3>1. \A q \in DOMAIN new : new[q] # valid[k]
      BY <1>2, <2>1 DEF Range
    <3>2. \A q \in DOMAIN valid : valid[q].id # w.key => \E j \in DOMAIN new : new[j] = valid[q]
      BY <1>1, <1>4, UpsertedRows DEF new
    <3> QED BY <2>1, <3>1, <3>2
  <2>3. h2[Len(h) + 1].id = h2[i].id
    BY <1>1, <1>3, <2>1, <2>2
  <2> HIDE DEF h2
  <2>4. Superseded("semantic", h2, i)
    BY <1>3, <2>3 DEF Superseded
  <2> QED BY <2>4 DEF h2, h, fact
<1> QED
  BY <1>6, <1>7

\* Likewise for a trim, which leaves the last max_records tasks.
LEMMA RemadeTasks ==
    ASSUME Types, AllTidy, Numbered, "tasks" \in Files \ collided, NEW w \in Requests, w.op = "task",
           NEW i \in DOMAIN history["tasks"],
           history["tasks"][i] \in Range(file["tasks"]),
           history["tasks"][i] \notin Range(Remade(w, file["tasks"]))
    PROVE  Superseded("tasks", history["tasks"], i)
<1> DEFINE h == history["tasks"]
           rows == file["tasks"]
           valid == ValidRows(rows)
           n == Retention["tasks"]
           new == LastRows(valid, n)
<1>1. rows \in Seq(Rows) /\ h \in Seq(Rows) /\ n \in Nat
  BY DoctorConstants DEF Types, Lines
<1>2. /\ i \in DOMAIN h /\ h[i] \in Range(rows) /\ h[i] \notin Range(new)
  BY DEF Remade
<1>3. valid \in Seq(Rows) /\ Clean(valid)
  BY <1>1, ValidRowsClean
<1>4. Known(valid, h) /\ InOrder(valid, h)
  BY TidyValid DEF Tidy
<1>5. \A j, k \in DOMAIN h : h[j] = h[k] => j = k
  BY DEF Numbered, Tasks
<1>6. CASE ~Good(h[i])
  BY <1>6 DEF Superseded
<1>7. CASE Good(h[i])
  <2> HIDE DEF h, rows
  <2>1. PICK p \in DOMAIN rows : rows[p] = h[i]
    BY <1>2 DEF Range
  <2>2. PICK k \in DOMAIN valid : valid[k] = h[i]
    BY <1>1, <1>7, <2>1, ValidRowsClean
  <2> HIDE DEF valid, n
  <2>3. Len(h) - i >= Len(valid) - k
    BY <1>1, <1>2, <1>3, <1>4, <1>5, <2>2, NewerTasks
  <2>4. Len(valid) - k >= n
    <3>1. /\ Cut(valid, n) \in 0..Len(valid) /\ Len(new) = Len(valid) - Cut(valid, n)
          /\ \A q \in 1..(Len(valid) - Cut(valid, n)) : new[q] = valid[q + Cut(valid, n)]
          /\ new \in Seq(Rows)
      BY <1>1, <1>3, LastOfRows
    <3> HIDE DEF new
    <3>2. \A q \in DOMAIN new : new[q] # valid[k]
      BY <1>2, <2>2 DEF Range
    <3>3. DOMAIN new = 1..(Len(valid) - Cut(valid, n))
      BY <3>1
    <3>4. k \in 1..Len(valid) /\ Len(valid) \in Nat
      BY <1>3, <2>2
    <3>5. ~(k > Cut(valid, n))
      <4>1. SUFFICES ASSUME k > Cut(valid, n) PROVE FALSE
        OBVIOUS
      <4> DEFINE c == Cut(valid, n)
                 q == k - c
      <4>2. c \in Nat /\ c <= Len(valid)
        BY <3>1, <3>4
      <4>3. q \in 1..(Len(valid) - c) /\ q + c = k
        <5> HIDE DEF c
        <5> QED BY <3>4, <4>1, <4>2 DEF c
      <4> HIDE DEF q
      <4>4. new[q] = valid[q + c]
        BY <3>1, <4>3
      <4> QED BY <3>2, <3>3, <4>3, <4>4
    <3>6. Cut(valid, n) = IF Len(valid) > n THEN Len(valid) - n ELSE 0
      BY DEF Cut
    <3> QED BY <1>1, <3>4, <3>5, <3>6
  <2>5. Len(h) - i >= n
    <3>1. Len(h) \in Nat /\ i \in Nat /\ Len(valid) \in Nat /\ k \in Nat
      BY <1>1, <1>2, <1>3, <2>2
    <3> QED BY <1>1, <2>3, <2>4, <3>1
  <2> QED BY <2>5 DEF Superseded, h, n
<1> QED
  BY <1>6, <1>7

\* A thread that reads its file loses nothing.
LEMMA VanishesLoad ==
    ASSUME Types, ThreadTypes, NothingVanishes, NEW a \in Actors, Load(a)
    PROVE  NothingVanishes'
<1>1. UNCHANGED <<file, history>> /\ UNCHANGED <<backup, excused>> /\ phase[a] # "write"
  BY DEF Load, disk, ghosts
<1>2. \/ Goto(a, "idle", Idle)
      \/ \E rows, stale : Goto(a, "truncate", [req[a] EXCEPT !.stale = stale, !.rows = rows])
  BY LoadShape, Zenon
<1>3. \E p, w : Goto(a, p, w)
  BY <1>2, Zenon
<1> QED
  BY <1>1, <1>3, VanishesByGoing

(***************************************************************************)
(* A file that is truncated is known, or what it loses is excused.         *)
(***************************************************************************)
LEMMA VanishesTruncate ==
    ASSUME Types, ThreadTypes, AllTidy, Numbered, AllCurrent, NothingVanishes,
           NEW a \in Actors, Truncate(a),
           NEW f, f = Head(req[a].todo), NEW w, w = req[a]
    PROVE  NothingVanishes'
<1> DEFINE rows == <<>>
           fact == IF w.op = "fact" THEN <<Row(w.key, "good", w.n)>> ELSE <<>>
           lost == Dropped(a, file[f], w.rows)
           h == history[f] \o fact
<1>1. /\ phase[a] = "truncate" /\ UNCHANGED backup
      /\ Changes(f, rows)
      /\ GotoChanging(a, "write", w, f, FALSE, FALSE)
  BY DEF Truncate, Changes
<1>2. /\ f \in Files /\ f = IF w.op = "fact" THEN "semantic" ELSE "tasks"
      /\ w \in Requests /\ w.op \in {"fact", "task"}
      /\ w.op = "fact" \/ w.op = "task"
  <2>1. Located(phase[a], w)
    BY DEF ThreadTypes
  <2> QED BY <1>1, <2>1, ThreadFacts DEF Rewriting, Located
<1>3. history' = [history EXCEPT ![f] = h] /\ excused' = [excused EXCEPT ![f] = excused[f] \cup lost]
  BY <1>2 DEF Truncate, Types
<1>4. Current("truncate", w, file, backup)
  BY <1>1 DEF AllCurrent
<1>5. /\ w.rows \in Seq(Rows) /\ w.key \in Nat /\ w.n \in Nat
      /\ history[f] \in Seq(Rows) /\ file[f] \in Seq(Rows) /\ fact \in Seq(Rows)
  <2>1. w.rows \in Seq(Rows) /\ w.key \in Nat /\ w.n \in Nat
    BY <1>2 DEF Requests
  <2>2. history[f] \in Seq(Rows) /\ file[f] \in Seq(Rows)
    BY <1>2 DEF Types, Lines
  <2>3. Row(w.key, "good", w.n) \in Rows
    BY <2>1 DEF Row, Rows
  <2> QED BY <2>1, <2>2, <2>3
<1>6. Longer(history[f], h)
  BY <1>5, LongerItself
<1>7. phase'[a] = "write" /\ req'[a] = w
  <2>1. FALSE \in BOOLEAN
    OBVIOUS
  <2>2. ASSUME NEW renamed \in BOOLEAN, NEW torn \in BOOLEAN,
               GotoChanging(a, "write", w, f, renamed, torn)
        PROVE  phase'[a] = "write" /\ req'[a] = w
    BY <2>2, OthersKeep
  <2> QED BY <1>1, <2>1, <2>2
<1>8. file'[f] = <<>>
  BY <1>1, <1>2 DEF Changes, Types
<1> HIDE DEF h, lost, rows
<1>9. /\ \A g \in Files : Longer(history[g], history'[g])
      /\ history'[f] = h /\ \A g \in Files : g # f => history'[g] = history[g]
  BY <1>2, <1>3, <1>6, LongerHistories DEF Types
<1>10. (\A g \in Files : excused[g] \subseteq excused'[g]) /\ lost \subseteq excused'[f]
  BY <1>2, <1>3, ExcusedGrows
<1>11. \A row \in Range(w.rows) : row \in Kept(f)'
  BY <1>7, PresentRows DEF Kept
<1>12. ASSUME NEW i \in DOMAIN history[f], Removed(a, f, rows, history[f][i])
       PROVE  history[f][i] \in Kept(f)' \/ Superseded(f, history'[f], i)
  <2>1. history[f][i] \in Range(file[f])
    BY <1>1, <1>12 DEF Removed
  <2>2. CASE history[f][i] \in Range(w.rows)
    BY <1>11, <2>2
  <2>3. CASE history[f][i] \notin Range(w.rows) /\ (w.stale \/ f \in collided)
    <3>1. history[f][i] \in lost
      BY <2>1, <2>3 DEF lost, Dropped
    <3> QED BY <1>10, <3>1, KeptIn
  <2>4. CASE history[f][i] \notin Range(w.rows) /\ ~w.stale /\ f \notin collided
    <3>1. w.rows = Remade(w, file[f])
      BY <1>4, <2>4 DEF Current
    <3>2. CASE w.op = "fact"
      <4>1. f = "semantic" /\ h = history["semantic"] \o <<Row(w.key, "good", w.n)>>
        BY <1>2, <3>2 DEF h
      <4>2. Superseded("semantic", history["semantic"] \o <<Row(w.key, "good", w.n)>>, i)
        BY <1>2, <2>1, <2>4, <3>1, <3>2, <4>1, RemadeFact
      <4> QED BY <1>9, <4>1, <4>2
    <3>3. CASE w.op = "task"
      <4>1. f = "tasks"
        BY <1>2, <3>3
      <4>2. Superseded("tasks", history["tasks"], i)
        BY <1>2, <2>1, <2>4, <3>1, <3>3, <4>1, RemadeTasks
      <4> QED BY <1>2, <1>9, <4>1, <4>2, SupersededLater
    <3> QED BY <1>2, <3>2, <3>3
  <2> QED BY <2>2, <2>3, <2>4
<1>13. ASSUME NEW g \in Files, NEW i \in DOMAIN history'[g]
       PROVE  i \in DOMAIN history[g] \/ history'[g][i] \in Kept(g)'
  <2>1. CASE g # f
    BY <1>9, <2>1
  <2>2. CASE g = f /\ w.op # "fact"
    <3>1. history[f] \o <<>> = history[f] /\ fact = <<>>
      BY <1>5, <2>2
    <3> HIDE DEF fact
    <3>2. history'[f] = history[f]
      BY <1>9, <3>1 DEF h
    <3> QED BY <2>2, <3>2
  <2>3. CASE g = f /\ w.op = "fact"
    <3> DEFINE row == Row(w.key, "good", w.n)
    <3>1. row \in Range(w.rows)
      BY <1>4, <2>3 DEF Current, Range
    <3>2. fact = <<row>> /\ i \in DOMAIN (history[f] \o <<row>>)
      BY <1>9, <2>3 DEF h
    <3>3. i \in DOMAIN history[f] \/ (history[f] \o <<row>>)[i] = row
      <4>1. row \in Rows
        BY <1>5 DEF Row, Rows
      <4>2. ASSUME NEW s \in Seq(Rows), NEW r \in Rows, NEW k \in DOMAIN (s \o <<r>>)
            PROVE  k \in DOMAIN s \/ (s \o <<r>>)[k] = r
        OBVIOUS
      <4> HIDE DEF row
      <4> QED BY <1>5, <3>2, <4>1, <4>2
    <3> QED BY <1>9, <1>11, <2>3, <3>1, <3>2, <3>3 DEF h
  <2> QED BY <2>1, <2>2, <2>3
<1>14. ASSUME NEW renamed \in BOOLEAN, NEW torn \in BOOLEAN,
              GotoChanging(a, "write", w, f, renamed, torn)
       PROVE  NothingVanishes'
  <2>1. Changes(f, rows) /\ phase[a] # "write" /\ UNCHANGED backup
    BY <1>1
  <2> QED BY <1>2, <1>9, <1>10, <1>12, <1>13, <1>14, <2>1, VanishesByChanging
<1>15. FALSE \in BOOLEAN
  OBVIOUS
<1> QED
  BY <1>1, <1>14, <1>15

(***************************************************************************)
(* A thread that is not stale writes into an empty file; one that is, has  *)
(* what it overwrites excused.                                             *)
(***************************************************************************)
LEMMA VanishesWrite ==
    ASSUME Types, ThreadTypes, AllCurrent, NothingVanishes, NEW a \in Actors, Write(a),
           NEW f, f = Head(req[a].todo), NEW w, w = req[a]
    PROVE  NothingVanishes'
<1>1. PICK rows :
        /\ rows \in Lines
        /\ w.detached => rows = file[f]
        /\ ~w.detached => rows \in Overwritten(file[f], w.rows)
        /\ file' = [file EXCEPT ![f] = rows]
        /\ excused' = [excused EXCEPT ![f] = excused[f] \cup Dropped(a, file[f] \o w.rows, rows)]
        /\ GotoChanging(a, "idle", Idle, f, FALSE, InvalidCount(rows) > 0)
        /\ f \in Files /\ f \in {"semantic", "tasks"}
        /\ file[f] \in Lines /\ w.rows \in Seq(Rows) /\ Clean(w.rows)
  BY WriteShape
<1> DEFINE lost == Dropped(a, file[f] \o w.rows, rows)
           torn == InvalidCount(rows) > 0
<1>2. /\ excused' = [excused EXCEPT ![f] = excused[f] \cup lost]
      /\ GotoChanging(a, "idle", Idle, f, FALSE, torn)
  BY <1>1, Zenon
<1>3. torn \in BOOLEAN /\ FALSE \in BOOLEAN
  OBVIOUS
<1>4. Changes(f, rows) /\ UNCHANGED backup /\ UNCHANGED history /\ phase[a] = "write"
  BY <1>1 DEF Write, Changes
<1>5. Current("write", w, file, backup)
  BY <1>4 DEF AllCurrent
<1>6. w.detached => w.stale
  BY <1>5 DEF Current
<1>7. ~w.stale => file[f] = <<>>
  BY <1>5 DEF Current
<1>8. f \in Files /\ file[f] \in Lines /\ w.rows \in Seq(Rows) /\ Clean(w.rows)
  BY <1>1
<1>9. ~w.detached => \A i \in DOMAIN w.rows : \E j \in DOMAIN rows : rows[j] = w.rows[i]
  BY <1>1, OverwrittenLines
<1>10. w.stale => lost = Range(file[f] \o w.rows) \ Range(rows)
  BY DEF Dropped
<1>11. Range(file[f]) \cup Range(w.rows) \subseteq Range(file[f] \o w.rows)
  <2> DEFINE x == file[f]
             y == w.rows
  <2>1. x \in Seq(Rows) /\ y \in Seq(Rows)
    BY <1>8 DEF Lines
  <2> HIDE DEF x, y
  <2>2. /\ \A i \in DOMAIN x : i \in DOMAIN (x \o y) /\ (x \o y)[i] = x[i]
        /\ \A i \in DOMAIN y : Len(x) + i \in DOMAIN (x \o y) /\ (x \o y)[Len(x) + i] = y[i]
    BY <2>1
  <2>3. Range(x) \cup Range(y) \subseteq Range(x \o y)
    <3> DEFINE z == x \o y
    <3> HIDE DEF z
    <3>1. /\ \A i \in DOMAIN x : i \in DOMAIN z /\ z[i] = x[i]
          /\ \A i \in DOMAIN y : Len(x) + i \in DOMAIN z /\ z[Len(x) + i] = y[i]
      BY <2>2 DEF z
    <3>2. Range(x) \cup Range(y) \subseteq Range(z)
      BY <3>1 DEF Range
    <3> QED BY <3>2 DEF z
  <2> QED BY <2>3 DEF x, y
<1> HIDE DEF lost, torn
<1>12. (\A g \in Files : excused[g] \subseteq excused'[g]) /\ lost \subseteq excused'[f]
  BY <1>2, <1>8, ExcusedGrows
<1>13. ASSUME NEW i \in DOMAIN history[f], Removed(a, f, rows, history[f][i])
       PROVE  history[f][i] \in Kept(f)'
  <2>1. /\ history[f][i] \notin Range(rows)
        /\ history[f][i] \in Range(file[f]) \cup Range(w.rows)
    BY <1>13 DEF Removed
  <2>2. CASE w.stale
    <3>1. history[f][i] \in lost
      BY <1>10, <1>11, <2>1, <2>2
    <3> QED BY <1>12, <3>1, KeptIn
  <2>3. CASE ~w.stale
    BY <1>6, <1>7, <1>9, <2>1, <2>3 DEF Range
  <2> QED BY <2>2, <2>3
<1>14. \A g \in Files : Longer(history[g], history'[g])
  BY <1>4, SameHistories
<1>15. ASSUME NEW renamed \in BOOLEAN, GotoChanging(a, "idle", Idle, f, renamed, torn)
       PROVE  NothingVanishes'
  <2>1. Head(req[a].todo) = f /\ history' = history
    BY <1>4
  <2> QED BY <1>3, <1>4, <1>8, <1>12, <1>13, <1>14, <1>15, <2>1, VanishesByChanging
<1> QED
  BY <1>2, <1>3, <1>15

(***************************************************************************)
(* A backup replaces one of the same second, whose rows are excused; what  *)
(* the doctor's rename removes is in the backup, or excused.               *)
(***************************************************************************)
LEMMA VanishesBackup ==
    ASSUME Types, ThreadTypes, NothingVanishes, NEW a \in Actors, Backup(a)
    PROVE  NothingVanishes'
<1> DEFINE f == Head(req[a].todo)
           lost == Range(backup[f][now]) \ Range(file[f])
<1>1. /\ phase[a] \in {"repair_backup", "compact_backup"} /\ UNCHANGED <<file, history>>
      /\ backup' = [backup EXCEPT ![f][now] = file[f]]
      /\ \E p : Goto(a, p, req[a])
  BY DEF Backup
<1>2. f \in Files
  BY <1>1, DoctorFacts DEF Doctoring
<1>3. excused' = [excused EXCEPT ![f] = excused[f] \cup lost]
  BY <1>2 DEF Backup, Types
<1> HIDE DEF f, lost
<1>4. (\A g \in Files : excused[g] \subseteq excused'[g]) /\ lost \subseteq excused'[f]
  BY <1>2, <1>3, ExcusedGrows
<1>5. \A g \in Files : \A t \in 0..MaxTime :
         backup'[g][t] = IF g = f /\ t = now THEN file[f] ELSE backup[g][t]
  BY <1>1, <1>2 DEF Types
<1>6. \A g \in Files : \A t \in 0..MaxTime :
         Range(backup[g][t]) \subseteq Range(backup'[g][t]) \cup excused'[g]
  BY <1>4, <1>5 DEF lost
<1> QED
  BY <1>1, <1>4, <1>6, VanishesByGoing

\* Nothing vanishes when the doctor renames a file over the one it has read.
LEMMA VanishesReplace ==
    ASSUME Types, ThreadTypes, AllCurrent, NothingVanishes, NEW a \in Actors,
           RepairWrite(a) \/ CompactWrite(a), NEW f, f = Head(req[a].todo)
    PROVE  NothingVanishes'
<1>1. PICK rows, p : Replacing(a, rows, p)
  BY ReplaceShape
<1>2. phase[a] \in {"repair_write", "compact_write"} /\ phase[a] # "write" /\ phase[a] \in Doctoring
  BY ReplaceShape DEF Doctoring
<1>3. f \in Files
  BY <1>2, DoctorFacts
<1> DEFINE w == HasReplaced(a, rows)
           lost == Dropped(a, file[f], rows)
<1>4. /\ Changes(f, rows) /\ UNCHANGED backup /\ UNCHANGED history
      /\ GotoChanging(a, p, w, f, TRUE, FALSE)
  BY <1>1 DEF Replacing, Changes
<1>5. excused' = [excused EXCEPT ![f] = excused[f] \cup lost]
  BY <1>1 DEF Replacing
<1> HIDE DEF w, lost
<1>6. (\A g \in Files : excused[g] \subseteq excused'[g]) /\ lost \subseteq excused'[f]
  BY <1>3, <1>5, ExcusedGrows
<1>7. ASSUME NEW i \in DOMAIN history[f], Removed(a, f, rows, history[f][i])
      PROVE  history[f][i] \in Kept(f)'
  <2>1. history[f][i] \in Range(file[f]) \ Range(rows)
    BY <1>2, <1>7 DEF Removed
  <2>2. CASE req[a].stale
    <3>1. history[f][i] \in lost
      BY <2>1, <2>2 DEF lost, Dropped
    <3> QED BY <1>6, <3>1, KeptIn
  <2>3. CASE ~req[a].stale
    <3>1. PICK t \in 0..MaxTime : backup[f][t] = file[f]
      BY <1>2, <2>3 DEF AllCurrent, Current
    <3>2. backup'[f][t] = file[f]
      BY <1>4, <3>1
    <3> QED BY <2>1, <3>2, PresentRows DEF Kept
  <2> QED BY <2>2, <2>3
<1>8. \A g \in Files : Longer(history[g], history'[g])
  BY <1>4, SameHistories
<1>9. ASSUME NEW renamed \in BOOLEAN, NEW torn \in BOOLEAN, GotoChanging(a, p, w, f, renamed, torn)
      PROVE  NothingVanishes'
  <2>1. history' = history /\ Changes(f, rows) /\ UNCHANGED backup
    BY <1>4
  <2> QED BY <1>2, <1>3, <1>6, <1>7, <1>8, <1>9, <2>1, VanishesByChanging
<1>10. TRUE \in BOOLEAN /\ FALSE \in BOOLEAN
  OBVIOUS
<1> QED
  BY <1>4, <1>9, <1>10

\* The other steps of the doctor and of the jobs, requests and crashes.
LEMMA VanishesElsewhere ==
    ASSUME Types, ThreadTypes, NothingVanishes, NEW a \in Actors,
           Read(a) \/ Report(a) \/ LoadStatus(a) \/ SaveStatus(a) \/ Crash(a) \/ Request(a)
    PROVE  NothingVanishes'
<1>1. ASSUME NEW p, NEW w, Goto(a, p, w), UNCHANGED <<file, history>>,
             UNCHANGED <<backup, excused>>, phase[a] # "write"
      PROVE  NothingVanishes'
  BY <1>1, VanishesByGoing
<1>2. ASSUME NEW r, NextArtifact(a, r) PROVE \E p, w : Goto(a, p, w)
  <2> DEFINE left == [r EXCEPT !.todo = Tail(r.todo), !.rows = <<>>, !.changed = FALSE]
  <2>1. Goto(a, "read", left) \/ Goto(a, "load_status", left) \/ Goto(a, "idle", Idle)
    BY <1>2 DEF NextArtifact
  <2> HIDE DEF left
  <2> QED BY <2>1
<1>3. CASE Read(a)
  <2>1. UNCHANGED <<file, history>> /\ UNCHANGED <<backup, excused>> /\ phase[a] # "write"
    BY <1>3 DEF Read, disk, ghosts
  <2>2. \E p, w : Goto(a, p, w)
    BY <1>2, <1>3, ReadShape
  <2> QED BY <1>1, <2>1, <2>2
<1>4. CASE Report(a)
  <2>1. UNCHANGED <<file, history>> /\ UNCHANGED <<backup, excused>> /\ phase[a] # "write"
        /\ NextArtifact(a, Counted(a, req[a]))
    BY <1>4, ReportShape
  <2> QED BY <1>1, <1>2, <2>1
<1>5. CASE LoadStatus(a)
  <2> DEFINE w == [req[a] EXCEPT !.status = status]
  <2>1. /\ UNCHANGED <<file, history>> /\ UNCHANGED <<backup, excused>> /\ phase[a] # "write"
        /\ Goto(a, "save_status", w)
    BY <1>5 DEF LoadStatus, disk, ghosts
  <2> HIDE DEF w
  <2> QED BY <1>1, <2>1
<1>6. CASE SaveStatus(a)
  <2> DEFINE w == [Idle EXCEPT !.op = req[a].op, !.n = req[a].n]
  <2>1. /\ UNCHANGED <<file, history>> /\ UNCHANGED <<backup, excused>> /\ phase[a] # "write"
        /\ Goto(a, "episode", w)
    BY <1>6 DEF SaveStatus, disk
  <2> HIDE DEF w
  <2> QED BY <1>1, <2>1
<1>7. CASE Request(a)
  <2>1. /\ UNCHANGED <<file, history>> /\ UNCHANGED <<backup, excused>> /\ phase[a] # "write"
        /\ \E p, w : BeginsAs(a, p, w)
    BY <1>7, BeginShape DEF disk, ghosts
  <2> QED BY <1>1, <2>1 DEF BeginsAs
<1>8. CASE Crash(a)
  <2> DEFINE f == Head(req[a].todo)
  <2>1. Goto(a, "idle", Idle) /\ UNCHANGED <<file, history>> /\ UNCHANGED backup
    BY <1>8, CrashShape
  <2>2. CASE phase[a] # "write" /\ excused' = excused
    BY <1>1, <2>1, <2>2
  <2>3. CASE phase[a] = "write" /\ f \in Files
             /\ excused' = [excused EXCEPT ![f] = excused[f] \cup Range(req[a].rows)]
    <3> DEFINE lost == Range(req[a].rows)
    <3>1. (\A g \in Files : excused[g] \subseteq excused'[g]) /\ lost \subseteq excused'[f]
      <4> HIDE DEF f, lost
      <4> QED BY <2>3, ExcusedGrows DEF lost
    <3> QED BY <2>1, <3>1, VanishesByGoing
  <2> QED BY <1>8, <2>2, <2>3, CrashShape
<1> QED
  BY <1>3, <1>4, <1>5, <1>6, <1>7, <1>8

\* NothingVanishes through every step.
LEMMA VanishesStep ==
    ASSUME Types, ThreadTypes, AllTidy, Numbered, AllCurrent, NothingVanishes, [Next]_vars
    PROVE  NothingVanishes'
<1>1. CASE UNCHANGED vars
  BY <1>1 DEF vars, disk, ghosts, NothingVanishes, Present, Writers, Holds
<1>2. CASE Tick
  BY <1>2 DEF Tick, disk, ghosts, NothingVanishes, Present, Writers, Holds
<1>3. ASSUME NEW a \in Actors, Step(a) PROVE NothingVanishes'
  BY <1>3, VanishesAppends, VanishesLoad, VanishesTruncate, VanishesWrite, VanishesBackup,
     VanishesReplace, VanishesElsewhere DEF Step
<1>4. ASSUME NEW a \in Actors, Request(a) \/ Crash(a) PROVE NothingVanishes'
  BY <1>4, VanishesElsewhere
<1> QED
  BY <1>1, <1>2, <1>3, <1>4 DEF Next

\* Nothing has vanished to begin with.
LEMMA VanishesInit == Init => NothingVanishes
<1> SUFFICES ASSUME Init, NEW f \in Files, NEW i \in DOMAIN history[f]
             PROVE  history[f][i] \in Kept(f)
  BY VanishesIf
<1>1. history = file
  BY DEF Init
<1>2. history[f][i] \in Range(file[f])
  BY <1>1 DEF Range
<1> QED
  BY <1>2, PresentRows DEF Kept

(***************************************************************************)
(* No row of a file vanishes, whatever the writers, the doctor, the jobs   *)
(* and the crashes do, except as NothingVanishes says: the doctor renames  *)
(* a file only behind a backup of what it read (doctor.py,                 *)
(* _write_jsonl_atomic), and a store that rewrites its file puts back all  *)
(* of it that is still of use.                                             *)
(***************************************************************************)
THEOREM DoctorLosesNothing == Spec => []NothingVanishes
<1> DEFINE IInv == /\ Types /\ ThreadTypes
                   /\ AllTidy /\ Numbered /\ AllCurrent
                   /\ NothingVanishes
<1>1. Init => IInv
  BY TypesInit, TidyInit, NumberedInit, CurrentInit, VanishesInit
<1>2. IInv /\ [Next]_vars => IInv'
  BY TypesStep, TidyStep, NumberedStep, CurrentStep, VanishesStep
<1>3. IInv => NothingVanishes
  OBVIOUS
<1> QED
  BY <1>1, <1>2, <1>3, PTL DEF Spec
=============================================================================
