------------------------- MODULE ContentOrderProofs -------------------------
(***************************************************************************)
(* Proofs about ContentOrder: the list that sorts the rows, and what a     *)
(* reorder and a creation leave.                                           *)
(***************************************************************************)
EXTENDS ContentOrder, FiniteSetTheorems, FunctionTheorems, SequenceTheorems, TLAPS

-------------------------------------------------------------------------------
(* Numbers and finite sets.                                                 *)

\* A non-empty set of naturals has a least element.
LEMMA LeastMember ==
  ASSUME NEW S \in SUBSET Nat, S # {}
  PROVE  /\ Min(S) \in S
         /\ \A n \in S : Min(S) <= n
<1>1. PICK m \in S : \A n \in S : ~ (<<n, m>> \in OpToRel(<, Nat))
  BY NatLessThanWellFounded, WFMin
<1>2. ASSUME NEW n \in S
      PROVE  m <= n
  <2>1. SUFFICES ASSUME n < m
                 PROVE  FALSE
    OBVIOUS
  <2>2. <<n, m>> \in Nat \X Nat /\ <<n, m>>[1] = n /\ <<n, m>>[2] = m
    OBVIOUS
  <2>3. <<n, m>> \in OpToRel(<, Nat)
    BY <2>1, <2>2 DEF OpToRel
  <2>4. QED
    BY <1>1, <2>3
<1>3. QED
  BY <1>2 DEF Min

\* A non-empty set of naturals with a bound has a greatest element.
LEMMA GreatestMember ==
  ASSUME NEW S \in SUBSET Nat, S # {}, NEW b \in Nat, \A n \in S : n <= b
  PROVE  /\ Max(S) \in S
         /\ \A n \in S : n <= Max(S)
<1> DEFINE T == {c \in Nat : \A n \in S : n <= c}
<1>1. T \in SUBSET Nat /\ T # {}
  OBVIOUS
<1> DEFINE m == Min(T)
<1>2. m \in T /\ \A c \in T : m <= c
  BY <1>1, LeastMember
<1>3. m \in S
  <2>1. CASE m = 0
    <3>1. PICK n \in S : TRUE
      OBVIOUS
    <3>2. n = 0
      BY <1>2, <2>1, <3>1
    <3>3. QED
      BY <3>1, <3>2, <2>1
  <2>2. CASE m # 0
    <3>1. m - 1 \in Nat /\ m - 1 \notin T
      BY <1>2, <2>2
    <3>2. PICK n \in S : ~ (n <= m - 1)
      BY <3>1
    <3>3. n = m
      BY <3>2, <1>2
    <3>4. QED
      BY <3>3
  <2>3. QED
    BY <2>1, <2>2
<1>4. QED
  BY <1>2, <1>3 DEF Max

LEMMA SameFunction ==
  ASSUME NEW S, NEW T, NEW f \in [S -> T], NEW g \in [S -> T], \A x \in S : f[x] = g[x]
  PROVE  f = g
OBVIOUS

LEMMA SlugsFinite == IsFiniteSet(Slugs) /\ Cardinality(Slugs) = NumSlugs
BY OrderAssumption, FS_Interval DEF Slugs

LEMMA PresentFinite ==
  ASSUME NEW o
  PROVE  /\ IsFiniteSet(Present(o))
         /\ Cardinality(Present(o)) \in Nat
         /\ Cardinality(Present(o)) <= NumSlugs
<1>1. Present(o) \in SUBSET Slugs
  BY DEF Present
<1>2. QED
  BY <1>1, SlugsFinite, FS_Subset, FS_CardinalityType

-------------------------------------------------------------------------------
(* The list in display order.                                               *)

Orders == [Slugs -> Nat]

LEMMA BeforeOrder ==
  ASSUME NEW o \in Orders
  PROVE  /\ \A s \in Slugs : ~ Before(o, s, s)
         /\ \A s, t \in Slugs : s = t \/ Before(o, s, t) \/ Before(o, t, s)
         /\ \A s, t, u \in Slugs : Before(o, s, t) /\ Before(o, t, u) => Before(o, s, u)
<1>1. \A s \in Slugs : s \in Nat /\ o[s] \in Nat
  BY OrderAssumption DEF Orders, Slugs
<1>2. QED
  BY <1>1 DEF Before

\* The place of a row: how many rows are there up to it.
Below(o, s) == {t \in Present(o) : t = s \/ Before(o, t, s)}

Rank(o, s) == Cardinality(Below(o, s))

Sorted(o, rows) == \A i, j \in DOMAIN rows : i < j => Before(o, rows[i], rows[j])

LEMMA RankGrows ==
  ASSUME NEW o \in Orders, NEW s \in Present(o), NEW t \in Present(o), Before(o, s, t)
  PROVE  Rank(o, s) < Rank(o, t)
<1>1. s \in Slugs /\ t \in Slugs /\ ~ Before(o, t, t) /\ ~ Before(o, t, s)
  BY BeforeOrder DEF Present
<1>2. Below(o, s) \subseteq Below(o, t)
  BY <1>1, BeforeOrder DEF Below, Present
<1>3. t \in Below(o, t) /\ t \notin Below(o, s)
  BY <1>1 DEF Below
<1>4. IsFiniteSet(Below(o, t)) /\ IsFiniteSet(Below(o, s))
  BY PresentFinite, FS_Subset DEF Below
<1>5. Rank(o, s) \in Nat /\ Rank(o, t) \in Nat
  BY <1>4, FS_CardinalityType DEF Rank
<1>6. Rank(o, s) <= Rank(o, t) /\ Rank(o, s) # Rank(o, t)
  BY <1>2, <1>3, <1>4, FS_Subset DEF Rank
<1>7. QED
  BY <1>5, <1>6

LEMMA RankType ==
  ASSUME NEW o \in Orders, NEW s \in Present(o)
  PROVE  Rank(o, s) \in 1 .. Cardinality(Present(o))
<1>1. IsFiniteSet(Below(o, s)) /\ Rank(o, s) <= Cardinality(Present(o))
  BY PresentFinite, FS_Subset DEF Below, Rank
<1>2. s \in Below(o, s)
  BY DEF Below
<1>3. Rank(o, s) \in Nat /\ Rank(o, s) # 0
  BY <1>1, <1>2, FS_CardinalityType, FS_EmptySet DEF Rank
<1>4. QED
  BY <1>1, <1>3, PresentFinite

\* Every place is taken by one row.
LEMMA RankOnto ==
  ASSUME NEW o \in Orders, NEW i \in 1 .. Cardinality(Present(o))
  PROVE  \E s \in Present(o) : Rank(o, s) = i
<1> DEFINE P == Present(o)
           n == Cardinality(P)
           f == [s \in P |-> Rank(o, s)]
<1>1. f \in [P -> 1 .. n]
  BY RankType
<1>2. ASSUME NEW s \in P, NEW t \in P, f[s] = f[t]
      PROVE  s = t
  <2>1. s \in Slugs /\ t \in Slugs
    BY DEF Present
  <2>2. Rank(o, s) = Rank(o, t) /\ Rank(o, s) \in Nat
    BY <1>2, RankType
  <2>3. ~ Before(o, s, t) /\ ~ Before(o, t, s)
    BY <2>2, RankGrows, RankType
  <2>4. QED
    BY <2>1, <2>3, BeforeOrder
<1>3. f \in Injection(P, 1 .. n)
  BY <1>1, <1>2, Fun_IsInj
<1>4. n \in Nat /\ IsFiniteSet(1 .. n) /\ Cardinality(1 .. n) = n
  BY PresentFinite, FS_Interval
<1>5. f \in Surjection(P, 1 .. n)
  BY <1>3, <1>4, FS_Injection
<1>6. \A t \in 1 .. n : \E s \in P : f[s] = t
  BY <1>5 DEF Surjection
<1>7. QED
  BY <1>6

\* In a sorted list of all rows each row has its place.
LEMMA SortedRank ==
  ASSUME NEW o \in Orders,
         NEW rows \in [1 .. Cardinality(Present(o)) -> Present(o)], Sorted(o, rows)
  PROVE  /\ Range(rows) = Present(o)
         /\ \A i, j \in DOMAIN rows : rows[i] = rows[j] => i = j
         /\ \A i \in DOMAIN rows : Rank(o, rows[i]) = i
<1> DEFINE P == Present(o)
           n == Cardinality(P)
<1>1. n \in Nat /\ IsFiniteSet(P) /\ IsFiniteSet(1 .. n) /\ Cardinality(1 .. n) = n
  BY PresentFinite, FS_Interval
<1>2. \A i \in 1 .. n : rows[i] \in P /\ rows[i] \in Slugs
  BY DEF Present
<1>3. ASSUME NEW i \in 1 .. n, NEW j \in 1 .. n, rows[i] = rows[j]
      PROVE  i = j
  <2>1. ~ (i < j) /\ ~ (j < i)
    BY <1>2, <1>3, BeforeOrder DEF Sorted
  <2>2. QED
    BY <2>1
<1>4. rows \in Injection(1 .. n, P)
  BY <1>3, Fun_IsInj
<1>5. rows \in Surjection(1 .. n, P)
  BY <1>1, <1>4, FS_Injection
<1>6. Range(rows) = P /\ \A t \in P : \E j \in 1 .. n : rows[j] = t
  BY <1>5 DEF Surjection, Range
<1>7. ASSUME NEW i \in 1 .. n
      PROVE  Rank(o, rows[i]) = i
  <2> DEFINE g == [j \in 1 .. i |-> rows[j]]
  <2>1. 1 .. i \subseteq 1 .. n
    BY <1>1
  <2>2. \A j \in 1 .. n : (rows[j] = rows[i] \/ Before(o, rows[j], rows[i])) <=> j \in 1 .. i
    <3>1. SUFFICES ASSUME NEW j \in 1 .. n
                   PROVE  (rows[j] = rows[i] \/ Before(o, rows[j], rows[i])) <=> j \in 1 .. i
      OBVIOUS
    <3>2. CASE j < i
      BY <3>2, <1>1 DEF Sorted
    <3>3. CASE j = i
      BY <3>3, <1>1
    <3>4. CASE i < j
      <4>1. Before(o, rows[i], rows[j])
        BY <3>4 DEF Sorted
      <4>2. ~ (rows[j] = rows[i]) /\ ~ Before(o, rows[j], rows[i])
        BY <4>1, <1>2, BeforeOrder
      <4>3. QED
        BY <4>2, <3>4
    <3>5. QED
      BY <3>2, <3>3, <3>4, <1>1
  <2>3. Below(o, rows[i]) = {rows[j] : j \in 1 .. i}
    <3>1. ASSUME NEW t \in Below(o, rows[i])
          PROVE  t \in {rows[j] : j \in 1 .. i}
      <4>1. PICK j \in 1 .. n : rows[j] = t
        BY <1>6 DEF Below
      <4>2. QED
        BY <4>1, <2>2 DEF Below
    <3>2. ASSUME NEW j \in 1 .. i
          PROVE  rows[j] \in Below(o, rows[i])
      BY <2>1, <2>2, <1>2 DEF Below
    <3>3. QED
      BY <3>1, <3>2
  <2>4. g \in Bijection(1 .. i, Below(o, rows[i]))
    <3>1. g \in [1 .. i -> Below(o, rows[i])]
      BY <2>3
    <3>2. \A a, b \in 1 .. i : g[a] = g[b] => a = b
      BY <1>3, <2>1
    <3>3. \A t \in Below(o, rows[i]) : \E a \in 1 .. i : g[a] = t
      BY <2>3
    <3>4. QED
      BY <3>1, <3>2, <3>3, Fun_IsBij
  <2>5. ExistsBijection(1 .. i, Below(o, rows[i]))
    BY <2>4 DEF ExistsBijection
  <2>6. IsFiniteSet(1 .. i) /\ Cardinality(1 .. i) = i
    BY <1>1, FS_Interval
  <2>7. QED
    BY <2>5, <2>6, FS_Bijection DEF Rank
<1>8. QED
  BY <1>3, <1>6, <1>7

\* There is a list in display order, and only one.
LEMMA DisplaySorts ==
  ASSUME NEW o \in Orders
  PROVE  /\ Display(o) \in [1 .. Cardinality(Present(o)) -> Present(o)]
         /\ Sorted(o, Display(o))
<1> DEFINE n == Cardinality(Present(o))
           rows == [i \in 1 .. n |-> CHOOSE s \in Present(o) : Rank(o, s) = i]
<1>1. \A i \in 1 .. n : rows[i] \in Present(o) /\ Rank(o, rows[i]) = i
  BY RankOnto
<1>2. rows \in [1 .. n -> Present(o)]
  BY <1>1
<1>3. ASSUME NEW i \in 1 .. n, NEW j \in 1 .. n, i < j
      PROVE  Before(o, rows[i], rows[j])
  <2>1. rows[i] \in Slugs /\ rows[j] \in Slugs
    BY <1>1 DEF Present
  <2>2. rows[i] # rows[j]
    BY <1>1, <1>3
  <2>3. ~ Before(o, rows[j], rows[i])
    <3>1. SUFFICES ASSUME Before(o, rows[j], rows[i])
                   PROVE  FALSE
      OBVIOUS
    <3>2. Rank(o, rows[j]) < Rank(o, rows[i])
      BY <3>1, <1>1, RankGrows
    <3>3. QED
      BY <3>2, <1>1, <1>3, PresentFinite
  <2>4. QED
    BY <2>1, <2>2, <2>3, BeforeOrder
<1>4. \E r \in [1 .. n -> Present(o)] :
        \A i, j \in DOMAIN r : i < j => Before(o, r[i], r[j])
  BY <1>2, <1>3
<1>5. QED
  BY <1>4 DEF Display, Sorted

LEMMA DisplayUnique ==
  ASSUME NEW o \in Orders, NEW n \in Nat, n = Cardinality(Present(o)),
         NEW rows \in [1 .. n -> Present(o)], Sorted(o, rows)
  PROVE  Display(o) = rows
<1> DEFINE d == Display(o)
<1>1. d \in [1 .. n -> Present(o)] /\ Sorted(o, d)
  BY DisplaySorts
<1>2. ASSUME NEW i \in 1 .. n
      PROVE  d[i] = rows[i]
  <2>1. Rank(o, d[i]) = i /\ Rank(o, rows[i]) = i
    BY <1>1, SortedRank
  <2>2. PICK j \in 1 .. n : rows[j] = d[i]
    <3>1. Range(rows) = Present(o) /\ d[i] \in Present(o)
      BY <1>1, SortedRank
    <3>2. QED
      BY <3>1 DEF Range
  <2>3. Rank(o, rows[j]) = j
    BY SortedRank
  <2>4. QED
    BY <2>1, <2>2, <2>3
<1> HIDE DEF d
<1>3. d = rows
  BY <1>1, <1>2
<1>4. QED
  BY <1>3 DEF d

-------------------------------------------------------------------------------
(* Lists of rows.                                                           *)

LEMMA ListLength ==
  ASSUME NEW n \in Nat, NEW P, NEW rows \in [1 .. n -> P]
  PROVE  rows \in Seq(P) /\ Len(rows) = n /\ DOMAIN rows = 1 .. n
<1>1. rows \in Seq(P)
  BY SeqDef
<1>2. DOMAIN rows = 1 .. Len(rows) /\ Len(rows) \in Nat
  BY <1>1, LenProperties
<1>3. DOMAIN rows = 1 .. n
  OBVIOUS
<1>4. QED
  BY <1>1, <1>2, <1>3

\* Every row of P once.
Lists1(P) ==
  {rows \in [1 .. Cardinality(P) -> P] :
     Range(rows) = P /\ \A i, j \in DOMAIN rows : rows[i] = rows[j] => i = j}

LEMMA PlaceOf ==
  ASSUME NEW n \in Nat, NEW P, n = Cardinality(P), NEW rows \in Lists1(P)
  PROVE  /\ rows \in [1 .. n -> P]
         /\ \A s \in P : Position(rows, s) \in 1 .. n /\ rows[Position(rows, s)] = s
         /\ \A i \in 1 .. n : rows[i] \in P /\ Position(rows, rows[i]) = i
<1>1. rows \in [1 .. n -> P] /\ Range(rows) = P
  BY DEF Lists1
<1>2. DOMAIN rows = 1 .. n
  BY <1>1
<1>3. ASSUME NEW s \in P
      PROVE  Position(rows, s) \in 1 .. n /\ rows[Position(rows, s)] = s
  <2>1. \E i \in DOMAIN rows : rows[i] = s
    BY <1>1 DEF Range
  <2>2. QED
    BY <2>1, <1>2 DEF Position
<1>4. \A i \in 1 .. n : rows[i] \in P
  BY <1>1
<1>5. \A i, j \in 1 .. n : rows[i] = rows[j] => i = j
  BY <1>2 DEF Lists1
<1>6. ASSUME NEW i \in 1 .. n
      PROVE  Position(rows, rows[i]) = i
  BY <1>3, <1>4, <1>5
<1>7. QED
  BY <1>1, <1>3, <1>4, <1>6

LEMMA DisplayLists ==
  ASSUME NEW o \in Orders
  PROVE  Display(o) \in Lists1(Present(o))
<1>1. Display(o) \in [1 .. Cardinality(Present(o)) -> Present(o)] /\ Sorted(o, Display(o))
  BY DisplaySorts
<1>2. QED
  BY <1>1, SortedRank DEF Lists1

\* A list that a client may ask for and that names the rows names each once.
LEMMA AskedLists ==
  ASSUME NEW P, IsFiniteSet(P), NEW n \in Nat, n = Cardinality(P), NEW m \in Nat,
         NEW want \in [1 .. m -> Slugs], Len(want) = n, Range(want) = P
  PROVE  want \in Lists1(P)
<1>1. m = n
  BY ListLength
<1>2. want \in [1 .. n -> P]
  BY <1>1 DEF Range
<1>3. want \in Surjection(1 .. n, P)
  BY <1>2 DEF Range, Surjection
<1>4. IsFiniteSet(1 .. n) /\ Cardinality(1 .. n) = n
  BY FS_Interval
<1>5. want \in Injection(1 .. n, P)
  BY <1>3, <1>4, FS_Surjection
<1>6. \A i, j \in 1 .. n : want[i] = want[j] => i = j
  BY <1>5, Fun_InjectionProperties
<1>7. QED
  BY <1>1, <1>2, <1>6 DEF Lists1

\* A row put into a list at its place, and taken out of it again.
Inserted(rows, n, k, s) ==
  [i \in 1 .. n + 1 |-> IF i <= k THEN rows[i] ELSE IF i = k + 1 THEN s ELSE rows[i - 1]]

LEMMA InsertedTypes ==
  ASSUME NEW P, NEW s, s \notin P, NEW n \in Nat, NEW rows \in [1 .. n -> P], NEW k \in 0 .. n
  PROVE  /\ Inserted(rows, n, k, s) \in [1 .. n + 1 -> P \union {s}]
         /\ Position(Inserted(rows, n, k, s), s) = k + 1
<1> DEFINE after == Inserted(rows, n, k, s)
<1>1. after \in [1 .. n + 1 -> P \union {s}]
  BY DEF Inserted
<1>2. \A i \in 1 .. n + 1 : after[i] = s <=> i = k + 1
  BY DEF Inserted
<1>3. DOMAIN after = 1 .. n + 1
  BY <1>1
<1>4. k + 1 \in 1 .. n + 1
  OBVIOUS
<1> HIDE DEF after
<1>5. Position(after, s) = k + 1
  BY <1>2, <1>3, <1>4 DEF Position
<1>6. QED
  BY <1>1, <1>5 DEF after

LEMMA InsertedRemoved ==
  ASSUME NEW P, NEW s, s \notin P, NEW n \in Nat, NEW rows \in [1 .. n -> P], NEW k \in 0 .. n
  PROVE  RemoveAt(Inserted(rows, n, k, s), k + 1) = rows
<1> DEFINE after == Inserted(rows, n, k, s)
           Q == P \union {s}
           left == SubSeq(after, 1, k)
           right == SubSeq(after, k + 2, n + 1)
<1>1. after \in [1 .. n + 1 -> Q] /\ after \in Seq(Q) /\ Len(after) = n + 1
  BY InsertedTypes, ListLength
<1>2. \A i \in 1 .. n + 1 :
        after[i] = IF i <= k THEN rows[i] ELSE IF i = k + 1 THEN s ELSE rows[i - 1]
  BY DEF Inserted
<1> HIDE DEF after
<1>3. /\ left \in Seq(Q) /\ Len(left) = k
      /\ \A i \in 1 .. k : left[i] = after[i]
  <2>1. \A i \in 1 .. k : after[i] \in Q
    BY <1>1
  <2>2. /\ left \in Seq(Q)
        /\ Len(left) = IF 1 <= k THEN k - 1 + 1 ELSE 0
        /\ \A i \in 1 .. k - 1 + 1 : left[i] = after[1 + i - 1]
    BY <2>1, SubSeqProperties
  <2>3. QED
    BY <2>2
<1>4. /\ right \in Seq(Q) /\ Len(right) = n - k
      /\ \A i \in 1 .. n - k : right[i] = after[k + 1 + i]
  <2>1. \A i \in k + 2 .. n + 1 : after[i] \in Q
    BY <1>1
  <2>2. /\ right \in Seq(Q)
        /\ Len(right) = IF k + 2 <= n + 1 THEN n + 1 - (k + 2) + 1 ELSE 0
        /\ \A i \in 1 .. n + 1 - (k + 2) + 1 : right[i] = after[k + 2 + i - 1]
    BY <2>1, SubSeqProperties, SMTT(30)
  <2>3. QED
    BY <2>2
<1> HIDE DEF left, right, Q
<1>5. /\ left \o right \in Seq(Q) /\ Len(left \o right) = n
      /\ \A i \in 1 .. n : (left \o right)[i] = IF i <= k THEN left[i] ELSE right[i - k]
  <2>1. left \in Seq(Q) /\ right \in Seq(Q) /\ Len(left) + Len(right) = n
    BY <1>3, <1>4
  <2>2. /\ left \o right \in Seq(Q) /\ Len(left \o right) = Len(left) + Len(right)
        /\ \A i \in 1 .. Len(left) + Len(right) :
             (left \o right)[i] = IF i <= Len(left) THEN left[i] ELSE right[i - Len(left)]
    BY <2>1, ConcatProperties
  <2>3. QED
    BY <2>1, <2>2, <1>3
<1>6. ASSUME NEW i \in 1 .. n
      PROVE  (left \o right)[i] = rows[i]
  <2>1. CASE i <= k
    <3>1. (left \o right)[i] = left[i] /\ left[i] = after[i]
      BY <2>1, <1>3, <1>5
    <3>2. after[i] = rows[i]
      BY <2>1, <1>2
    <3>3. QED
      BY <3>1, <3>2
  <2>2. CASE ~ (i <= k)
    <3>1. i - k \in 1 .. n - k /\ k + 1 + (i - k) = i + 1 /\ i + 1 \in 1 .. n + 1
      BY <2>2
    <3>2. (left \o right)[i] = right[i - k]
      BY <2>2, <1>5
    <3>3. right[i - k] = after[i + 1]
      BY <3>1, <1>4
    <3>4. after[i + 1] = rows[i]
      BY <3>1, <2>2, <1>2
    <3>5. QED
      BY <3>2, <3>3, <3>4
  <2>3. QED
    BY <2>1, <2>2
<1>7. rows \in Seq(Q) /\ Len(rows) = n
  <2>1. rows \in [1 .. n -> Q]
    BY DEF Q
  <2>2. QED
    BY <2>1, ListLength
<1>8. left \o right = rows
  BY <1>5, <1>6, <1>7, SeqEqual
<1>9. k + 1 - 1 = k /\ k + 1 + 1 = k + 2
  OBVIOUS
<1>10. RemoveAt(after, k + 1) = left \o right
  BY <1>1, <1>9 DEF RemoveAt, left, right
<1>11. QED
  BY <1>8, <1>10 DEF after

-------------------------------------------------------------------------------
(* The sort orders a request is to write.                                   *)

OrderType == order \in [Slugs -> 0 .. Absent]

LEMMA OrderIsOrder ==
  ASSUME OrderType
  PROVE  /\ order \in Orders
         /\ \A s \in Present(order) : order[s] \in 0 .. MaxSort
BY OrderAssumption DEF OrderType, Orders, Present, Absent

LEMMA IndicesIs ==
  ASSUME OrderType, NEW want \in Lists1(Present(order))
  PROVE  /\ Indices(want) \in [Slugs -> 0 .. Absent]
         /\ \A s \in Present(order) :
              Indices(want)[s] = Position(want, s) - 1 /\ Indices(want)[s] \in 0 .. MaxSort
<1> DEFINE n == Cardinality(Present(order))
<1>1. n \in Nat /\ n <= MaxSort + 1 /\ MaxSort \in Nat
  BY PresentFinite, OrderAssumption
<1>2. \A s \in Present(order) : Position(want, s) \in 1 .. n
  BY <1>1, PlaceOf
<1> HIDE DEF n
<1>3. \A s \in Slugs : Indices(want)[s] = IF s \in Present(order) THEN Position(want, s) - 1 ELSE 0
  BY DEF Indices
<1>4. \A s \in Slugs : Indices(want)[s] \in 0 .. Absent
  BY <1>1, <1>2, <1>3 DEF Absent
<1>5. Indices(want) \in [Slugs -> 0 .. Absent]
  BY <1>4 DEF Indices
<1>6. \A s \in Present(order) : s \in Slugs
  BY DEF Present
<1>7. QED
  BY <1>1, <1>2, <1>3, <1>5, <1>6

\* A new experience entry goes behind those that are not later; the rest moves
\* down one.
Placed(rows, n, k, s, target) ==
  /\ k \in 0 .. n
  /\ target[s] = k
  /\ \A t \in Present(order) :
       target[t] = IF Position(rows, t) <= k THEN Position(rows, t) - 1 ELSE Position(rows, t)
  /\ \A i \in 1 .. k : When[rows[i]] <= When[s]
  /\ k < n => When[rows[k + 1]] > When[s]

LEMMA PlacementIs ==
  ASSUME OrderType, NEW s \in Slugs, s \notin Present(order)
  PROVE  /\ Placement(s) \in [Slugs -> 0 .. Absent]
         /\ \A t \in Present(order) : Placement(s)[t] \in Nat
         /\ \E k \in Nat :
              Placed(Display(order), Cardinality(Present(order)), k, s, Placement(s))
<1> DEFINE n == Cardinality(Present(order))
           rows == Display(order)
           later == {i \in DOMAIN rows : When[rows[i]] > When[s]}
           k == IF later = {} THEN Len(rows) ELSE Min(later) - 1
<1>1. n \in Nat /\ n <= MaxSort + 1 /\ MaxSort \in Nat
  BY PresentFinite, OrderAssumption
<1>2. /\ rows \in Lists1(Present(order)) /\ rows \in [1 .. n -> Present(order)]
      /\ \A t \in Present(order) : Position(rows, t) \in 1 .. n
  BY <1>1, OrderIsOrder, DisplayLists, PlaceOf
<1>3. Len(rows) = n /\ DOMAIN rows = 1 .. n
  BY <1>1, <1>2, ListLength
<1>4. \A i \in 1 .. n : When[rows[i]] \in Nat /\ When[s] \in Nat
  BY <1>2, OrderAssumption DEF Present
<1> HIDE DEF n, rows
<1>5. later # {} => Min(later) \in later /\ \A i \in later : Min(later) <= i
  <2>1. later \in SUBSET Nat
    BY <1>1, <1>3
  <2> HIDE DEF later
  <2>2. QED
    BY <2>1, LeastMember
<1>6. k \in 0 .. n
  BY <1>1, <1>3, <1>5
<1>7. ASSUME NEW i \in 1 .. n, i <= k
      PROVE  When[rows[i]] <= When[s]
  <2>1. i \notin later
    <3>1. SUFFICES ASSUME i \in later
                   PROVE  FALSE
      OBVIOUS
    <3>2. later # {}
      BY <3>1
    <3>3. Min(later) <= i /\ Min(later) \in 1 .. n /\ k = Min(later) - 1
      BY <3>1, <3>2, <1>3, <1>5
    <3> HIDE DEF later, k
    <3>4. QED
      BY <3>3, <1>1, <1>7
  <2>2. QED
    BY <2>1, <1>3, <1>4
<1>8. k < n => When[rows[k + 1]] > When[s]
  BY <1>1, <1>3, <1>5
<1>9. \A t \in Slugs :
        Placement(s)[t] = IF t = s THEN k
                          ELSE IF t \in Present(order)
                               THEN IF Position(rows, t) - 1 < k THEN Position(rows, t) - 1
                                    ELSE Position(rows, t)
                               ELSE 0
  BY DEF Placement, rows
<1>10. Placement(s) = [t \in Slugs |-> Placement(s)[t]]
  BY DEF Placement
<1> HIDE DEF k
<1>11. \A t \in Present(order) : t \in Slugs /\ t # s
  BY DEF Present
<1>12. \A t \in Slugs : Placement(s)[t] \in 0 .. Absent
  BY <1>1, <1>2, <1>6, <1>9, SMTT(30) DEF Absent
<1>13. Placement(s) \in [Slugs -> 0 .. Absent]
  BY <1>10, <1>12
<1>14. ASSUME NEW t \in Present(order)
       PROVE  Placement(s)[t] = IF Position(rows, t) <= k THEN Position(rows, t) - 1
                                ELSE Position(rows, t)
  BY <1>1, <1>2, <1>6, <1>9, <1>11
<1>15. Placed(rows, n, k, s, Placement(s))
  BY <1>1, <1>6, <1>7, <1>8, <1>9, <1>14 DEF Placed
<1>16. k \in Nat /\ \A t \in Present(order) : Placement(s)[t] \in Nat
  BY <1>1, <1>6, <1>11, <1>12 DEF Absent
<1>17. QED
  BY <1>13, <1>15, <1>16 DEF rows, n

LEMMA AfterLastIs ==
  ASSUME OrderType, NEW s \in Slugs
  PROVE  /\ AfterLast(s)[s] \in Nat
         /\ \A t \in Slugs : t # s => AfterLast(s)[t] = order[t]
         /\ \A t \in Present(order) : order[t] < AfterLast(s)[s]
         /\ AfterLast(s)[s] <= MaxSort => AfterLast(s) \in [Slugs -> 0 .. Absent]
<1> DEFINE S == {order[u] : u \in Present(order)}
<1>1. S \in SUBSET Nat /\ MaxSort \in Nat /\ \A n \in S : n <= MaxSort
  BY OrderIsOrder, OrderAssumption
<1>2. Present(order) # {} => Max(S) \in Nat /\ \A n \in S : n <= Max(S)
  BY <1>1, GreatestMember
<1>3. /\ AfterLast(s)[s] = IF Present(order) = {} THEN 0 ELSE Max(S) + 1
      /\ \A t \in Slugs : t # s => AfterLast(s)[t] = order[t]
  BY DEF AfterLast
<1> HIDE DEF S
<1>4. AfterLast(s)[s] \in Nat
  BY <1>2, <1>3
<1>5. ASSUME NEW t \in Present(order)
      PROVE  order[t] < AfterLast(s)[s]
  <2>1. order[t] \in S /\ order[t] \in Nat
    BY <1>1 DEF S
  <2>2. order[t] <= Max(S)
    BY <1>2, <2>1
  <2>3. QED
    BY <1>2, <1>3, <2>1, <2>2
<1>6. ASSUME AfterLast(s)[s] <= MaxSort
      PROVE  AfterLast(s) \in [Slugs -> 0 .. Absent]
  <2>1. \A t \in Slugs : AfterLast(s)[t] \in 0 .. Absent
    BY <1>1, <1>3, <1>4, <1>6 DEF OrderType, Absent
  <2>2. AfterLast(s) = [t \in Slugs |-> AfterLast(s)[t]]
    BY DEF AfterLast
  <2>3. QED
    BY <2>1, <2>2
<1>7. QED
  BY <1>3, <1>4, <1>5, <1>6

-------------------------------------------------------------------------------
(* The inductive invariant.                                                 *)

Target(s) == IF collection = "experience" THEN Placement(s) ELSE AfterLast(s)

\* What a request that nobody overtook still has of the order as it is: the rows
\* it read are the rows, its target was computed from their order, and a row
\* that is not where it belongs is locked or yet to be written.
Reads(r) ==
  /\ req[r].rows \in Lists1(Present(order))
  /\ req[r].at = "reorder" => req[r].target = Indices(req[r].rows)
  /\ req[r].at = "create" =>
       /\ order[req[r].new] = Absent
       /\ req[r].rows = Display(order)
       /\ req[r].target = Target(req[r].new)
       /\ req[r].target[req[r].new] <= MaxSort
  /\ \A t \in Present(order) : req[r].target[t] <= MaxSort

Writes(r) ==
  \A i \in DOMAIN req[r].rows :
    \/ i \in req[r].todo
    \/ lock[req[r].rows[i]] = r
    \/ order[req[r].rows[i]] = req[r].target[req[r].rows[i]]

Unraced == \A r \in Requests : req[r].at # "idle" /\ req[r].alone => Reads(r) /\ Writes(r)

Parts ==
  \A r \in Requests :
    /\ req[r].at = "create" => req[r].new \in Slugs
    /\ req[r].at = "idle" => req[r].todo = {}
    /\ req[r].todo \subseteq DOMAIN req[r].rows

OrderInv == TypeOK /\ Parts /\ Unraced

RequestType ==
  [at : {"idle", "reorder", "create"}, rows : Seq(Slugs), new : Slugs \union {NoSlug},
   target : [Slugs -> 0 .. Absent], todo : SUBSET (1 .. NumSlugs), alone : BOOLEAN]

LEMMA IdleParts ==
  Idle \in RequestType /\ Idle.at = "idle" /\ Idle.todo = {} /\ Idle.alone = FALSE
BY OrderAssumption DEF Idle, Absent, RequestType

\* What the end of r leaves of another request that is under way.
LEMMA OverOthers ==
  ASSUME NEW r \in Requests, NEW q \in Requests, q # r, req[q] \in RequestType,
         req[q].at # "idle", Over(r)
  PROVE  /\ req'[q] \in RequestType
         /\ req'[q].at = req[q].at /\ req'[q].rows = req[q].rows /\ req'[q].new = req[q].new
         /\ req'[q].target = req[q].target /\ req'[q].todo = req[q].todo
         /\ req'[q].alone <=> (req[q].alone /\ order' = order)
<1>1. req'[q] = [req[q] EXCEPT !.alone = @ /\ order' = order]
  BY DEF Over
<1> DEFINE b == req[q].alone /\ order' = order
<1>2. b \in BOOLEAN /\ req'[q] = [req[q] EXCEPT !.alone = b]
  BY <1>1
<1>3. b <=> (req[q].alone /\ order' = order)
  OBVIOUS
<1> HIDE DEF b
<1>4. req'[q].alone = b
  BY <1>2 DEF RequestType
<1>5. QED
  BY <1>2, <1>3, <1>4 DEF RequestType

LEMMA StartsRight == Init => OrderInv
<1>1. SUFFICES ASSUME Init
               PROVE  OrderInv
  OBVIOUS
<1>2. \A s \in Slugs : (IF s = NumSlugs THEN Absent ELSE s - 1) \in 0 .. Absent
  BY OrderAssumption DEF Slugs, Absent
<1>3. order \in [Slugs -> 0 .. Absent]
  BY <1>1, <1>2 DEF Init
<1>4. Idle \in [at : {"idle", "reorder", "create"}, rows : Seq(Slugs),
                new : Slugs \union {NoSlug}, target : [Slugs -> 0 .. Absent],
                todo : SUBSET (1 .. NumSlugs), alone : BOOLEAN]
  BY OrderAssumption DEF Idle, Absent
<1>5. lock \in [Slugs -> Requests \union {None}] /\ \A s \in Slugs : lock[s] = None
  BY <1>1 DEF Init
<1>6. req \in [Requests -> {Idle}]
  BY <1>1 DEF Init
<1>7. TypeOK
  BY <1>1, <1>3, <1>4, <1>5, <1>6 DEF TypeOK, Init
<1>8. \A r \in Requests : req[r].at = "idle" /\ req[r].todo = {}
  BY <1>6 DEF Idle
<1>9. QED
  BY <1>7, <1>8 DEF OrderInv, Parts, Unraced

\* A request that starts adds itself.
LEMMA StartKeeps ==
  ASSUME OrderInv, NEW r \in Requests, req[r].at = "idle",
         UNCHANGED <<collection, order, lock>>,
         NEW at \in {"reorder", "create"}, NEW rows \in Lists1(Present(order)),
         NEW new \in Slugs \union {NoSlug}, NEW target \in [Slugs -> 0 .. Absent],
         Start(r, at, rows, new, target, Changed(rows, target)),
         at = "reorder" => target = Indices(rows),
         at = "create" => /\ new \in Slugs /\ order[new] = Absent /\ rows = Display(order)
                          /\ target = Target(new) /\ target[new] <= MaxSort,
         \A t \in Present(order) : target[t] <= MaxSort
  PROVE  OrderInv'
<1> DEFINE n == Cardinality(Present(order))
           q == [at |-> at, rows |-> rows, new |-> new, target |-> target,
                 todo |-> Changed(rows, target), alone |-> TRUE]
<1>1. n \in Nat /\ n <= NumSlugs /\ NumSlugs \in Nat
  BY PresentFinite, OrderAssumption
<1>2. rows \in [1 .. n -> Present(order)]
  BY DEF Lists1
<1>3. rows \in Seq(Slugs) /\ DOMAIN rows = 1 .. n
  <2>1. Present(order) \subseteq Slugs
    BY DEF Present
  <2> HIDE DEF n
  <2>2. rows \in [1 .. n -> Slugs]
    BY <1>2, <2>1
  <2>3. QED
    BY <1>1, <2>2, ListLength
<1>4. Changed(rows, target) \in SUBSET (1 .. NumSlugs) /\ Changed(rows, target) \subseteq DOMAIN rows
  BY <1>1, <1>3 DEF Changed
<1>5. req' = [req EXCEPT ![r] = q] /\ req \in [Requests -> [at : {"idle", "reorder", "create"},
         rows : Seq(Slugs), new : Slugs \union {NoSlug}, target : [Slugs -> 0 .. Absent],
         todo : SUBSET (1 .. NumSlugs), alone : BOOLEAN]]
  BY DEF Start, OrderInv, TypeOK
<1>6. q \in [at : {"idle", "reorder", "create"},
         rows : Seq(Slugs), new : Slugs \union {NoSlug}, target : [Slugs -> 0 .. Absent],
         todo : SUBSET (1 .. NumSlugs), alone : BOOLEAN]
  BY <1>3, <1>4
<1>7. req'[r] = q /\ \A p \in Requests : p # r => req'[p] = req[p]
  BY <1>5
<1>8. TypeOK'
  <2>1. req' \in [Requests -> [at : {"idle", "reorder", "create"},
         rows : Seq(Slugs), new : Slugs \union {NoSlug}, target : [Slugs -> 0 .. Absent],
         todo : SUBSET (1 .. NumSlugs), alone : BOOLEAN]]
    BY <1>5, <1>6
  <2>2. ASSUME NEW s \in Slugs, lock[s] # None
        PROVE  order[s] # Absent /\ req'[lock[s]].at # "idle"
    BY <2>2, <1>7, ZenonT(30) DEF OrderInv, TypeOK
  <2>3. QED
    BY <2>1, <2>2 DEF OrderInv, TypeOK
<1>9. Parts'
  BY <1>4, <1>7 DEF OrderInv, Parts
<1>10. \A s \in Slugs : Target(s)' = Target(s)
  BY DEF Target, Placement, AfterLast
<1>11. \A w : Indices(w)' = Indices(w)
  BY DEF Indices
<1>12. ASSUME NEW p \in Requests, req'[p].at # "idle", req'[p].alone
       PROVE  Reads(p)' /\ Writes(p)'
  <2>1. CASE p = r
    <3>1. req'[p] = q
      BY <1>7, <2>1
    <3>2. Reads(p)'
      BY <3>1, <1>10, <1>11 DEF Reads
    <3>3. Writes(p)'
      BY <3>1 DEF Writes, Changed
    <3>4. QED
      BY <3>2, <3>3
  <2>2. CASE p # r
    <3>1. req'[p] = req[p]
      BY <1>7, <2>2
    <3>2. Reads(p) /\ Writes(p)
      BY <3>1, <1>12 DEF OrderInv, Unraced
    <3>3. req[p].at = "create" => req[p].new \in Slugs
      BY DEF OrderInv, Parts
    <3>4. QED
      BY <3>1, <3>2, <3>3, <1>10, <1>11 DEF Reads, Writes
  <2>3. QED
    BY <2>1, <2>2
<1>13. QED
  BY <1>8, <1>9, <1>12 DEF OrderInv, Unraced

LEMMA WriteKeeps ==
  ASSUME OrderInv, NEW r \in Requests, Write(r)
  PROVE  OrderInv'
<1> DEFINE m == Min(req[r].todo)
           s == req[r].rows[m]
<1>1. TypeOK /\ Parts /\ Unraced
  BY DEF OrderInv
<1>2. /\ req[r].todo \in SUBSET (1 .. NumSlugs) /\ req[r].todo # {}
      /\ req[r].todo \subseteq DOMAIN req[r].rows
      /\ req[r].rows \in Seq(Slugs)
  BY <1>1 DEF TypeOK, Write, Parts
<1>3. m \in req[r].todo
  BY <1>2, LeastMember, OrderAssumption
<1>4. s \in Slugs
  BY <1>2, <1>3
<1>5. req[r].at # "idle" /\ req[r].alone => Reads(r) /\ Writes(r)
  BY <1>1 DEF Unraced
<1>6. /\ lock[s] \in {None, r}
      /\ lock' = IF order[s] = Absent THEN lock ELSE [lock EXCEPT ![s] = r]
      /\ req' = [req EXCEPT ![r].todo = @ \ {m}]
      /\ UNCHANGED <<collection, order>>
  BY DEF Write, Row
<1> HIDE DEF m, s
<1>7. \A t \in Slugs : lock'[t] = IF t = s /\ order[s] # Absent THEN r ELSE lock[t]
  BY <1>1, <1>4, <1>6 DEF TypeOK
<1>8. /\ req' \in [Requests -> [at : {"idle", "reorder", "create"}, rows : Seq(Slugs),
            new : Slugs \union {NoSlug}, target : [Slugs -> 0 .. Absent],
            todo : SUBSET (1 .. NumSlugs), alone : BOOLEAN]]
      /\ \A p \in Requests :
           /\ req'[p].at = req[p].at /\ req'[p].rows = req[p].rows /\ req'[p].new = req[p].new
           /\ req'[p].target = req[p].target /\ req'[p].alone = req[p].alone
           /\ req'[p].todo = IF p = r THEN req[p].todo \ {m} ELSE req[p].todo
  BY <1>1, <1>6, ZenonT(30) DEF TypeOK
<1>9. \A t \in Slugs : Target(t)' = Target(t)
  BY <1>6 DEF Target, Placement, AfterLast
<1>10. \A w : Indices(w)' = Indices(w)
  BY <1>6 DEF Indices
<1>11. req[r].at # "idle"
  BY <1>1, <1>2 DEF Parts
<1>12. TypeOK'
  <2>1. lock' \in [Slugs -> Requests \union {None}]
    BY <1>1, <1>4, <1>6 DEF TypeOK
  <2>2. ASSUME NEW t \in Slugs, lock'[t] # None
        PROVE  order'[t] # Absent /\ req'[lock'[t]].at # "idle"
    <3>1. CASE t = s /\ order[s] # Absent
      BY <3>1, <1>6, <1>7, <1>8, <1>11
    <3>2. CASE ~ (t = s /\ order[s] # Absent)
      <4>1. lock'[t] = lock[t] /\ lock[t] # None /\ lock[t] \in Requests
        BY <3>2, <2>2, <1>1, <1>7 DEF TypeOK
      <4>2. QED
        BY <4>1, <1>1, <1>6, <1>8 DEF TypeOK
    <3>3. QED
      BY <3>1, <3>2
  <2>3. QED
    BY <2>1, <2>2, <1>1, <1>6, <1>8 DEF TypeOK
<1>13. Parts'
  BY <1>1, <1>8 DEF Parts
<1>14. ASSUME NEW p \in Requests, req'[p].at # "idle", req'[p].alone
       PROVE  Reads(p)' /\ Writes(p)'
  <2>1. Reads(p) /\ Writes(p)
    BY <1>1, <1>8, <1>14 DEF Unraced
  <2>2. req[p].at = "create" => req[p].new \in Slugs
    BY <1>1 DEF Parts
  <2>3. Reads(p)'
    BY <2>1, <2>2, <1>6, <1>8, <1>9, <1>10 DEF Reads
  <2>4. ASSUME NEW i \in DOMAIN req[p].rows
        PROVE  \/ i \in req'[p].todo
               \/ lock'[req[p].rows[i]] = p
               \/ order'[req[p].rows[i]] = req[p].target[req[p].rows[i]]
    <3>1. req[p].rows[i] \in Present(order) /\ req[p].rows[i] \in Slugs
      BY <2>1 DEF Reads, Lists1, Range, Present
    <3>2. \/ i \in req[p].todo
          \/ lock[req[p].rows[i]] = p
          \/ order[req[p].rows[i]] = req[p].target[req[p].rows[i]]
      BY <2>1 DEF Writes
    <3>3. CASE p = r /\ i = m
      BY <3>1, <3>3, <1>7 DEF s, Present
    <3>4. CASE ~ (p = r /\ i = m)
      <4>1. i \in req[p].todo => i \in req'[p].todo
        BY <3>4, <1>8
      <4>2. lock[req[p].rows[i]] = p => lock'[req[p].rows[i]] = p
        BY <3>1, <1>6, <1>7, OrderAssumption
      <4>3. QED
        BY <3>2, <4>1, <4>2, <1>6
    <3>5. QED
      BY <3>3, <3>4
  <2>5. QED
    BY <2>3, <2>4, <1>8 DEF Writes
<1>15. QED
  BY <1>12, <1>13, <1>14 DEF OrderInv, Unraced

\* A transaction that ends releases its rows; who has read another order than it
\* leaves no longer counts as alone.
LEMMA OverKeeps ==
  ASSUME OrderInv, NEW r \in Requests, Over(r), lock' = Released(r), collection' = collection,
         order' \in [Slugs -> 0 .. Absent],
         \A s \in Slugs : lock[s] # None /\ lock[s] # r => order'[s] # Absent
  PROVE  OrderInv'
<1>1. TypeOK /\ Parts /\ Unraced
  BY DEF OrderInv
<1>2. \A s \in Slugs : lock'[s] = IF lock[s] = r THEN None ELSE lock[s]
  BY DEF Released
<1>3. \A q \in Requests : req[q] \in RequestType
  BY <1>1 DEF TypeOK, RequestType
<1>4. \A q \in Requests : q = r \/ req[q].at = "idle" => req'[q] = Idle
  BY DEF Over
<1>5. \A q \in Requests : req'[q] \in RequestType
  BY <1>3, <1>4, IdleParts, OverOthers
<1>6. req' \in [Requests -> RequestType]
  BY <1>5 DEF Over
<1>7. \A q \in Requests : q # r /\ req[q].at # "idle" =>
        /\ req'[q].at = req[q].at /\ req'[q].rows = req[q].rows /\ req'[q].new = req[q].new
        /\ req'[q].target = req[q].target /\ req'[q].todo = req[q].todo
        /\ req'[q].alone <=> (req[q].alone /\ order' = order)
  BY <1>3, OverOthers
<1>8. \A q \in Requests : q = r \/ req[q].at = "idle" =>
        req'[q].at = "idle" /\ req'[q].todo = {}
  BY <1>4, IdleParts
<1>9. lock' \in [Slugs -> Requests \union {None}]
  BY <1>1 DEF Released, TypeOK
<1>10. ASSUME NEW s \in Slugs, lock'[s] # None
       PROVE  order'[s] # Absent /\ req'[lock'[s]].at # "idle"
  <2>1. lock'[s] = lock[s] /\ lock[s] # r /\ lock[s] # None /\ lock[s] \in Requests
    BY <1>1, <1>2, <1>10 DEF TypeOK
  <2>2. req[lock[s]].at # "idle"
    BY <1>1, <2>1 DEF TypeOK
  <2>3. QED
    BY <2>1, <2>2, <1>7
<1>11. TypeOK'
  BY <1>1, <1>6, <1>9, <1>10 DEF TypeOK, RequestType
<1>12. Parts'
  BY <1>1, <1>7, <1>8 DEF Parts
<1>13. ASSUME NEW q \in Requests, req'[q].at # "idle", req'[q].alone
       PROVE  Reads(q)' /\ Writes(q)'
  <2>1. q # r /\ req[q].at # "idle"
    BY <1>8, <1>13
  <2>2. req[q].alone /\ order' = order
    BY <1>7, <1>13, <2>1
  <2>3. Reads(q) /\ Writes(q) /\ (req[q].at = "create" => req[q].new \in Slugs)
    BY <1>1, <2>1, <2>2 DEF Unraced, Parts
  <2>4. \A t \in Slugs : Target(t)' = Target(t)
    BY <2>2 DEF Target, Placement, AfterLast
  <2>5. \A w : Indices(w)' = Indices(w)
    BY <2>2 DEF Indices
  <2>6. Reads(q)'
    BY <2>1, <2>2, <2>3, <2>4, <2>5, <1>7 DEF Reads
  <2>7. ASSUME NEW i \in DOMAIN req[q].rows
        PROVE  \/ i \in req[q].todo
               \/ lock'[req[q].rows[i]] = q
               \/ order[req[q].rows[i]] = req[q].target[req[q].rows[i]]
    <3>1. req[q].rows[i] \in Slugs
      BY <2>3 DEF Reads, Lists1, Range, Present
    <3>2. QED
      BY <3>1, <2>1, <2>3, <1>2 DEF Writes
  <2>8. QED
    BY <2>1, <2>2, <2>6, <2>7, <1>7 DEF Writes
<1>14. QED
  BY <1>11, <1>12, <1>13 DEF OrderInv, Unraced

\* What the rows of r hold once it has written them: each row its target.
LEMMA Lands ==
  ASSUME OrderInv, NEW r \in Requests, req[r].at # "idle", req[r].alone, req[r].todo = {},
         NEW s \in Slugs
  PROVE  Written(r)[s] = IF s \in Present(order) THEN req[r].target[s] ELSE Absent
<1>1. Reads(r) /\ Writes(r)
  BY DEF OrderInv, Unraced
<1>2. Written(r)[s] = IF lock[s] = r THEN req[r].target[s] ELSE order[s]
  BY DEF Written
<1>3. CASE s \in Present(order)
  <2>1. PICK i \in DOMAIN req[r].rows : req[r].rows[i] = s
    BY <1>1, <1>3 DEF Reads, Lists1, Range
  <2>2. lock[s] = r \/ order[s] = req[r].target[s]
    BY <1>1, <2>1 DEF Writes
  <2>3. QED
    BY <1>2, <1>3, <2>2
<1>4. CASE s \notin Present(order)
  <2>1. order[s] = Absent
    BY <1>4 DEF Present
  <2>2. lock[s] # r
    BY <2>1, OrderAssumption DEF OrderInv, TypeOK
  <2>3. QED
    BY <1>2, <1>4, <2>1, <2>2
<1>5. QED
  BY <1>3, <1>4

LEMMA WrittenType ==
  ASSUME OrderInv, NEW r \in Requests
  PROVE  /\ Written(r) \in [Slugs -> 0 .. Absent]
         /\ \A s \in Slugs : lock[s] # r => Written(r)[s] = order[s]
BY DEF OrderInv, TypeOK, Written

LEMMA CommitKeeps ==
  ASSUME OrderInv, NEW r \in Requests, ReorderCommit(r)
  PROVE  OrderInv'
<1>1. order' = Written(r) /\ lock' = Released(r) /\ Over(r) /\ collection' = collection
  BY DEF ReorderCommit
<1>2. \A s \in Slugs : lock[s] # None => order[s] # Absent
  BY DEF OrderInv, TypeOK
<1>3. QED
  BY <1>1, <1>2, WrittenType, OverKeeps

LEMMA CreateKeeps ==
  ASSUME OrderInv, NEW r \in Requests, CreateCommit(r)
  PROVE  OrderInv'
<1> DEFINE s == req[r].new
           v == req[r].target[s]
<1>1. /\ order' = [Written(r) EXCEPT ![s] = v] /\ lock' = Released(r) /\ Over(r)
      /\ collection' = collection /\ req[r].at = "create" /\ order[s] = Absent
  BY DEF CreateCommit
<1>2. s \in Slugs /\ v \in 0 .. Absent
  BY <1>1 DEF OrderInv, Parts, TypeOK
<1> HIDE DEF s, v
<1>3. order' \in [Slugs -> 0 .. Absent]
  BY <1>1, <1>2, WrittenType
<1>4. ASSUME NEW t \in Slugs, lock[t] # None, lock[t] # r
      PROVE  order'[t] # Absent
  <2>1. order[t] # Absent /\ t # s
    BY <1>1, <1>4 DEF OrderInv, TypeOK
  <2>2. order'[t] = Written(r)[t]
    BY <1>1, <2>1, WrittenType
  <2>3. QED
    BY <1>4, <2>1, <2>2, WrittenType
<1>5. QED
  BY <1>1, <1>3, <1>4, OverKeeps

LEMMA RollbackKeeps ==
  ASSUME OrderInv, NEW r \in Requests, Rollback(r)
  PROVE  OrderInv'
<1>1. order' = order /\ lock' = Released(r) /\ Over(r) /\ collection' = collection
  BY DEF Rollback
<1>2. order \in [Slugs -> 0 .. Absent] /\ \A s \in Slugs : lock[s] # None => order[s] # Absent
  BY DEF OrderInv, TypeOK
<1>3. QED
  BY <1>1, <1>2, OverKeeps

LEMMA DeleteKeeps ==
  ASSUME OrderInv, NEW s \in Slugs, Delete(s)
  PROVE  OrderInv'
<1>1. TypeOK /\ Parts
  BY DEF OrderInv
<1>2. /\ order[s] # Absent /\ lock[s] = None
      /\ order' = [order EXCEPT ![s] = Absent]
      /\ collection' = collection /\ lock' = lock
  BY DEF Delete
<1>3. \A q \in Requests :
        req'[q] = IF req[q].at = "idle" THEN Idle ELSE [req[q] EXCEPT !.alone = FALSE]
  BY DEF Delete
<1>4. \A q \in Requests : req[q] \in RequestType
  BY <1>1 DEF TypeOK, RequestType
<1>5. \A q \in Requests :
        /\ req'[q] \in RequestType
        /\ req'[q].alone = FALSE
        /\ req'[q].at = req[q].at
        /\ req[q].at = "idle" => req'[q].todo = {}
        /\ req[q].at # "idle" => /\ req'[q].rows = req[q].rows /\ req'[q].new = req[q].new
                                /\ req'[q].todo = req[q].todo
  <2>1. SUFFICES ASSUME NEW q \in Requests
                 PROVE  /\ req'[q] \in RequestType
                        /\ req'[q].alone = FALSE
                        /\ req'[q].at = req[q].at
                        /\ req[q].at = "idle" => req'[q].todo = {}
                        /\ req[q].at # "idle" =>
                             /\ req'[q].rows = req[q].rows /\ req'[q].new = req[q].new
                             /\ req'[q].todo = req[q].todo
    OBVIOUS
  <2>2. CASE req[q].at = "idle"
    BY <2>2, <1>3, IdleParts
  <2>3. CASE req[q].at # "idle"
    <3>1. req'[q] = [req[q] EXCEPT !.alone = FALSE] /\ req[q] \in RequestType
      BY <2>3, <1>3, <1>4
    <3>2. QED
      BY <3>1, <2>3 DEF RequestType
  <2>4. QED
    BY <2>2, <2>3
<1>6. req' \in [Requests -> RequestType]
  BY <1>5 DEF Delete
<1>7. order' \in [Slugs -> 0 .. Absent]
  BY <1>1, <1>2, OrderAssumption DEF TypeOK, Absent
<1>8. ASSUME NEW t \in Slugs, lock'[t] # None
      PROVE  order'[t] # Absent /\ req'[lock'[t]].at # "idle"
  <2>1. t # s /\ lock[t] \in Requests /\ order[t] # Absent /\ req[lock[t]].at # "idle"
    BY <1>1, <1>2, <1>8 DEF TypeOK
  <2>2. QED
    BY <2>1, <1>1, <1>2, <1>5 DEF TypeOK
<1>9. TypeOK'
  BY <1>1, <1>2, <1>6, <1>7, <1>8 DEF TypeOK, RequestType
<1>10. Parts'
  BY <1>1, <1>5 DEF Parts
<1>11. QED
  BY <1>5, <1>9, <1>10 DEF OrderInv, Unraced

LEMMA ReorderReadKeeps ==
  ASSUME OrderInv, NEW r \in Requests, NEW want \in Lists, ReorderRead(r, want)
  PROVE  OrderInv'
<1> DEFINE P == Present(order)
           n == Cardinality(P)
<1>1. PICK m \in Nat : want \in [1 .. m -> Slugs]
  BY OrderAssumption DEF Lists
<1>2. n \in Nat /\ IsFiniteSet(P)
  BY PresentFinite
<1>3. Len(want) = n /\ Range(want) = P
  BY DEF ReorderRead
<1> HIDE DEF n
<1>4. want \in Lists1(P)
  BY <1>1, <1>2, <1>3, AskedLists DEF n
<1>5. OrderType
  BY DEF OrderInv, TypeOK, OrderType
<1>6. /\ Indices(want) \in [Slugs -> 0 .. Absent]
      /\ \A t \in P : Indices(want)[t] <= MaxSort
  <2>1. \A t \in P : Indices(want)[t] \in 0 .. MaxSort
    BY <1>4, <1>5, IndicesIs
  <2>2. QED
    BY <1>4, <1>5, <2>1, IndicesIs, OrderAssumption
<1>7. /\ req[r].at = "idle" /\ UNCHANGED <<collection, order, lock>>
      /\ Start(r, "reorder", want, NoSlug, Indices(want), Changed(want, Indices(want)))
  BY DEF ReorderRead
<1>8. QED
  BY <1>4, <1>6, <1>7, StartKeeps

LEMMA CreateReadKeeps ==
  ASSUME OrderInv, NEW r \in Requests, NEW s \in Slugs, CreateRead(r, s)
  PROVE  OrderInv'
<1>1. OrderType
  BY DEF OrderInv, TypeOK, OrderType
<1>2. /\ req[r].at = "idle" /\ order[s] = Absent /\ UNCHANGED <<collection, order, lock>>
      /\ \A t \in Slugs : order[t] # Absent => Target(s)[t] <= MaxSort
      /\ Target(s)[s] <= MaxSort
      /\ Start(r, "create", Display(order), s, Target(s), Changed(Display(order), Target(s)))
  BY DEF CreateRead, Target
<1>3. s \notin Present(order)
  BY <1>2 DEF Present
<1>4. Target(s) \in [Slugs -> 0 .. Absent]
  BY <1>1, <1>2, <1>3, PlacementIs, AfterLastIs DEF Target
<1>5. Display(order) \in Lists1(Present(order))
  BY <1>1, OrderIsOrder, DisplayLists
<1>6. \A t \in Present(order) : Target(s)[t] <= MaxSort
  BY <1>2 DEF Present
<1>7. QED
  BY <1>2, <1>4, <1>5, <1>6, StartKeeps

LEMMA StepsRight == OrderInv /\ [Next]_vars => OrderInv'
<1> SUFFICES ASSUME OrderInv, [Next]_vars
             PROVE  OrderInv'
  OBVIOUS
<1>1. ASSUME NEW r \in Requests, NEW want \in Lists, ReorderRead(r, want)
      PROVE  OrderInv'
  BY <1>1, ReorderReadKeeps
<1>2. ASSUME NEW r \in Requests, NEW s \in Slugs, CreateRead(r, s)
      PROVE  OrderInv'
  BY <1>2, CreateReadKeeps
<1>3. ASSUME NEW r \in Requests, Write(r)
      PROVE  OrderInv'
  BY <1>3, WriteKeeps
<1>4. ASSUME NEW r \in Requests, ReorderCommit(r)
      PROVE  OrderInv'
  BY <1>4, CommitKeeps
<1>5. ASSUME NEW r \in Requests, CreateCommit(r)
      PROVE  OrderInv'
  BY <1>5, CreateKeeps
<1>6. ASSUME NEW r \in Requests, CreateConflict(r) \/ DeadlockEnds(r) \/ Fails(r)
      PROVE  OrderInv'
  BY <1>6, RollbackKeeps DEF CreateConflict, DeadlockEnds, Fails
<1>7. ASSUME NEW s \in Deletable, Delete(s)
      PROVE  OrderInv'
  BY <1>7, DeleteKeeps, OrderAssumption
<1>8. CASE UNCHANGED vars
  <2>1. collection' = collection /\ order' = order /\ lock' = lock /\ req' = req
    BY <1>8 DEF vars
  <2>2. TypeOK' /\ Parts'
    BY <2>1 DEF OrderInv, TypeOK, Parts
  <2>3. ASSUME NEW q \in Requests, req[q].at # "idle", req[q].alone
        PROVE  Reads(q)' /\ Writes(q)'
    <3>1. Reads(q) /\ Writes(q) /\ (req[q].at = "create" => req[q].new \in Slugs)
      BY <2>3 DEF OrderInv, Unraced, Parts
    <3>2. \A t \in Slugs : Target(t)' = Target(t)
      BY <2>1 DEF Target, Placement, AfterLast
    <3>3. \A w : Indices(w)' = Indices(w)
      BY <2>1 DEF Indices
    <3>4. QED
      BY <2>1, <3>1, <3>2, <3>3 DEF Reads, Writes
  <2>4. QED
    BY <2>1, <2>2, <2>3 DEF OrderInv, Unraced
<1>9. QED
  BY <1>1, <1>2, <1>3, <1>4, <1>5, <1>6, <1>7, <1>8 DEF Next, Step

LEMMA OrderInvAlways == Spec => []OrderInv
<1>1. QED
  BY StartsRight, StepsRight, PTL DEF Spec

\* Every variable has its type, and who has locked a row has read the order.
THEOREM TypeCorrect == Spec => []TypeOK
<1>1. OrderInv => TypeOK
  BY DEF OrderInv
<1>2. QED
  BY OrderInvAlways, <1>1, PTL

-------------------------------------------------------------------------------
(* What a request that nobody overtook leaves.                              *)

\* Rows whose sort orders are their indices are listed in that order.
LEMMA IndexedOrder ==
  ASSUME NEW o \in Orders, NEW n \in Nat, n = Cardinality(Present(o)),
         NEW rows \in [1 .. n -> Present(o)], \A i \in 1 .. n : o[rows[i]] = i - 1
  PROVE  Display(o) = rows
<1>1. DOMAIN rows = 1 .. n
  OBVIOUS
<1>2. Sorted(o, rows)
  BY <1>1 DEF Sorted, Before
<1>3. QED
  BY <1>2, DisplayUnique

LEMMA CommitExact ==
  ASSUME OrderInv, NEW r \in Requests, ReorderCommit(r), req[r].alone
  PROVE  /\ Display(order') = req[r].rows
         /\ \A i \in DOMAIN req[r].rows : order'[req[r].rows[i]] = i - 1
<1> DEFINE P == Present(order)
           n == Cardinality(P)
           rows == req[r].rows
           o == Written(r)
<1>1. OrderType /\ MaxSort \in Nat /\ NumSlugs <= MaxSort + 1
  BY OrderAssumption DEF OrderInv, TypeOK, OrderType
<1>2. rows \in Lists1(P) /\ req[r].target = Indices(rows)
  BY DEF OrderInv, Unraced, Reads, ReorderCommit
<1>3. n \in Nat
  BY PresentFinite
<1>4. /\ rows \in [1 .. n -> P]
      /\ \A i \in 1 .. n : rows[i] \in P /\ Position(rows, rows[i]) = i
  BY <1>2, <1>3, PlaceOf
<1>5. DOMAIN rows = 1 .. n
  BY <1>4
<1>6. \A s \in Slugs : o[s] = IF s \in P THEN Indices(rows)[s] ELSE Absent
  BY <1>2, Lands DEF ReorderCommit
<1> HIDE DEF o, n, rows
<1>7. \A s \in P : s \in Slugs /\ Indices(rows)[s] = Position(rows, s) - 1
                   /\ Indices(rows)[s] \in 0 .. MaxSort
  BY <1>1, <1>2, IndicesIs DEF Present
<1>8. \A s \in P : o[s] = Position(rows, s) - 1 /\ o[s] \in 0 .. MaxSort
  BY <1>6, <1>7
<1>9. Present(o) = P
  <2>1. \A s \in Slugs : s \in P <=> o[s] # Absent
    BY <1>1, <1>6, <1>8 DEF Absent
  <2>2. QED
    BY <2>1 DEF Present
<1>10. o \in Orders
  <2>1. o \in [Slugs -> 0 .. Absent]
    BY WrittenType DEF o
  <2>2. QED
    BY <2>1, <1>1 DEF Orders, Absent
<1>11. \A i \in 1 .. n : o[rows[i]] = i - 1
  BY <1>4, <1>8
<1>12. n = Cardinality(Present(o)) /\ rows \in [1 .. n -> Present(o)]
  BY <1>4, <1>9 DEF n
<1>13. Display(o) = rows
  BY <1>3, <1>10, <1>11, <1>12, IndexedOrder
<1>14. order' = o
  BY DEF ReorderCommit, o
<1>15. QED
  BY <1>5, <1>11, <1>13, <1>14 DEF rows

\* A reorder that nobody overlapped leaves exactly the order it was asked for.
THEOREM ReordersCorrect == Spec => ReorderExact
<1>1. OrderInv /\ [Next]_vars =>
        [\A r \in Requests : ReorderCommit(r) /\ req[r].alone =>
           /\ Display(order') = req[r].rows
           /\ \A i \in DOMAIN req[r].rows : order'[req[r].rows[i]] = i - 1]_vars
  BY CommitExact
<1>2. QED
  BY OrderInvAlways, <1>1, PTL DEF Spec, ReorderExact

\* The order that a creation leaves: the rows at their targets, and the new row.
LEMMA CreateLeaves ==
  ASSUME OrderInv, NEW r \in Requests, CreateCommit(r), req[r].alone,
         NEW P, P = Present(order), NEW s, s = req[r].new
  PROVE  /\ order' \in Orders /\ s \in Slugs /\ s \notin P
         /\ req[r].target = Target(s)
         /\ \A t \in P \union {s} : order'[t] = Target(s)[t]
         /\ Present(order') = P \union {s}
         /\ Cardinality(Present(order')) = Cardinality(P) + 1
<1> DEFINE v == req[r].target[s]
<1>1. /\ OrderType /\ MaxSort \in Nat /\ s \in Slugs /\ req[r].target \in [Slugs -> 0 .. Absent]
      /\ req[r].at = "create"
  BY OrderAssumption DEF OrderInv, TypeOK, OrderType, Parts, CreateCommit
<1>2. /\ req[r].rows \in Lists1(P) /\ req[r].target = Target(s) /\ order[s] = Absent
      /\ v <= MaxSort /\ \A t \in P : req[r].target[t] <= MaxSort
  BY <1>1 DEF OrderInv, Unraced, Reads
<1>3. order' = [Written(r) EXCEPT ![s] = v]
  BY DEF CreateCommit
<1>4. v \in 0 .. MaxSort /\ \A t \in P : t \in Slugs /\ req[r].target[t] \in 0 .. MaxSort
  BY <1>1, <1>2 DEF Present, Absent
<1>5. s \notin P
  BY <1>2 DEF Present
<1>6. \A t \in Slugs : Written(r)[t] = IF t \in P THEN req[r].target[t] ELSE Absent
  BY <1>1, Lands DEF CreateCommit
<1> HIDE DEF v
<1>7. \A t \in Slugs : order'[t] = IF t = s THEN v
                                   ELSE IF t \in P THEN req[r].target[t] ELSE Absent
  BY <1>1, <1>3, <1>6, WrittenType
<1>8. \A t \in P \union {s} : order'[t] = Target(s)[t]
  BY <1>1, <1>2, <1>4, <1>5, <1>7 DEF v
<1>9. Present(order') = P \union {s}
  <2>1. \A t \in Slugs : t \in P \union {s} <=> order'[t] # Absent
    BY <1>1, <1>4, <1>7 DEF Absent
  <2>2. P \union {s} \subseteq Slugs
    BY <1>1, <1>4
  <2>3. QED
    BY <2>1, <2>2 DEF Present
<1>10. order' \in Orders
  <2>1. Written(r) \in Orders
    BY WrittenType, OrderAssumption DEF Orders, Absent
  <2>2. QED
    BY <1>1, <1>3, <1>4, <2>1 DEF Orders
<1>11. Cardinality(P \union {s}) = Cardinality(P) + 1
  BY <1>5, PresentFinite, FS_AddElement
<1>12. QED
  BY <1>1, <1>2, <1>5, <1>8, <1>9, <1>10, <1>11

\* What is listed, when the new row comes after k of the others.
LEMMA CreateLists ==
  ASSUME OrderInv, NEW r \in Requests, CreateCommit(r), req[r].alone,
         NEW P, P = Present(order), NEW n \in Nat, n = Cardinality(P), NEW k \in 0 .. n,
         NEW rows \in [1 .. n -> P], rows = Display(order), NEW s, s = req[r].new,
         Sorted(order', Inserted(rows, n, k, s))
  PROVE  /\ Display(order') = Inserted(rows, n, k, s)
         /\ RemoveAt(Display(order'), Position(Display(order'), s)) = Display(order)
<1> DEFINE after == Inserted(rows, n, k, s)
<1>1. /\ order' \in Orders /\ s \notin P /\ Present(order') = P \union {s}
      /\ Cardinality(Present(order')) = n + 1
  BY CreateLeaves
<1>2. after \in [1 .. n + 1 -> P \union {s}] /\ Position(after, s) = k + 1
  BY <1>1, InsertedTypes
<1>3. RemoveAt(after, k + 1) = rows
  BY <1>1, InsertedRemoved
<1> DEFINE m == n + 1
<1>4. m \in Nat /\ m = Cardinality(Present(order')) /\ after \in [1 .. m -> Present(order')]
  BY <1>1, <1>2
<1> HIDE DEF after, m
<1>5. Display(order') = after
  BY <1>1, <1>4, DisplayUnique DEF after
<1>6. QED
  BY <1>2, <1>3, <1>5 DEF after

\* An experience entry: index by index, and late enough.
LEMMA PlacedLists ==
  ASSUME OrderInv, NEW r \in Requests, CreateCommit(r), req[r].alone,
         collection = "experience",
         NEW P, P = Present(order), NEW n \in Nat, n = Cardinality(P), NEW k \in 0 .. n,
         NEW rows \in [1 .. n -> P], rows = Display(order), NEW s, s = req[r].new,
         Placed(rows, n, k, s, Placement(s))
  PROVE  Sorted(order', Inserted(rows, n, k, s))
<1> DEFINE after == Inserted(rows, n, k, s)
           target == Placement(s)
<1>1. /\ order' \in Orders /\ s \notin P
      /\ \A t \in P \union {s} : order'[t] = target[t]
  BY CreateLeaves DEF Target
<1>2. after \in [1 .. n + 1 -> P \union {s}]
  BY <1>1, InsertedTypes
<1>3. rows \in Lists1(P)
  BY DisplayLists, OrderIsOrder DEF OrderInv, TypeOK, OrderType
<1>4. \A i \in 1 .. n : rows[i] \in P /\ Position(rows, rows[i]) = i
  BY <1>3, PlaceOf
<1>5. /\ target[s] = k
      /\ \A t \in P : target[t] = IF Position(rows, t) <= k THEN Position(rows, t) - 1
                                  ELSE Position(rows, t)
  BY DEF Placed
<1>6. \A i \in 1 .. n + 1 :
        after[i] = IF i <= k THEN rows[i] ELSE IF i = k + 1 THEN s ELSE rows[i - 1]
  BY DEF Inserted
<1> HIDE DEF after, target
<1>7. ASSUME NEW i \in 1 .. n + 1
      PROVE  order'[after[i]] = i - 1
  <2>1. CASE i <= k
    <3>1. i \in 1 .. n /\ after[i] = rows[i]
      BY <2>1, <1>6
    <3>2. rows[i] \in P /\ Position(rows, rows[i]) = i
      BY <3>1, <1>4
    <3>3. target[rows[i]] = i - 1
      BY <3>2, <2>1, <1>5
    <3>4. QED
      BY <3>1, <3>2, <3>3, <1>1
  <2>2. CASE i = k + 1
    <3>1. after[i] = s
      BY <2>2, <1>6
    <3>2. QED
      BY <3>1, <2>2, <1>1, <1>5
  <2>3. CASE i > k + 1
    <3>1. i - 1 \in 1 .. n /\ after[i] = rows[i - 1]
      BY <2>3, <1>6
    <3>2. rows[i - 1] \in P /\ Position(rows, rows[i - 1]) = i - 1
      BY <3>1, <1>4
    <3>3. target[rows[i - 1]] = i - 1
      BY <3>2, <2>3, <1>5
    <3>4. QED
      BY <3>1, <3>2, <3>3, <1>1
  <2>4. QED
    BY <2>1, <2>2, <2>3
<1>8. DOMAIN after = 1 .. n + 1
  BY <1>2
<1>9. Sorted(order', after)
  BY <1>7, <1>8 DEF Sorted, Before
<1>10. QED
  BY <1>9 DEF after

LEMMA PlacedOnTime ==
  ASSUME NEW P, P \subseteq Slugs, NEW n \in Nat, NEW k \in 0 .. n,
         NEW rows \in [1 .. n -> P], NEW s \in Slugs, s \notin P, NEW target,
         Placed(rows, n, k, s, target), Chronological(rows)
  PROVE  Chronological(Inserted(rows, n, k, s))
<1> DEFINE after == Inserted(rows, n, k, s)
<1>1. after \in [1 .. n + 1 -> P \union {s}]
  BY InsertedTypes
<1>2. \A i \in 1 .. n + 1 :
        after[i] = IF i <= k THEN rows[i] ELSE IF i = k + 1 THEN s ELSE rows[i - 1]
  BY DEF Inserted
<1>3. When[s] \in Nat /\ \A i \in 1 .. n : When[rows[i]] \in Nat
  BY OrderAssumption
<1>4. \A i, j \in 1 .. n : i < j => When[rows[i]] <= When[rows[j]]
  BY DEF Chronological
<1>5. \A i \in 1 .. k : When[rows[i]] <= When[s]
  BY DEF Placed
<1>6. ASSUME NEW i \in k + 1 .. n
      PROVE  When[s] <= When[rows[i]]
  <2>1. k + 1 \in 1 .. n /\ When[rows[k + 1]] > When[s]
    BY DEF Placed
  <2>2. CASE i = k + 1
    BY <2>1, <2>2, <1>3
  <2>3. CASE i > k + 1
    <3>1. When[rows[k + 1]] <= When[rows[i]]
      BY <2>1, <2>3, <1>4
    <3>2. QED
      BY <3>1, <2>1, <2>3, <1>3
  <2>4. QED
    BY <2>2, <2>3
<1> HIDE DEF after
<1>7. ASSUME NEW i \in 1 .. n + 1, NEW j \in 1 .. n + 1, i < j
      PROVE  When[after[i]] <= When[after[j]]
  <2>1. CASE j <= k
    BY <2>1, <1>2, <1>4, <1>7
  <2>2. CASE i <= k /\ j = k + 1
    BY <2>2, <1>2, <1>5
  <2>3. CASE i <= k /\ j > k + 1
    <3>1. after[i] = rows[i] /\ after[j] = rows[j - 1] /\ i < j - 1 /\ j - 1 \in 1 .. n /\ i \in 1 .. n
      BY <2>3, <1>2
    <3>2. QED
      BY <3>1, <1>4
  <2>4. CASE i = k + 1
    <3>1. after[i] = s /\ after[j] = rows[j - 1] /\ j - 1 \in k + 1 .. n
      BY <2>4, <1>2, <1>7
    <3>2. QED
      BY <3>1, <1>6
  <2>5. CASE i > k + 1
    <3>1. after[i] = rows[i - 1] /\ after[j] = rows[j - 1] /\ i - 1 < j - 1
          /\ i - 1 \in 1 .. n /\ j - 1 \in 1 .. n
      BY <2>5, <1>2, <1>7
    <3>2. QED
      BY <3>1, <1>4
  <2>6. QED
    BY <2>1, <2>2, <2>3, <2>4, <2>5
<1>8. DOMAIN after = 1 .. n + 1
  BY <1>1
<1>9. QED
  BY <1>7, <1>8 DEF Chronological, after

\* A row of another collection goes last.
LEMMA LastLists ==
  ASSUME OrderInv, NEW r \in Requests, CreateCommit(r), req[r].alone, collection = "other",
         NEW P, P = Present(order), NEW n \in Nat, n = Cardinality(P),
         NEW rows \in [1 .. n -> P], rows = Display(order), NEW s, s = req[r].new
  PROVE  Sorted(order', Inserted(rows, n, n, s))
<1> DEFINE after == Inserted(rows, n, n, s)
           target == AfterLast(s)
<1>1. /\ order' \in Orders /\ s \in Slugs /\ s \notin P
      /\ \A t \in P \union {s} : order'[t] = target[t]
  BY CreateLeaves DEF Target
<1>2. after \in [1 .. n + 1 -> P \union {s}]
  BY <1>1, InsertedTypes
<1>3. OrderType
  BY DEF OrderInv, TypeOK, OrderType
<1>4. \A t \in P : target[t] = order[t] /\ order[t] < target[s]
  BY <1>1, <1>3, AfterLastIs DEF Present
<1>5. \A i \in 1 .. n + 1 : after[i] = IF i <= n THEN rows[i] ELSE s
  BY DEF Inserted
<1>6. \A i, j \in 1 .. n : i < j => Before(order, rows[i], rows[j])
  <2>1. Sorted(order, rows)
    BY <1>3, OrderIsOrder, DisplaySorts
  <2>2. QED
    BY <2>1 DEF Sorted
<1> HIDE DEF after, target
<1>7. ASSUME NEW i \in 1 .. n + 1, NEW j \in 1 .. n + 1, i < j
      PROVE  Before(order', after[i], after[j])
  <2>1. i \in 1 .. n /\ after[i] = rows[i] /\ rows[i] \in P
    BY <1>5, <1>7
  <2>2. CASE j <= n
    <3>1. j \in 1 .. n /\ after[j] = rows[j] /\ rows[j] \in P
      BY <2>2, <1>5
    <3>2. Before(order, rows[i], rows[j])
      BY <2>1, <3>1, <1>6, <1>7
    <3>3. order'[rows[i]] = order[rows[i]] /\ order'[rows[j]] = order[rows[j]]
      BY <2>1, <3>1, <1>1, <1>4
    <3>4. QED
      BY <2>1, <3>1, <3>2, <3>3 DEF Before
  <2>3. CASE ~ (j <= n)
    <3>1. after[j] = s
      BY <2>3, <1>5
    <3>2. order'[rows[i]] < order'[s]
      BY <2>1, <1>1, <1>4
    <3>3. QED
      BY <2>1, <3>1, <3>2 DEF Before
  <2>4. QED
    BY <2>2, <2>3
<1>8. DOMAIN after = 1 .. n + 1
  BY <1>2
<1>9. QED
  BY <1>7, <1>8 DEF Sorted, after

LEMMA CommitPlaces ==
  ASSUME OrderInv, NEW r \in Requests, CreateCommit(r), req[r].alone
  PROVE  LET s == req[r].new
             before == Display(order)
             after == Display(order')
         IN  /\ RemoveAt(after, Position(after, s)) = before
             /\ collection = "other" => after[Len(after)] = s
             /\ collection = "experience" /\ Chronological(before) => Chronological(after)
<1> DEFINE P == Present(order)
           n == Cardinality(P)
           rows == Display(order)
           s == req[r].new
<1>1. OrderType /\ collection \in {"experience", "other"}
  BY DEF OrderInv, TypeOK, OrderType
<1>2. n \in Nat /\ rows \in [1 .. n -> P] /\ P \subseteq Slugs
  BY <1>1, PresentFinite, OrderIsOrder, DisplaySorts DEF Present
<1>3. s \in Slugs /\ s \notin P
  BY CreateLeaves
<1> HIDE DEF n, P, rows, s
<1>4. CASE collection = "experience"
  <2>1. PICK k \in Nat : Placed(rows, n, k, s, Placement(s))
    BY <1>1, <1>3, PlacementIs DEF P, n, rows
  <2>2. k \in 0 .. n
    BY <2>1 DEF Placed
  <2>3. Sorted(order', Inserted(rows, n, k, s))
    BY <1>2, <1>4, <2>1, <2>2, PlacedLists DEF P, n, rows, s
  <2>4. /\ Display(order') = Inserted(rows, n, k, s)
        /\ RemoveAt(Display(order'), Position(Display(order'), s)) = Display(order)
    BY <1>2, <2>2, <2>3, CreateLists DEF P, n, rows, s
  <2>5. Chronological(rows) => Chronological(Inserted(rows, n, k, s))
    BY <1>2, <1>3, <2>1, <2>2, PlacedOnTime
  <2>6. QED
    BY <1>4, <2>4, <2>5 DEF rows, s
<1>5. CASE collection = "other"
  <2>1. Sorted(order', Inserted(rows, n, n, s))
    BY <1>2, <1>5, LastLists DEF P, n, rows, s
  <2>2. n \in 0 .. n
    BY <1>2
  <2>3. /\ Display(order') = Inserted(rows, n, n, s)
        /\ RemoveAt(Display(order'), Position(Display(order'), s)) = Display(order)
    BY <1>2, <2>1, <2>2, CreateLists DEF P, n, rows, s
  <2>4. Inserted(rows, n, n, s) \in [1 .. n + 1 -> P \union {s}]
    BY <1>2, <1>3, <2>2, InsertedTypes
  <2>5. n + 1 \in Nat /\ Inserted(rows, n, n, s)[n + 1] = s
    BY <1>2 DEF Inserted
  <2>6. Len(Inserted(rows, n, n, s)) = n + 1
    BY <2>4, <2>5, ListLength
  <2>7. QED
    BY <1>5, <2>3, <2>5, <2>6 DEF rows, s
<1>6. QED
  BY <1>1, <1>4, <1>5

\* A creation that nobody overlapped disturbs no other row, goes last, or keeps a
\* chronological timeline chronological.
THEOREM CreationsCorrect == Spec => CreatePlaces
<1>1. OrderInv /\ [Next]_vars =>
        [\A r \in Requests : CreateCommit(r) /\ req[r].alone =>
           LET s == req[r].new
               before == Display(order)
               after == Display(order')
           IN  /\ RemoveAt(after, Position(after, s)) = before
               /\ collection = "other" => after[Len(after)] = s
               /\ collection = "experience" /\ Chronological(before) => Chronological(after)]_vars
  BY CommitPlaces
<1>2. QED
  BY OrderInvAlways, <1>1, PTL DEF Spec, CreatePlaces

=============================================================================
