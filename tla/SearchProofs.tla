---------------------------- MODULE SearchProofs ----------------------------
(***************************************************************************)
(* The listing search and the loan rules it filters with.                   *)
(*                                                                          *)
(* ListingSearch.  Every way to search returns the first matches after its  *)
(* anchor, in order; so the page after the m-th match is known from m, and  *)
(* the pages of a walk that nothing disturbs stand at multiples of the page *)
(* size.  When the crawl does disturb it, what it left alone keeps its key, *)
(* and the reader has seen of it exactly what is behind the cursor.         *)
(*                                                                          *)
(* LoanRules, at the end.  The prefilters lose nothing, for every profile   *)
(* and every listing.  The evaluator tests one listing against one product; *)
(* the plan takes the largest limit of all products the applicant qualifies *)
(* for.  Each product has a lemma that names its limit, and a lemma about   *)
(* Max carries it over to the branch.                                       *)
(***************************************************************************)
EXTENDS ListingSearch, LoanRules, FiniteSetTheorems, WellFoundedInduction, TLAPS

-----------------------------------------------------------------------------
(* Keys in order.                                                           *)
(* InOrder numbers each key by how many come before it.  That each number   *)
(* occurs once makes it the sorted sequence, and the only one.              *)

Pairs == Nat \X Nat

\* Keys are in one strict order, and the other direction is its reverse.
LEMMA AheadOrders ==
  ASSUME NEW d \in BOOLEAN
  PROVE  /\ \A a \in Pairs : ~Ahead(d, a, a)
         /\ \A a, b, c \in Pairs : Ahead(d, a, b) /\ Ahead(d, b, c) => Ahead(d, a, c)
         /\ \A a, b \in Pairs : a = b \/ Ahead(d, a, b) \/ Ahead(d, b, a)
         /\ \A a, b \in Pairs : Ahead(~d, a, b) <=> Ahead(d, b, a)
<1>1. \A a \in Pairs : ~Ahead(d, a, a)
  BY DEF Ahead, Pairs
<1>2. \A a, b, c \in Pairs : Ahead(d, a, b) /\ Ahead(d, b, c) => Ahead(d, a, c)
  BY DEF Ahead, Pairs
<1>3. \A a, b \in Pairs : a = b \/ Ahead(d, a, b) \/ Ahead(d, b, a)
  <2> SUFFICES ASSUME NEW a \in Pairs, NEW b \in Pairs
               PROVE  a = b \/ Ahead(d, a, b) \/ Ahead(d, b, a)
    OBVIOUS
  <2>1. a = <<a[1], a[2]>> /\ b = <<b[1], b[2]>> /\ a[1] \in Nat /\ a[2] \in Nat /\ b[1] \in Nat /\ b[2] \in Nat
    BY DEF Pairs
  <2>2. (a[1] = b[1] /\ a[2] = b[2]) => a = b
    BY <2>1
  <2>3. QED
    BY <2>1, <2>2 DEF Ahead
<1>4. \A a, b \in Pairs : Ahead(~d, a, b) <=> Ahead(d, b, a)
  BY DEF Ahead, Pairs
<1>5. QED
  BY <1>1, <1>2, <1>3, <1>4

\* What comes before a key.
Before(K, k, d) == {j \in K : Ahead(d, j, k)}

\* A sequence that has each key of K, in order.
Sorting(s, K, d) ==
  /\ s \in Seq(K)
  /\ \A k \in K : \E i \in 1..Len(s) : s[i] = k
  /\ \A i, j \in 1..Len(s) : i < j => Ahead(d, s[i], s[j])

InOrderDef(K, d) ==
  [i \in 1..Cardinality(K) |-> CHOOSE k \in K : Cardinality(Before(K, k, d)) = i - 1]

\* The sorted sequence by its definition.
LEMMA InOrderUnfolds ==
  ASSUME NEW K, NEW d
  PROVE  InOrder(K, d) = InOrderDef(K, d)
  BY DEF InOrder, InOrderDef, Before

\* A key that comes earlier has fewer before it.
LEMMA FewerBefore ==
  ASSUME NEW K \in SUBSET Pairs, IsFiniteSet(K), NEW d \in BOOLEAN, NEW k \in K
  PROVE  /\ IsFiniteSet(Before(K, k, d))
         /\ Cardinality(Before(K, k, d)) \in 0..Cardinality(K) - 1
         /\ \A x \in K : Ahead(d, x, k) =>
              Cardinality(Before(K, x, d)) < Cardinality(Before(K, k, d))
<1>1. Before(K, k, d) \subseteq K \ {k}
  BY AheadOrders DEF Before
<1>2. IsFiniteSet(K \ {k}) /\ Cardinality(K \ {k}) = Cardinality(K) - 1
  BY FS_RemoveElement
<1>3. /\ IsFiniteSet(Before(K, k, d))
      /\ Cardinality(Before(K, k, d)) <= Cardinality(K) - 1
  BY <1>1, <1>2, FS_Subset
<1>4. Cardinality(Before(K, k, d)) \in Nat /\ Cardinality(K) \in Nat
  BY <1>3, FS_CardinalityType
<1>5. ASSUME NEW x \in K, Ahead(d, x, k)
      PROVE  Cardinality(Before(K, x, d)) < Cardinality(Before(K, k, d))
  <2>1. Before(K, x, d) \subseteq Before(K, k, d) \ {x}
    <3> SUFFICES ASSUME NEW j \in K, Ahead(d, j, x)
                 PROVE  Ahead(d, j, k) /\ j # x
      BY DEF Before
    <3>1. j \in Pairs /\ x \in Pairs /\ k \in Pairs
      OBVIOUS
    <3>2. QED
      BY <1>5, <3>1, AheadOrders
  <2>2. x \in Before(K, k, d)
    BY <1>5 DEF Before
  <2>3. /\ IsFiniteSet(Before(K, k, d) \ {x})
        /\ Cardinality(Before(K, k, d) \ {x}) = Cardinality(Before(K, k, d)) - 1
    BY <1>3, <2>2, FS_RemoveElement
  <2>4. Cardinality(Before(K, x, d)) <= Cardinality(Before(K, k, d)) - 1
    BY <2>1, <2>3, FS_Subset
  <2>5. Cardinality(Before(K, x, d)) \in Nat
    BY <2>1, <2>3, FS_Subset, FS_CardinalityType
  <2>6. QED
    BY <2>4, <2>5, <1>4
<1>6. QED
  BY <1>3, <1>4, <1>5

\* The sorted keys: each number of keys before is that of one key.
LEMMA InOrderSorts ==
  ASSUME NEW K \in SUBSET Pairs, IsFiniteSet(K), NEW d \in BOOLEAN
  PROVE  /\ Sorting(InOrder(K, d), K, d)
         /\ Len(InOrder(K, d)) = Cardinality(K)
<1> DEFINE n == Cardinality(K)
           s == InOrder(K, d)
           rank == [k \in K |-> Cardinality(Before(K, k, d))]
<1>1. n \in Nat
  BY FS_CardinalityType
<1>2. rank \in [K -> 0..n - 1]
  BY FewerBefore
<1>3. \A x, y \in K : Ahead(d, x, y) => rank[x] < rank[y]
  BY FewerBefore
<1>4. \A x, y \in K : rank[x] \in Nat /\ x \in Pairs
  BY <1>2
<1>5. \A x, y \in K : rank[x] = rank[y] => x = y
  <2> SUFFICES ASSUME NEW x \in K, NEW y \in K, rank[x] = rank[y], x # y PROVE FALSE
    OBVIOUS
  <2>1. rank[x] \in Nat /\ x \in Pairs /\ y \in Pairs
    BY <1>4
  <2>2. Ahead(d, x, y) \/ Ahead(d, y, x)
    BY <2>1, AheadOrders
  <2>3. rank[x] < rank[x]
    BY <2>2, <1>3
  <2>4. QED
    BY <2>1, <2>3
<1>6. rank \in Injection(K, 0..n - 1)
  BY <1>2, <1>5 DEF Injection, IsInjective
<1>7. IsFiniteSet(0..n - 1) /\ Cardinality(0..n - 1) = n
  <2> HIDE DEF n
  <2>1. 0 \in Int /\ n - 1 \in Int /\ (0 > n - 1 <=> n = 0) /\ (n - 1) - 0 + 1 = n
    BY <1>1
  <2>2. QED
    BY <2>1, FS_Interval
<1>8. rank \in Surjection(K, 0..n - 1)
  <2> HIDE DEF rank
  <2>1. Cardinality(K) = Cardinality(0..n - 1) <=> rank \in Surjection(K, 0..n - 1)
    BY <1>6, <1>7, FS_Injection
  <2>2. QED
    BY <2>1, <1>7
<1>9. \A i \in 1..n : i - 1 \in 0..n - 1
  BY <1>1
<1>10. \A i \in 1..n : \E k \in K : rank[k] = i - 1
  BY <1>8, <1>9 DEF Surjection
<1>11. s = [i \in 1..n |-> CHOOSE k \in K : rank[k] = i - 1]
  BY InOrderUnfolds DEF InOrderDef
<1>12. \A i \in 1..n : s[i] \in K /\ rank[s[i]] = i - 1
  BY <1>10, <1>11
<1>13. s \in [1..n -> K]
  BY <1>11, <1>12
<1>14. s \in Seq(K) /\ Len(s) = n
  BY <1>1, <1>13
<1>15. \A k \in K : \E i \in 1..n : s[i] = k
  <2> SUFFICES ASSUME NEW k \in K PROVE \E i \in 1..n : s[i] = k
    OBVIOUS
  <2>1. rank[k] + 1 \in 1..n /\ (rank[k] + 1) - 1 = rank[k]
    BY <1>1, <1>2
  <2>2. rank[s[rank[k] + 1]] = rank[k] /\ s[rank[k] + 1] \in K
    BY <1>12, <2>1
  <2>3. QED
    BY <1>5, <2>1, <2>2
<1>16. ASSUME NEW i \in 1..n, NEW j \in 1..n, i < j PROVE Ahead(d, s[i], s[j])
  <2>1. s[i] \in K /\ s[j] \in K /\ rank[s[i]] = i - 1 /\ rank[s[j]] = j - 1
    BY <1>12
  <2>2. ~Ahead(d, s[j], s[i]) /\ s[i] # s[j]
    BY <1>3, <1>16, <2>1, <1>1
  <2>3. QED
    BY <2>1, <2>2, <1>4, AheadOrders
<1>17. QED
  BY <1>14, <1>15, <1>16 DEF Sorting

\* It is the only one.
LEMMA SortingIsInOrder ==
  ASSUME NEW K \in SUBSET Pairs, NEW d \in BOOLEAN, NEW s, Sorting(s, K, d)
  PROVE  /\ IsFiniteSet(K) /\ Cardinality(K) = Len(s)
         /\ InOrder(K, d) = s
         /\ \A i \in 1..Len(s) : Cardinality(Before(K, s[i], d)) = i - 1
<1> DEFINE n == Len(s)
<1>1. n \in Nat /\ s \in [1..n -> K]
  BY DEF Sorting
<1>2. \A i, j \in 1..n : i < j => Ahead(d, s[i], s[j])
  BY DEF Sorting
<1>3. \A i \in 1..n : s[i] \in K /\ s[i] \in Pairs
  BY <1>1
<1>4. \A i, j \in 1..n : s[i] = s[j] => i = j
  <2> SUFFICES ASSUME NEW i \in 1..n, NEW j \in 1..n, s[i] = s[j], i # j PROVE FALSE
    OBVIOUS
  <2>1. i < j \/ j < i
    BY <1>1
  <2>2. QED
    BY <2>1, <1>2, <1>3, AheadOrders
<1>5. ASSUME NEW i \in 1..n, NEW j \in 1..n, Ahead(d, s[i], s[j]) PROVE i < j
  <2>1. CASE i = j
    BY <2>1, <1>3, <1>5, AheadOrders
  <2>2. CASE j < i
    <3>1. Ahead(d, s[j], s[i])
      BY <1>2, <2>2
    <3>2. QED
      BY <3>1, <1>3, <1>5, AheadOrders
  <2>3. QED
    BY <2>1, <2>2, <1>1
<1>6. s \in Bijection(1..n, K)
  <2>1. \A k \in K : \E i \in 1..n : s[i] = k
    BY DEF Sorting
  <2>2. QED
    BY <1>1, <1>4, <2>1 DEF Bijection, Injection, Surjection, IsInjective
<1>7. ExistsBijection(1..n, K)
  BY <1>6 DEF ExistsBijection
<1>8. Cardinality(K) = n
  BY <1>1, <1>7, FS_CountingElements
<1>9. IsFiniteSet(K)
  BY <1>1, <1>7, FS_NatBijection
<1>10. ASSUME NEW i \in 1..n PROVE Cardinality(Before(K, s[i], d)) = i - 1
  <2> DEFINE t == [j \in 1..i - 1 |-> s[j]]
  <2>0. i - 1 \in Nat /\ \A j \in 1..i - 1 : j \in 1..n /\ j < i
    BY <1>1
  <2>1. t \in [1..i - 1 -> Before(K, s[i], d)]
    BY <2>0, <1>2, <1>3 DEF Before
  <2>2. \A k \in Before(K, s[i], d) : \E j \in 1..i - 1 : t[j] = k
    <3> SUFFICES ASSUME NEW k \in K, Ahead(d, k, s[i])
                 PROVE  \E j \in 1..i - 1 : t[j] = k
      BY DEF Before
    <3>1. PICK j \in 1..n : s[j] = k
      BY DEF Sorting
    <3>2. j < i
      BY <3>1, <1>5
    <3>3. j \in 1..i - 1
      BY <3>2, <1>1
    <3>4. QED
      BY <3>1, <3>3
  <2>3. \A j, k \in 1..i - 1 : t[j] = t[k] => j = k
    BY <2>0, <1>4
  <2>4. t \in Bijection(1..i - 1, Before(K, s[i], d))
    BY <2>1, <2>2, <2>3 DEF Bijection, Injection, Surjection, IsInjective
  <2>5. QED
    BY <2>0, <2>4, FS_CountingElements DEF ExistsBijection
<1>11. ASSUME NEW i \in 1..n
       PROVE  (CHOOSE k \in K : Cardinality(Before(K, k, d)) = i - 1) = s[i]
  <2>1. \A k \in K : Cardinality(Before(K, k, d)) = i - 1 => k = s[i]
    <3> SUFFICES ASSUME NEW k \in K, Cardinality(Before(K, k, d)) = i - 1 PROVE k = s[i]
      OBVIOUS
    <3>1. PICK j \in 1..n : s[j] = k
      BY DEF Sorting
    <3>2. i - 1 = j - 1
      BY <3>1, <1>10
    <3>3. QED
      BY <3>1, <3>2, <1>1
  <2>2. QED
    BY <2>1, <1>3, <1>10
<1>12. InOrder(K, d) = [i \in 1..n |-> s[i]]
  BY <1>8, <1>11, InOrderUnfolds DEF InOrderDef
<1>13. s = [i \in 1..n |-> s[i]]
  BY <1>1
<1>14. QED
  BY <1>8, <1>9, <1>10, <1>12, <1>13

-----------------------------------------------------------------------------
(* Cutting a sorted sequence: its first elements, and what comes after one. *)

\* The smaller of a length and a limit.
Least(m, n) == IF m < n THEN m ELSE n

\* Min of two is the smaller.
LEMMA MinOfTwo ==
  ASSUME NEW m \in Int, NEW n \in Int
  PROVE  Min({m, n}) = Least(m, n)
<1>1. CASE m < n
  <2>1. \A x \in {m, n} : (\A y \in {m, n} : x <= y) => x = m
    BY <1>1
  <2>2. m \in {m, n} /\ \A y \in {m, n} : m <= y
    BY <1>1
  <2>3. Min({m, n}) = m
    BY <2>1, <2>2 DEF Min
  <2>4. QED
    BY <1>1, <2>3 DEF Least
<1>2. CASE ~(m < n)
  <2>1. \A x \in {m, n} : (\A y \in {m, n} : x <= y) => x = n
    BY <1>2
  <2>2. n \in {m, n} /\ \A y \in {m, n} : n <= y
    BY <1>2
  <2>3. Min({m, n}) = n
    BY <2>1, <2>2 DEF Min
  <2>4. QED
    BY <1>2, <2>3 DEF Least
<1>3. QED
  BY <1>1, <1>2

\* The first n elements.
LEMMA TakeIs ==
  ASSUME NEW T, NEW s \in Seq(T), NEW n \in Nat
  PROVE  /\ Take(n, s) \in Seq(T)
         /\ Len(Take(n, s)) = Least(n, Len(s))
         /\ \A i \in 1..Least(n, Len(s)) : Take(n, s)[i] = s[i]
<1> DEFINE m == Least(n, Len(s))
<1>1. Len(s) \in Nat
  OBVIOUS
<1>2. m \in 0..Len(s) /\ m \in Nat /\ 1..m \subseteq 1..Len(s)
  BY <1>1 DEF Least
<1>3. Take(n, s) = SubSeq(s, 1, m)
  <2>1. n \in Int /\ Len(s) \in Int
    BY <1>1
  <2>2. Min({n, Len(s)}) = m
    BY <2>1, MinOfTwo
  <2>3. QED
    BY <2>2 DEF Take
<1> HIDE DEF m
<1>4. SubSeq(s, 1, m) = [i \in 1..m |-> s[i]]
  BY <1>2
<1>5. \A i \in 1..m : s[i] \in T
  BY <1>2
<1>6. QED
  BY <1>2, <1>3, <1>4, <1>5 DEF m

\* A limit that is not reached cuts nothing.
LEMMA TakeAll ==
  ASSUME NEW T, NEW s \in Seq(T), NEW n \in Nat, Len(s) <= n
  PROVE  Take(n, s) = s
<1>1. Len(s) \in Nat /\ Least(n, Len(s)) = Len(s)
  BY DEF Least
<1>2. Take(n, s) \in Seq(T) /\ Len(Take(n, s)) = Len(s) /\ \A i \in 1..Len(s) : Take(n, s)[i] = s[i]
  BY <1>1, TakeIs
<1>3. QED
  BY <1>2

\* Two sequences with the same elements are the same.
LEMMA SameSequence ==
  ASSUME NEW T, NEW s \in Seq(T), NEW t \in Seq(T), Len(s) = Len(t),
         \A i \in 1..Len(s) : s[i] = t[i]
  PROVE  s = t
  OBVIOUS

\* What comes after an anchor is part of the whole; after none, it is the whole.
LEMMA AfterIsPart ==
  ASSUME NEW K \in SUBSET Pairs, IsFiniteSet(K), NEW a, NEW d
  PROVE  /\ After(K, a, d) \in SUBSET Pairs
         /\ After(K, a, d) \subseteq K
         /\ IsFiniteSet(After(K, a, d))
         /\ Cardinality(After(K, a, d)) \in 0..Cardinality(K)
         /\ Cardinality(K) \in Nat
<1>1. After(K, a, d) \subseteq K
  BY DEF After
<1>2. IsFiniteSet(After(K, a, d)) /\ Cardinality(After(K, a, d)) <= Cardinality(K)
  BY <1>1, FS_Subset
<1>3. QED
  BY <1>1, <1>2, FS_CardinalityType

\* What comes after the m-th key are the later keys.
LEMMA AfterInOrder ==
  ASSUME NEW K \in SUBSET Pairs, IsFiniteSet(K), NEW d \in BOOLEAN,
         NEW m \in 1..Cardinality(K)
  PROVE  /\ \A i \in 1..Cardinality(K) :
               InOrder(K, d)[i] \in After(K, InOrder(K, d)[m], d) <=> m < i
         /\ InOrder(After(K, InOrder(K, d)[m], d), d)
              = [i \in 1..Cardinality(K) - m |-> InOrder(K, d)[m + i]]
<1> DEFINE n == Cardinality(K)
           s == InOrder(K, d)
           A == After(K, s[m], d)
           t == [i \in 1..n - m |-> s[m + i]]
<1>1. n \in Nat /\ m \in Nat /\ n - m \in Nat
  BY FS_CardinalityType
<1>2. Sorting(s, K, d) /\ Len(s) = n
  BY InOrderSorts
<1>3. s \in [1..n -> K] /\ \A i, j \in 1..n : i < j => Ahead(d, s[i], s[j])
  BY <1>2, <1>1 DEF Sorting
<1>4. s[m] \in Pairs /\ s[m] # Nil
  BY <1>3, SearchAssumption DEF Pairs
<1>5. A = {k \in K : Ahead(d, s[m], k)}
  BY <1>4 DEF After
<1>6. \A i \in 1..n : s[i] \in A <=> m < i
  <2> SUFFICES ASSUME NEW i \in 1..n PROVE Ahead(d, s[m], s[i]) <=> m < i
    BY <1>3, <1>5
  <2>1. CASE m < i
    BY <2>1, <1>3
  <2>2. CASE m = i
    BY <2>2, <1>4, AheadOrders
  <2>3. CASE i < m
    <3>1. Ahead(d, s[i], s[m]) /\ s[i] \in Pairs
      BY <2>3, <1>3
    <3>2. ~Ahead(d, s[m], s[i])
      BY <3>1, <1>4, AheadOrders
    <3>3. QED
      BY <3>2, <2>3
  <2>4. QED
    BY <2>1, <2>2, <2>3, <1>1
<1>7. \A i \in 1..n - m : m + i \in 1..n /\ m < m + i
  BY <1>1
<1>8. t \in Seq(A) /\ Len(t) = n - m
  BY <1>1, <1>6, <1>7
<1>9. \A k \in A : \E i \in 1..n - m : t[i] = k
  <2> SUFFICES ASSUME NEW k \in A PROVE \E i \in 1..n - m : t[i] = k
    OBVIOUS
  <2>1. k \in K
    BY <1>5
  <2>2. PICK i \in 1..n : s[i] = k
    BY <2>1, <1>2 DEF Sorting
  <2>3. m < i
    BY <1>6, <2>2
  <2>4. i - m \in 1..n - m /\ m + (i - m) = i
    BY <2>3, <1>1
  <2>5. t[i - m] = k
    BY <2>2, <2>4
  <2>6. QED
    BY <2>4, <2>5
<1>10. \A i, j \in 1..n - m : i < j => Ahead(d, t[i], t[j])
  <2> SUFFICES ASSUME NEW i \in 1..n - m, NEW j \in 1..n - m, i < j
               PROVE  Ahead(d, t[i], t[j])
    OBVIOUS
  <2>1. m + i < m + j
    BY <1>1
  <2>2. Ahead(d, s[m + i], s[m + j])
    BY <2>1, <1>3, <1>7
  <2>3. QED
    BY <2>2
<1>11. Sorting(t, A, d)
  BY <1>8, <1>9, <1>10 DEF Sorting
<1>12. A \in SUBSET Pairs
  BY <1>5
<1> HIDE DEF t, A
<1>13. InOrder(A, d) = t
  BY <1>11, <1>12, SortingIsInOrder
<1>14. QED
  BY <1>6, <1>13 DEF t, A

\* In the other direction come the earlier keys, from the last one down.
LEMMA BackInOrder ==
  ASSUME NEW K \in SUBSET Pairs, IsFiniteSet(K), NEW d \in BOOLEAN,
         NEW m \in 1..Cardinality(K)
  PROVE  InOrder(After(K, InOrder(K, d)[m], ~d), ~d)
           = [i \in 1..m - 1 |-> InOrder(K, d)[m - i]]
<1> DEFINE n == Cardinality(K)
           s == InOrder(K, d)
           A == After(K, s[m], ~d)
           t == [i \in 1..m - 1 |-> s[m - i]]
<1>1. n \in Nat /\ m \in Nat /\ m - 1 \in Nat
  BY FS_CardinalityType
<1>2. Sorting(s, K, d) /\ Len(s) = n
  BY InOrderSorts
<1>3. s \in [1..n -> K] /\ \A i, j \in 1..n : i < j => Ahead(d, s[i], s[j])
  BY <1>2, <1>1 DEF Sorting
<1>4. s[m] \in Pairs /\ s[m] # Nil
  BY <1>3, SearchAssumption DEF Pairs
<1>5. A = {k \in K : Ahead(~d, s[m], k)}
  BY <1>4 DEF After
<1>6. \A i, j \in 1..n : i < j => Ahead(~d, s[j], s[i])
  <2> SUFFICES ASSUME NEW i \in 1..n, NEW j \in 1..n, i < j PROVE Ahead(~d, s[j], s[i])
    OBVIOUS
  <2>1. s[i] \in Pairs /\ s[j] \in Pairs
    BY <1>3
  <2>2. QED
    BY <2>1, <1>3, AheadOrders
<1>7. \A i \in 1..n : Ahead(~d, s[m], s[i]) => i < m
  <2> SUFFICES ASSUME NEW i \in 1..n, Ahead(~d, s[m], s[i]), ~(i < m) PROVE FALSE
    OBVIOUS
  <2>1. s[i] \in Pairs /\ Ahead(d, s[i], s[m])
    BY <1>3, <1>4, AheadOrders
  <2>2. i = m \/ m < i
    BY <1>1
  <2>3. CASE i = m
    BY <2>1, <2>3, AheadOrders
  <2>4. CASE m < i
    <3>1. Ahead(d, s[m], s[i])
      BY <2>4, <1>3
    <3>2. Ahead(d, s[i], s[i])
      BY <2>1, <3>1, <1>4, AheadOrders
    <3>3. QED
      BY <3>2, <2>1, AheadOrders
  <2>5. QED
    BY <2>2, <2>3, <2>4
<1>8. \A i \in 1..m - 1 : m - i \in 1..n /\ m - i < m
  BY <1>1
<1>9. t \in Seq(A) /\ Len(t) = m - 1
  <2>1. \A i \in 1..m - 1 : s[m - i] \in A
    BY <1>3, <1>5, <1>6, <1>8
  <2>2. QED
    BY <2>1, <1>1
<1>10. \A k \in A : \E i \in 1..m - 1 : t[i] = k
  <2> SUFFICES ASSUME NEW k \in A PROVE \E i \in 1..m - 1 : t[i] = k
    OBVIOUS
  <2>1. k \in K /\ Ahead(~d, s[m], k)
    BY <1>5
  <2>2. PICK i \in 1..n : s[i] = k
    BY <2>1, <1>2 DEF Sorting
  <2>3. i < m
    BY <1>7, <2>1, <2>2
  <2>4. m - i \in 1..m - 1 /\ m - (m - i) = i
    BY <2>3, <1>1
  <2>5. t[m - i] = k
    BY <2>2, <2>4
  <2>6. QED
    BY <2>4, <2>5
<1>11. \A i, j \in 1..m - 1 : i < j => Ahead(~d, t[i], t[j])
  <2> SUFFICES ASSUME NEW i \in 1..m - 1, NEW j \in 1..m - 1, i < j
               PROVE  Ahead(~d, t[i], t[j])
    OBVIOUS
  <2>1. m - j < m - i
    BY <1>1
  <2>2. Ahead(~d, s[m - i], s[m - j])
    BY <2>1, <1>6, <1>8
  <2>3. QED
    BY <2>2
<1>12. Sorting(t, A, ~d)
  BY <1>9, <1>10, <1>11 DEF Sorting
<1>13. A \in SUBSET Pairs
  BY <1>5
<1> HIDE DEF t, A
<1>14. InOrder(A, ~d) = t
  BY <1>12, <1>13, SortingIsInOrder
<1>15. QED
  BY <1>14 DEF t, A

-----------------------------------------------------------------------------
(* Parts of a sorted sequence.                                              *)

\* A key with i - 1 keys before it is the i-th, and the other way round.
LEMMA PlaceInOrder ==
  ASSUME NEW K \in SUBSET Pairs, IsFiniteSet(K), NEW d \in BOOLEAN
  PROVE  /\ InOrder(K, d) \in Seq(K) /\ Len(InOrder(K, d)) = Cardinality(K)
         /\ Cardinality(K) \in Nat
         /\ \A i \in 1..Cardinality(K) :
              /\ InOrder(K, d)[i] \in K
              /\ Cardinality(Before(K, InOrder(K, d)[i], d)) = i - 1
         /\ \A i, j \in 1..Cardinality(K) : i < j => Ahead(d, InOrder(K, d)[i], InOrder(K, d)[j])
         /\ \A k \in K : \E i \in 1..Cardinality(K) : InOrder(K, d)[i] = k
         /\ \A k \in K : \A i \in 1..Cardinality(K) :
              Cardinality(Before(K, k, d)) = i - 1 => InOrder(K, d)[i] = k
<1> DEFINE n == Cardinality(K)
           s == InOrder(K, d)
<1>1. n \in Nat
  BY FS_CardinalityType
<1>2. Sorting(s, K, d) /\ Len(s) = n
  BY InOrderSorts
<1>3. \A i \in 1..n : Cardinality(Before(K, s[i], d)) = i - 1
  BY <1>2, SortingIsInOrder
<1>4. /\ s \in Seq(K) /\ s \in [1..n -> K]
      /\ \A i, j \in 1..n : i < j => Ahead(d, s[i], s[j])
      /\ \A k \in K : \E i \in 1..n : s[i] = k
  BY <1>1, <1>2 DEF Sorting
<1>5. ASSUME NEW k \in K, NEW i \in 1..n, Cardinality(Before(K, k, d)) = i - 1
      PROVE  s[i] = k
  <2>1. PICK j \in 1..n : s[j] = k
    BY <1>4
  <2>2. j - 1 = i - 1
    BY <1>3, <1>5, <2>1
  <2>3. QED
    BY <2>1, <2>2, <1>1
<1> HIDE DEF s, n
<1>6. \A i \in 1..n : s[i] \in K
  BY <1>4
<1>7. QED
  BY <1>1, <1>2, <1>3, <1>4, <1>5, <1>6 DEF s, n

\* A part that has the first n keys begins with them.
LEMMA PartWithTheFirst ==
  ASSUME NEW A \in SUBSET Pairs, IsFiniteSet(A), NEW U \in SUBSET A, NEW d \in BOOLEAN,
         NEW n \in Nat,
         \A i \in 1..Least(n, Cardinality(A)) : InOrder(A, d)[i] \in U
  PROVE  Take(n, InOrder(U, d)) = Take(n, InOrder(A, d))
<1> DEFINE a == InOrder(A, d)
           u == InOrder(U, d)
           m == Least(n, Cardinality(A))
<1>1. U \in SUBSET Pairs /\ IsFiniteSet(U) /\ Cardinality(U) <= Cardinality(A)
  BY FS_Subset
<1>2. /\ a \in Seq(A) /\ Len(a) = Cardinality(A) /\ Cardinality(A) \in Nat
      /\ \A i \in 1..Cardinality(A) : a[i] \in A /\ Cardinality(Before(A, a[i], d)) = i - 1
      /\ \A k \in A : \E i \in 1..Cardinality(A) : a[i] = k
  BY PlaceInOrder
<1>3. /\ u \in Seq(U) /\ Len(u) = Cardinality(U) /\ Cardinality(U) \in Nat
      /\ \A k \in U : \A i \in 1..Cardinality(U) : Cardinality(Before(U, k, d)) = i - 1 => u[i] = k
      /\ \A k \in U : \E i \in 1..Cardinality(U) : u[i] = k
  BY <1>1, PlaceInOrder
<1>4. m \in Nat /\ m <= n /\ m <= Cardinality(A)
  BY <1>2 DEF Least
<1>5. \A i, j \in 1..Cardinality(A) : Ahead(d, a[i], a[j]) => i < j
  <2> SUFFICES ASSUME NEW i \in 1..Cardinality(A), NEW j \in 1..Cardinality(A),
                      Ahead(d, a[i], a[j]), ~(i < j)
               PROVE  FALSE
    OBVIOUS
  <2>1. a[i] \in Pairs /\ a[j] \in Pairs
    BY <1>2
  <2>2. \A p, q \in 1..Cardinality(A) : p < q => Ahead(d, a[p], a[q])
    BY PlaceInOrder
  <2>3. CASE i = j
    BY <2>1, <2>3, AheadOrders
  <2>4. CASE j < i
    BY <2>1, <2>2, <2>4, AheadOrders
  <2>5. QED
    BY <2>3, <2>4, <1>2
<1>6. ASSUME NEW i \in 1..m PROVE Cardinality(Before(U, a[i], d)) = i - 1
  <2>1. i \in 1..Cardinality(A)
    BY <1>4, <1>2
  <2>2. ASSUME NEW k \in A, Ahead(d, k, a[i]) PROVE k \in U
    <3>1. PICK j \in 1..Cardinality(A) : a[j] = k
      BY <1>2
    <3>2. j < i
      BY <1>5, <2>1, <2>2, <3>1
    <3>3. j \in 1..m
      BY <3>2, <1>4
    <3>4. QED
      BY <3>1, <3>3
  <2>3. Before(U, a[i], d) = Before(A, a[i], d)
    BY <2>2 DEF Before
  <2>4. QED
    BY <1>2, <2>1, <2>3
<1>7. CASE n <= Cardinality(A)
  <2>1. m = n
    BY <1>2, <1>7 DEF Least
  <2>2. n <= Cardinality(U)
    <3>1. CASE n = 0
      BY <3>1, <1>3
    <3>2. CASE n # 0
      <4>1. n \in 1..m /\ a[n] \in U
        BY <3>2, <2>1
      <4>2. Cardinality(Before(U, a[n], d)) = n - 1
        BY <1>6, <4>1
      <4>3. Cardinality(Before(U, a[n], d)) \in 0..Cardinality(U) - 1
        BY <4>1, <1>1, FewerBefore
      <4>4. QED
        BY <4>2, <4>3, <1>3
    <3>3. QED
      BY <3>1, <3>2
  <2>3. \A i \in 1..n : u[i] = a[i]
    <3> SUFFICES ASSUME NEW i \in 1..n PROVE u[i] = a[i]
      OBVIOUS
    <3>1. i \in 1..m /\ i \in 1..Cardinality(U) /\ a[i] \in U
      BY <2>1, <2>2, <1>3
    <3>2. QED
      BY <3>1, <1>3, <1>6
  <2>4. Least(n, Len(a)) = n /\ Least(n, Len(u)) = n
    BY <1>2, <1>3, <2>2, <1>7 DEF Least
  <2>5. a \in Seq(Pairs) /\ u \in Seq(Pairs)
    BY <1>1, <1>2, <1>3
  <2> HIDE DEF a, u
  <2>6. /\ Take(n, a) \in Seq(Pairs) /\ Len(Take(n, a)) = n /\ \A i \in 1..n : Take(n, a)[i] = a[i]
        /\ Take(n, u) \in Seq(Pairs) /\ Len(Take(n, u)) = n /\ \A i \in 1..n : Take(n, u)[i] = u[i]
    BY <2>4, <2>5, TakeIs
  <2>7. \A i \in 1..Len(Take(n, u)) : Take(n, u)[i] = Take(n, a)[i]
    BY <2>3, <2>6
  <2>8. Take(n, u) = Take(n, a)
    BY <2>6, <2>7, SameSequence
  <2>9. QED
    BY <2>8 DEF a, u
<1>8. CASE ~(n <= Cardinality(A))
  <2>1. m = Cardinality(A)
    BY <1>2, <1>8 DEF Least
  <2>2. U = A
    <3> SUFFICES ASSUME NEW k \in A PROVE k \in U
      OBVIOUS
    <3>1. PICK i \in 1..Cardinality(A) : a[i] = k
      BY <1>2
    <3>2. QED
      BY <3>1, <2>1
  <2>3. QED
    BY <2>2
<1>9. QED
  BY <1>7, <1>8

\* A part begins with the first n keys if what it lacks comes after its n-th.
LEMMA PartBeforeTheRest ==
  ASSUME NEW A \in SUBSET Pairs, IsFiniteSet(A), NEW U \in SUBSET A, NEW d \in BOOLEAN,
         NEW n \in Nat \ {0}, n <= Cardinality(U),
         \A x \in A \ U : Ahead(d, InOrder(U, d)[n], x)
  PROVE  Take(n, InOrder(U, d)) = Take(n, InOrder(A, d))
<1> DEFINE a == InOrder(A, d)
           u == InOrder(U, d)
<1>1. U \in SUBSET Pairs /\ IsFiniteSet(U) /\ Cardinality(U) <= Cardinality(A)
  BY FS_Subset
<1>2. /\ Cardinality(A) \in Nat
      /\ \A k \in A : \A i \in 1..Cardinality(A) : Cardinality(Before(A, k, d)) = i - 1 => a[i] = k
  BY PlaceInOrder
<1>3. /\ Cardinality(U) \in Nat
      /\ \A i \in 1..Cardinality(U) : u[i] \in U /\ Cardinality(Before(U, u[i], d)) = i - 1
      /\ \A i, j \in 1..Cardinality(U) : i < j => Ahead(d, u[i], u[j])
  BY <1>1, PlaceInOrder
<1>4. ASSUME NEW i \in 1..n PROVE a[i] = u[i]
  <2>1. i \in 1..Cardinality(U) /\ i \in 1..Cardinality(A) /\ n \in 1..Cardinality(U)
    BY <1>1, <1>2, <1>3
  <2>2. u[i] \in Pairs /\ u[n] \in Pairs /\ u[i] \in A
    BY <2>1, <1>1, <1>3
  <2>3. ASSUME NEW x \in A \ U PROVE ~Ahead(d, x, u[i])
    <3>1. Ahead(d, u[n], x) /\ x \in Pairs
      OBVIOUS
    <3>2. CASE i = n
      BY <3>1, <3>2, <2>2, AheadOrders
    <3>3. CASE i # n
      <4>1. i < n
        BY <3>3
      <4>2. Ahead(d, u[i], u[n])
        BY <4>1, <2>1, <1>3
      <4>3. QED
        BY <4>2, <3>1, <2>2, AheadOrders
    <3>4. QED
      BY <3>2, <3>3
  <2>4. Before(A, u[i], d) = Before(U, u[i], d)
    BY <2>3 DEF Before
  <2>5. Cardinality(Before(A, u[i], d)) = i - 1
    BY <2>1, <2>4, <1>3
  <2>6. QED
    BY <2>1, <2>2, <2>5, <1>2
<1>5. \A i \in 1..Least(n, Cardinality(A)) : a[i] \in U
  <2>1. Least(n, Cardinality(A)) = n
    BY <1>1, <1>2, <1>3 DEF Least
  <2>2. \A i \in 1..n : u[i] \in U
    BY <1>3
  <2>3. QED
    BY <2>1, <2>2, <1>4
<1> HIDE DEF a, u
<1>6. QED
  BY <1>5, PartWithTheFirst DEF a, u

\* Keys in order, and then later keys in order.
LEMMA ThenInOrder ==
  ASSUME NEW X \in SUBSET Pairs, NEW Y \in SUBSET Pairs, NEW d \in BOOLEAN,
         NEW s, NEW t, Sorting(s, X, d), Sorting(t, Y, d),
         \A x \in X : \A y \in Y : Ahead(d, x, y)
  PROVE  Sorting(s \o t, X \cup Y, d)
<1> DEFINE m == Len(s)
           n == Len(t)
           r == s \o t
<1>1. m \in Nat /\ n \in Nat /\ s \in [1..m -> X] /\ t \in [1..n -> Y]
  BY DEF Sorting
<1>2. s \in Seq(X \cup Y) /\ t \in Seq(X \cup Y)
  BY <1>1
<1>3. r \in Seq(X \cup Y) /\ Len(r) = m + n
  BY <1>2
<1>4. \A i \in 1..m : r[i] = s[i]
  BY <1>2
<1>5. \A i \in 1..n : r[m + i] = t[i]
  BY <1>2
<1>6. \A i \in 1..m + n : i \in 1..m \/ (i - m \in 1..n /\ r[i] = t[i - m])
  <2> SUFFICES ASSUME NEW i \in 1..m + n, i \notin 1..m PROVE i - m \in 1..n /\ r[i] = t[i - m]
    OBVIOUS
  <2>1. i - m \in 1..n /\ m + (i - m) = i
    BY <1>1
  <2>2. QED
    BY <2>1, <1>5
<1>7. \A i \in 1..m : i \in 1..m + n
  BY <1>1
<1>8. \A i \in 1..n : m + i \in 1..m + n
  BY <1>1
<1>9. \A k \in X \cup Y : \E i \in 1..m + n : r[i] = k
  <2>1. ASSUME NEW k \in X PROVE \E i \in 1..m + n : r[i] = k
    <3>1. PICK i \in 1..m : s[i] = k
      BY DEF Sorting
    <3>2. QED
      BY <3>1, <1>4, <1>7
  <2>2. ASSUME NEW k \in Y PROVE \E i \in 1..m + n : r[i] = k
    <3>1. PICK i \in 1..n : t[i] = k
      BY DEF Sorting
    <3>2. QED
      BY <3>1, <1>5, <1>8
  <2>3. QED
    BY <2>1, <2>2
<1>10. ASSUME NEW i \in 1..m + n, NEW j \in 1..m + n, i < j PROVE Ahead(d, r[i], r[j])
  <2>1. CASE i \in 1..m /\ j \in 1..m
    BY <2>1, <1>4, <1>10 DEF Sorting
  <2>2. CASE i \in 1..m /\ j \notin 1..m
    <3>1. r[i] \in X /\ r[j] \in Y
      BY <2>2, <1>1, <1>4, <1>6
    <3>2. QED
      BY <3>1
  <2>3. CASE i \notin 1..m /\ j \notin 1..m
    <3>1. i - m \in 1..n /\ j - m \in 1..n /\ i - m < j - m /\ r[i] = t[i - m] /\ r[j] = t[j - m]
      BY <2>3, <1>1, <1>6, <1>10
    <3>2. QED
      BY <3>1 DEF Sorting
  <2>4. i \notin 1..m => j \notin 1..m
    BY <1>1, <1>10
  <2>5. QED
    BY <2>1, <2>2, <2>3, <2>4
<1> HIDE DEF r
<1>11. QED
  BY <1>3, <1>9, <1>10 DEF Sorting, r

-----------------------------------------------------------------------------
(* Induction over numbers and over finite sets, for sets of what is good.   *)

\* A set of numbers has a least one.
LEMMA LeastNumber ==
  ASSUME NEW N \in SUBSET Nat, N # {}
  PROVE  \E n \in N : \A m \in N : n <= m
<1> DEFINE Below == {pair \in Nat \X Nat : pair[1] < pair[2]}
<1>1. IsWellFoundedOn(Below, Nat)
  BY NatLessThanWellFounded DEF OpToRel
<1>2. \A x, y \in Nat : ~(<<x, y>> \in Below) => y <= x
  OBVIOUS
<1> HIDE DEF Below
<1>3. \E x \in N : \A y \in N : ~(<<y, x>> \in Below)
  BY <1>1, WFMin
<1>4. QED
  BY <1>2, <1>3

\* What is good at 0 and stays good with one more is good at every number.
LEMMA NumbersByInduction ==
  ASSUME NEW Good, 0 \in Good, \A n \in Nat : n \in Good => n + 1 \in Good
  PROVE  Nat \subseteq Good
<1> SUFFICES ASSUME Nat \ Good # {} PROVE FALSE
  OBVIOUS
<1>1. PICK n \in Nat \ Good : \A m \in Nat \ Good : n <= m
  BY LeastNumber
<1>2. n # 0 /\ n - 1 \in Nat
  BY <1>1
<1>3. n - 1 \in Good
  BY <1>1, <1>2
<1>4. QED
  BY <1>1, <1>2, <1>3

\* A set with an element is one larger than without it.
LEMMA OneLess ==
  ASSUME NEW T, IsFiniteSet(T), NEW x \in T, NEW n \in Nat, Cardinality(T) = n + 1
  PROVE  IsFiniteSet(T \ {x}) /\ Cardinality(T \ {x}) = n
<1>1. IsFiniteSet(T \ {x}) /\ Cardinality(T \ {x}) = Cardinality(T) - 1
  BY FS_RemoveElement
<1>2. QED
  BY <1>1

\* What is good for the empty set and stays good with one more element is good for
\* every finite set.
LEMMA SetsByInduction ==
  ASSUME NEW S, IsFiniteSet(S), NEW Good, {} \in Good,
         \A T \in SUBSET S : T \in Good => \A x \in S \ T : T \cup {x} \in Good
  PROVE  S \in Good
<1> DEFINE Sizes == {n \in Nat : \A T \in SUBSET S : Cardinality(T) = n => T \in Good}
<1>1. 0 \in Sizes
  BY FS_EmptySet, FS_Subset
<1>2. ASSUME NEW n \in Nat, n \in Sizes PROVE n + 1 \in Sizes
  <2> SUFFICES ASSUME NEW T \in SUBSET S, Cardinality(T) = n + 1 PROVE T \in Good
    OBVIOUS
  <2>1. IsFiniteSet(T) /\ T # {}
    BY FS_Subset, FS_EmptySet
  <2>2. PICK x : x \in T
    BY <2>1
  <2>3. Cardinality(T \ {x}) = n
    BY <2>1, <2>2, OneLess
  <2>4. T \ {x} \in Good
    BY <1>2, <2>3
  <2>5. T = (T \ {x}) \cup {x} /\ x \in S \ (T \ {x}) /\ T \ {x} \in SUBSET S
    BY <2>2
  <2>6. QED
    BY <2>4, <2>5
<1> HIDE DEF Sizes
<1>3. Nat \subseteq Sizes
  BY <1>1, <1>2, NumbersByInduction
<1>4. Cardinality(S) \in Nat
  BY FS_CardinalityType
<1>5. QED
  BY <1>3, <1>4 DEF Sizes

-----------------------------------------------------------------------------
(* A loop, and one statement of it.                                         *)

\* The states of a loop of n turns.
Turns(f, first, step, n) ==
  f = [i \in 0..n |-> IF i = 0 THEN first ELSE step[f[i - 1]]]

\* What each turn keeps holds after all of them.
LEMMA Loop ==
  ASSUME NEW S, NEW step \in [S -> S], NEW first \in S, NEW n \in Nat
  PROVE  \E f \in [0..n -> S] : Turns(f, first, step, n)
<1> DEFINE Good == {m \in Nat : \E f \in [0..m -> S] :
                       f[0] = first /\ \A i \in 1..m : f[i] = step[f[i - 1]]}
<1>1. 0 \in Good
  <2>1. [i \in 0..0 |-> first] \in [0..0 -> S]
    OBVIOUS
  <2>2. [i \in 0..0 |-> first][0] = first
    OBVIOUS
  <2>3. \A i \in 1..0 : FALSE
    OBVIOUS
  <2>4. QED
    BY <2>1, <2>2, <2>3
<1>2. ASSUME NEW m \in Nat, m \in Good PROVE m + 1 \in Good
  <2>1. PICK f \in [0..m -> S] : f[0] = first /\ \A i \in 1..m : f[i] = step[f[i - 1]]
    BY <1>2
  <2> DEFINE g == [i \in 0..m + 1 |-> IF i = m + 1 THEN step[f[m]] ELSE f[i]]
  <2>2. step[f[m]] \in S
    BY <2>1
  <2>3. \A i \in 0..m + 1 : i = m + 1 \/ i \in 0..m
    OBVIOUS
  <2>4. g \in [0..m + 1 -> S]
    BY <2>2, <2>3
  <2>5. g[0] = first
    BY <2>1
  <2>6. ASSUME NEW i \in 1..m + 1 PROVE g[i] = step[g[i - 1]]
    <3>1. i \in 0..m + 1 /\ i - 1 \in 0..m + 1 /\ i - 1 # m + 1
      OBVIOUS
    <3>2. g[i - 1] = f[i - 1]
      BY <3>1
    <3>3. CASE i = m + 1
      BY <3>1, <3>2, <3>3
    <3>4. CASE i # m + 1
      BY <3>1, <3>2, <3>4, <2>1
    <3>5. QED
      BY <3>3, <3>4
  <2> HIDE DEF g
  <2>7. QED
    BY <2>4, <2>5, <2>6
<1> HIDE DEF Good
<1>3. n \in Good
  BY <1>1, <1>2, NumbersByInduction
<1>4. PICK f \in [0..n -> S] : f[0] = first /\ \A i \in 1..n : f[i] = step[f[i - 1]]
  BY <1>3 DEF Good
<1>5. \A i \in 0..n : i = 0 \/ i \in 1..n
  OBVIOUS
<1>6. Turns(f, first, step, n)
  BY <1>4, <1>5 DEF Turns
<1>7. QED
  BY <1>6

\* What one statement returns: the first n keys of A, and what is left is after them.
Answered(b, A, n, d) ==
  /\ b \in Seq(Pairs) /\ Len(b) = Least(n, Cardinality(A))
  /\ \A i \in 1..Len(b) : b[i] = InOrder(A, d)[i] /\ b[i] \in A
  /\ ToSet(b) \in SUBSET A
  /\ Sorting(b, ToSet(b), d)
  /\ \A i, j \in 1..Len(b) : i < j => Ahead(d, b[i], b[j])
  /\ \A x \in ToSet(b) : \A y \in A \ ToSet(b) : Ahead(d, x, y)
  /\ Len(b) < n => ToSet(b) = A
  /\ b = <<>> => A = {}
  /\ b # <<>> => /\ Last(b) \in ToSet(b)
                 /\ After(A, Last(b), d) = A \ ToSet(b)
  /\ IsFiniteSet(ToSet(b)) /\ Cardinality(ToSet(b)) = Len(b)
  /\ Cardinality(A \ ToSet(b)) = Cardinality(A) - Len(b)

\* The first n keys of a set are such an answer.
LEMMA TakenAre ==
  ASSUME NEW A \in SUBSET Pairs, IsFiniteSet(A), NEW d \in BOOLEAN, NEW n \in Nat \ {0}
  PROVE  Answered(Take(n, InOrder(A, d)), A, n, d)
<1> DEFINE b == Take(n, InOrder(A, d))
           a == InOrder(A, d)
           c == Cardinality(A)
           m == Least(n, c)
           N == ToSet(b)
<1>1. /\ a \in Seq(A) /\ Len(a) = c /\ c \in Nat
      /\ \A i \in 1..c : a[i] \in A
      /\ \A i, j \in 1..c : i < j => Ahead(d, a[i], a[j])
      /\ \A k \in A : \E i \in 1..c : a[i] = k
  BY PlaceInOrder
<1>2. m \in Nat /\ m <= n /\ m <= c /\ (m < n => m = c) /\ (m = 0 => c = 0)
  BY <1>1 DEF Least
<1>3. b \in Seq(A) /\ Len(b) = m /\ \A i \in 1..m : b[i] = a[i]
  BY <1>1, TakeIs
<1> HIDE DEF a, b, c, m
<1>4. \A i \in 1..m : i \in 1..c
  BY <1>1, <1>2
<1>5. N = {a[i] : i \in 1..m} /\ N = {b[i] : i \in 1..m}
  BY <1>3 DEF ToSet
<1>6. \A i \in 1..m : b[i] = a[i] /\ b[i] \in A
  BY <1>1, <1>3, <1>4
<1>7. N \in SUBSET A
  BY <1>5, <1>6
<1>8. \A i, j \in 1..m : i < j => Ahead(d, b[i], b[j])
  BY <1>1, <1>3, <1>4
<1>9. b \in Seq(N)
  BY <1>3, <1>5
<1>10. Sorting(b, N, d)
  BY <1>3, <1>5, <1>8, <1>9 DEF Sorting
<1>11. ASSUME NEW i \in 1..c PROVE a[i] \in N <=> i <= m
  <2>1. CASE i <= m
    BY <2>1, <1>5, <1>2
  <2>2. CASE m < i
    <3> SUFFICES ASSUME a[i] \in N PROVE FALSE
      BY <2>2, <1>1, <1>2
    <3>1. PICK j \in 1..m : a[j] = a[i]
      BY <1>5
    <3>2. Ahead(d, a[j], a[i]) /\ a[i] \in Pairs
      BY <2>2, <1>1, <1>2, <1>4
    <3>3. QED
      BY <3>1, <3>2, AheadOrders
  <2>3. QED
    BY <2>1, <2>2, <1>1, <1>2
<1>12. \A x \in N : \A y \in A \ N : Ahead(d, x, y)
  <2> SUFFICES ASSUME NEW x \in N, NEW y \in A \ N PROVE Ahead(d, x, y)
    OBVIOUS
  <2>1. PICK i \in 1..m : a[i] = x
    BY <1>5
  <2>2. PICK j \in 1..c : a[j] = y
    BY <1>1
  <2>3. ~(j <= m)
    BY <1>11, <2>2
  <2>4. i < j
    BY <2>3, <1>2, <1>1
  <2>5. QED
    BY <2>1, <2>2, <2>4, <1>1, <1>4
<1>13. m < n => N = A
  <2> SUFFICES ASSUME m < n, NEW k \in A PROVE k \in N
    BY <1>7
  <2>1. PICK i \in 1..c : a[i] = k
    BY <1>1
  <2>2. QED
    BY <2>1, <1>2, <1>5
<1>14. b = <<>> => A = {}
  <2> SUFFICES ASSUME b = <<>>, NEW k \in A PROVE FALSE
    OBVIOUS
  <2>1. m = 0 /\ c = 0
    BY <1>2, <1>3
  <2>2. QED
    BY <2>1, <1>1
<1>15. ASSUME b # <<>> PROVE Last(b) \in N /\ After(A, Last(b), d) = A \ N
  <2>1. m # 0 /\ m \in 1..m
    BY <1>2, <1>3, <1>15
  <2>2. Last(b) = b[m] /\ b[m] \in N /\ b[m] \in Pairs /\ b[m] # Nil
    BY <2>1, <1>3, <1>5, <1>7, SearchAssumption DEF Last, Pairs
  <2>3. After(A, Last(b), d) = {k \in A : Ahead(d, b[m], k)}
    BY <2>2 DEF After
  <2>4. ASSUME NEW k \in N PROVE ~Ahead(d, b[m], k)
    <3>1. PICK i \in 1..m : b[i] = k
      BY <1>5
    <3>2. k \in Pairs
      BY <1>7
    <3>3. CASE i = m
      BY <3>1, <3>3, <2>2, AheadOrders
    <3>4. CASE i # m
      <4>1. i < m
        BY <3>4, <1>2
      <4>2. Ahead(d, k, b[m])
        BY <4>1, <3>1, <2>1, <1>8
      <4>3. QED
        BY <4>2, <3>2, <2>2, AheadOrders
    <3>5. QED
      BY <3>3, <3>4
  <2>5. \A k \in A \ N : Ahead(d, b[m], k)
    BY <2>2, <1>12
  <2>6. QED
    BY <2>2, <2>3, <2>4, <2>5
<1>16. IsFiniteSet(N) /\ Cardinality(N) = m
  <2>1. N \in SUBSET Pairs
    BY <1>7
  <2> HIDE DEF N
  <2>2. QED
    BY <2>1, <1>3, <1>10, SortingIsInOrder
<1>17. Cardinality(A \ N) = c - m
  <2>1. Cardinality(A \ N) = Cardinality(A) - Cardinality(A \cap N)
    BY FS_Difference
  <2>2. A \cap N = N
    BY <1>7
  <2>3. QED
    BY <2>1, <2>2, <1>16 DEF c
<1>18. \A i \in 1..Len(b) : b[i] = a[i] /\ b[i] \in A
  BY <1>3, <1>6
<1>19. b \in Seq(Pairs)
  BY <1>3
<1> HIDE DEF N
<1>20. QED
  BY <1>3, <1>7, <1>8, <1>10, <1>12, <1>13, <1>14, <1>15, <1>16, <1>17, <1>18, <1>19
     DEF N, a, b, c, m, Answered

\* After the last key of an answer is after the anchor it was asked with.
LEMMA AfterTheAnswer ==
  ASSUME NEW R \in SUBSET Pairs, NEW at \in Pairs \cup {Nil}, NEW d \in BOOLEAN,
         NEW k \in After(R, at, d)
  PROVE  After(R, k, d) = After(After(R, at, d), k, d)
<1>1. k \in Pairs /\ k # Nil /\ k \in R
  BY SearchAssumption DEF After, Pairs
<1>2. CASE at = Nil
  BY <1>2 DEF After
<1>3. CASE at # Nil
  <2>1. at \in Pairs /\ Ahead(d, at, k)
    BY <1>3 DEF After
  <2>2. \A x \in R : Ahead(d, k, x) => Ahead(d, at, x)
    BY <2>1, <1>1, AheadOrders
  <2>3. QED
    BY <2>2, <1>1, <1>3 DEF After
<1>4. QED
  BY <1>2, <1>3

\* What is not after an anchor is ahead of what is.
LEMMA AnchorDivides ==
  ASSUME NEW R \in SUBSET Pairs, NEW at \in Pairs \cup {Nil}, NEW d \in BOOLEAN,
         NEW x \in R, x \notin After(R, at, d), NEW y \in After(R, at, d)
  PROVE  Ahead(d, x, y)
<1>1. at # Nil
  BY DEF After
<1>2. at \in Pairs /\ ~Ahead(d, at, x) /\ Ahead(d, at, y) /\ y \in Pairs /\ x \in Pairs
  BY <1>1 DEF After
<1>3. QED
  BY <1>2, AheadOrders

-----------------------------------------------------------------------------
(* One batch of candidate rows, of one statement or of several that overlap *)
(* (_loan_candidate_batch, _purchase_candidate_batch).                      *)

\* Types of what a search reads.
ListingOK ==
  /\ search \in Search
  /\ DOMAIN listed \in SUBSET Rows
  /\ listed \in [DOMAIN listed -> Values]
  /\ accepted \in SUBSET DOMAIN listed

AcceptedKeys(K) == {k \in K : k[2] \in accepted}

Listed == RowKeys(DOMAIN listed)

\* Rows have one key each, and no more keys than there are rows.
LEMMA RowKeysAre ==
  ASSUME ListingOK, NEW rows \in SUBSET DOMAIN listed
  PROVE  /\ RowKeys(rows) \in SUBSET Pairs
         /\ IsFiniteSet(RowKeys(rows))
         /\ Cardinality(RowKeys(rows)) \in 0..Cardinality(Rows)
         /\ Cardinality(Rows) \in Nat
         /\ \A k \in RowKeys(rows) : k = <<listed[k[2]], k[2]>> /\ k[2] \in rows
         /\ \A r \in rows : <<listed[r], r>> \in RowKeys(rows)
<1> DEFINE K == RowKeys(rows)
           key == [r \in rows |-> <<listed[r], r>>]
<1>1. IsFiniteSet(rows) /\ Cardinality(rows) <= Cardinality(Rows) /\ Cardinality(Rows) \in Nat
  <2>1. rows \in SUBSET Rows
    BY DEF ListingOK
  <2>2. QED
    BY <2>1, SearchAssumption, FS_Subset, FS_CardinalityType
<1>2. \A r \in rows : listed[r] \in Nat /\ r \in Nat
  BY SearchAssumption DEF ListingOK
<1>3. K \in SUBSET Pairs
  BY <1>2 DEF RowKeys, Pairs
<1>4. \A k \in K : k = <<listed[k[2]], k[2]>> /\ k[2] \in rows
  BY DEF RowKeys
<1>5. \A r \in rows : <<listed[r], r>> \in K
  BY DEF RowKeys
<1>6. key \in Surjection(rows, K)
  BY <1>4, <1>5 DEF Surjection
<1>7. IsFiniteSet(K) /\ Cardinality(K) <= Cardinality(rows)
  BY <1>1, <1>6, FS_Surjection
<1>8. Cardinality(K) \in Nat /\ Cardinality(rows) \in Nat
  BY <1>1, <1>7, FS_CardinalityType
<1>9. QED
  BY <1>1, <1>3, <1>4, <1>5, <1>7, <1>8

\* The rows one statement returns, and all of them.
Answer(t, at, d) == Fetch(RowKeys({r \in DOMAIN listed : t \in StreamsOf[r]}), at, d, BatchSize)
Answers(at, d) == UNION {ToSet(Answer(t, at, d)) : t \in Streams}

\* The statements overlap or not: merged and cut they are the next rows of all.
LEMMA CandidateBatchIs ==
  ASSUME ListingOK, NEW at, NEW d \in BOOLEAN
  PROVE  CandidateBatch(at, d) = Take(BatchSize, InOrder(After(Listed, at, d), d))
<1> DEFINE R == Listed
           Part(t) == RowKeys({r \in DOMAIN listed : t \in StreamsOf[r]})
           A == After(R, at, d)
           U == Answers(at, d)
<1>1. CandidateBatch(at, d) = Take(BatchSize, InOrder(U, d))
  BY DEF CandidateBatch, Answers, Answer
<1>2. /\ R \in SUBSET Pairs /\ IsFiniteSet(R)
      /\ \A k \in R : k = <<listed[k[2]], k[2]>> /\ k[2] \in DOMAIN listed
  BY RowKeysAre DEF Listed
<1>3. A \in SUBSET Pairs /\ IsFiniteSet(A) /\ A \subseteq R
  BY <1>2, AfterIsPart
<1>4. \A t \in Streams : /\ Part(t) \in SUBSET Pairs /\ IsFiniteSet(Part(t))
                         /\ Part(t) \subseteq R
  <2> SUFFICES ASSUME NEW t \in Streams
               PROVE  /\ Part(t) \in SUBSET Pairs /\ IsFiniteSet(Part(t))
                      /\ Part(t) \subseteq R
    OBVIOUS
  <2>1. {r \in DOMAIN listed : t \in StreamsOf[r]} \in SUBSET DOMAIN listed
    OBVIOUS
  <2>2. Part(t) \in SUBSET Pairs /\ IsFiniteSet(Part(t))
    BY <2>1, RowKeysAre
  <2>3. Part(t) \subseteq R
    BY DEF RowKeys, Listed
  <2>4. QED
    BY <2>2, <2>3
<1>5. \A t \in Streams : /\ After(Part(t), at, d) \in SUBSET Pairs
                         /\ IsFiniteSet(After(Part(t), at, d))
                         /\ After(Part(t), at, d) \subseteq A
  <2> SUFFICES ASSUME NEW t \in Streams
               PROVE  /\ After(Part(t), at, d) \in SUBSET Pairs
                      /\ IsFiniteSet(After(Part(t), at, d))
                      /\ After(Part(t), at, d) \subseteq A
    OBVIOUS
  <2>1. /\ After(Part(t), at, d) \in SUBSET Pairs
        /\ IsFiniteSet(After(Part(t), at, d))
    BY <1>4, AfterIsPart
  <2>2. After(Part(t), at, d) \subseteq A
    BY <1>4 DEF After
  <2>3. QED
    BY <2>1, <2>2
<1>6. BatchSize \in Nat \ {0}
  BY SearchAssumption
<1> HIDE DEF A, Part
<1>7. \A t \in Streams : Answer(t, at, d) = Take(BatchSize, InOrder(After(Part(t), at, d), d))
  BY DEF Answer, Fetch, Part
<1>8. ASSUME NEW t \in Streams PROVE ToSet(Answer(t, at, d)) \subseteq A
  <2> DEFINE At == After(Part(t), at, d)
             b == Answer(t, at, d)
  <2>1. At \in SUBSET Pairs /\ IsFiniteSet(At) /\ At \subseteq A /\ b = Take(BatchSize, InOrder(At, d))
    BY <1>5, <1>7
  <2> HIDE DEF At, b
  <2>2. ToSet(b) \in SUBSET At
    BY <2>1, <1>6, TakenAre DEF Answered
  <2>3. QED
    BY <2>1, <2>2 DEF b
<1>9. U \in SUBSET A
  BY <1>8 DEF Answers
<1>10. ASSUME NEW i \in 1..Least(BatchSize, Cardinality(A)) PROVE InOrder(A, d)[i] \in U
  <2> DEFINE k == InOrder(A, d)[i]
  <2>1. Cardinality(A) \in Nat
    BY <1>3, FS_CardinalityType
  <2>2. i \in 1..Cardinality(A) /\ i <= BatchSize /\ i \in Nat
    BY <2>1, <1>6 DEF Least
  <2>3. k \in A /\ Cardinality(Before(A, k, d)) = i - 1
    BY ONLY <1>3, <2>2, PlaceInOrder, <1>10
  <2>4. k \in R /\ k[2] \in DOMAIN listed /\ k = <<listed[k[2]], k[2]>>
    BY <1>2, <1>3, <2>3
  <2>5. PICK t \in Streams : t \in StreamsOf[k[2]]
    <3>1. StreamsOf[k[2]] \in (SUBSET Streams) \ {{}}
      BY <2>4, SearchAssumption DEF ListingOK
    <3>2. QED
      BY <3>1
  <2>6. k \in Part(t)
    BY <2>4, <2>5 DEF Part, RowKeys
  <2>7. k \in After(Part(t), at, d)
    BY <2>3, <2>6 DEF After, A
  <2> DEFINE At == After(Part(t), at, d)
             u == InOrder(At, d)
  <2> HIDE DEF k
  <2>8. At \in SUBSET Pairs /\ IsFiniteSet(At) /\ At \subseteq A /\ k \in At
    BY <1>5, <2>7
  <2>9. Answer(t, at, d) = Take(BatchSize, u)
    BY <1>7
  <2> HIDE DEF At
  <2>10. /\ u \in Seq(At) /\ Len(u) = Cardinality(At) /\ Cardinality(At) \in Nat
         /\ \A x \in At : \E j \in 1..Cardinality(At) : u[j] = x
         /\ \A j \in 1..Cardinality(At) : Cardinality(Before(At, u[j], d)) = j - 1
    BY <2>8, PlaceInOrder
  <2>11. PICK j \in 1..Cardinality(At) : u[j] = k
    BY <2>8, <2>10
  <2>12. Cardinality(Before(At, k, d)) = j - 1
    BY <2>10, <2>11
  <2>13. Cardinality(Before(At, k, d)) <= Cardinality(Before(A, k, d))
    <3>1. Before(At, k, d) \subseteq Before(A, k, d)
      BY <2>8 DEF Before
    <3>2. IsFiniteSet(Before(A, k, d))
      BY <1>3, <2>3, FewerBefore
    <3>3. QED
      BY <3>1, <3>2, FS_Subset
  <2>14. j <= i
    BY <2>3, <2>12, <2>13, <2>2, <2>10
  <2>15. j \in 1..Least(BatchSize, Len(u))
    BY <2>2, <2>10, <2>14, <1>6 DEF Least
  <2> HIDE DEF u
  <2>16. Take(BatchSize, u)[j] = k /\ Take(BatchSize, u) \in Seq(At) /\ Len(Take(BatchSize, u)) = Least(BatchSize, Len(u))
    BY <2>10, <2>11, <2>15, <1>6, TakeIs
  <2>17. k \in ToSet(Answer(t, at, d))
    BY <2>9, <2>15, <2>16 DEF ToSet
  <2>18. QED
    BY <2>17 DEF Answers, k
<1>11. Take(BatchSize, InOrder(U, d)) = Take(BatchSize, InOrder(A, d))
  BY ONLY <1>3, <1>6, <1>9, <1>10, PartWithTheFirst
<1>12. QED
  BY <1>1, <1>11 DEF A

-----------------------------------------------------------------------------
(* The scan of rows (_scan_eligible_rows, _scan_purchase_affordable_rows):  *)
(* its loop invariant, and that it ends with what a sort of all wanted      *)
(* rows would give.                                                         *)

Anchors == Pairs \cup {Nil}
ScanStates == [at : Anchors, found : Seq(Pairs), done : BOOLEAN]

\* What a scan of rows looks for, and what it has passed.
Wanted(anchor, d) == After(RowKeys(Matching), anchor, d)
Passed(anchor, at, d) == Wanted(anchor, d) \ After(Listed, at, d)

\* A scan that goes on has found everything it has passed, and less than it needs;
\* one that is done has what a sort of all wanted rows would give.
RowScanInv(s, anchor, d, n) ==
  /\ s \in ScanStates
  /\ s.done => s.found = Take(PageSize + 1, InOrder(Wanted(anchor, d), d))
  /\ ~s.done =>
       /\ After(Listed, s.at, d) \subseteq After(Listed, anchor, d)
       /\ s.found = InOrder(Passed(anchor, s.at, d), d)
       /\ Len(s.found) <= PageSize
       /\ Cardinality(After(Listed, s.at, d)) + n <= Cardinality(Rows)

\* The wanted rows, and those of them that a scan has passed.
LEMMA WantedAre ==
  ASSUME ListingOK, search.runtime, NEW anchor, NEW d \in BOOLEAN
  PROVE  /\ Wanted(anchor, d) = AcceptedKeys(After(Listed, anchor, d))
         /\ Wanted(anchor, d) \in SUBSET Pairs /\ IsFiniteSet(Wanted(anchor, d))
<1>1. Matching = accepted
  BY DEF Matching, ListingOK
<1>2. RowKeys(accepted) = AcceptedKeys(Listed)
  BY DEF RowKeys, AcceptedKeys, Listed, ListingOK
<1>3. Wanted(anchor, d) = AcceptedKeys(After(Listed, anchor, d))
  BY <1>1, <1>2 DEF Wanted, AcceptedKeys, After
<1>4. RowKeys(Matching) \in SUBSET Pairs /\ IsFiniteSet(RowKeys(Matching))
  BY <1>1, RowKeysAre DEF ListingOK
<1>5. Wanted(anchor, d) \in SUBSET Pairs /\ IsFiniteSet(Wanted(anchor, d))
  BY <1>4, AfterIsPart DEF Wanted
<1>6. QED
  BY <1>3, <1>5

\* One turn of the loop.
LEMMA RowTurn ==
  ASSUME ListingOK, search.runtime, NEW anchor \in Anchors, NEW d \in BOOLEAN, NEW n \in Nat,
         NEW s, RowScanInv(s, anchor, d, n), ~s.done
  PROVE  RowScanInv(ReadCandidates(s, d), anchor, d, n + 1)
<1> DEFINE W == Wanted(anchor, d)
           A == After(Listed, s.at, d)
           D == Passed(anchor, s.at, d)
           b == CandidateBatch(s.at, d)
           N == ToSet(b)
           t == ReadCandidates(s, d)
           V == W \ (A \ N)
           all == s.found \o InOrder(AcceptedKeys(N), d)
<1>1. /\ s \in ScanStates /\ s.at \in Anchors /\ s.found \in Seq(Pairs)
      /\ A \subseteq After(Listed, anchor, d)
      /\ s.found = InOrder(D, d)
      /\ Len(s.found) <= PageSize
      /\ Cardinality(A) + n <= Cardinality(Rows)
  BY DEF RowScanInv, ScanStates
<1>2. PageSize \in Nat \ {0} /\ BatchSize \in Nat \ {0} /\ Cardinality(Rows) \in Nat
  BY SearchAssumption, FS_CardinalityType
<1>3. W = AcceptedKeys(After(Listed, anchor, d)) /\ W \in SUBSET Pairs /\ IsFiniteSet(W)
  BY WantedAre
<1>4. Listed \in SUBSET Pairs /\ IsFiniteSet(Listed)
  BY RowKeysAre DEF Listed
<1>5. A \in SUBSET Pairs /\ IsFiniteSet(A) /\ A \subseteq Listed /\ Cardinality(A) \in Nat
  BY <1>4, AfterIsPart, FS_CardinalityType
<1>6. b = Take(BatchSize, InOrder(A, d))
  BY CandidateBatchIs
<1>7. /\ t.at = IF b = <<>> THEN s.at ELSE Last(b)
      /\ t.found = Take(PageSize + 1, all)
      /\ t.done <=> Len(all) > PageSize \/ Len(b) < BatchSize
      /\ t.done \in BOOLEAN
      /\ t = [at |-> t.at, found |-> t.found, done |-> t.done]
  BY DEF ReadCandidates, AcceptedKeys
<1> HIDE DEF A, b, t
<1>8. /\ b \in Seq(Pairs) /\ Len(b) = Least(BatchSize, Cardinality(A))
      /\ N \in SUBSET A
      /\ \A x \in N : \A y \in A \ N : Ahead(d, x, y)
      /\ Len(b) < BatchSize => N = A
      /\ b = <<>> => A = {}
      /\ b # <<>> => Last(b) \in N /\ After(A, Last(b), d) = A \ N
      /\ Cardinality(A \ N) = Cardinality(A) - Len(b)
  <2>1. Answered(b, A, BatchSize, d)
    BY <1>2, <1>5, <1>6, TakenAre
  <2>2. QED
    BY <2>1 DEF Answered
<1> HIDE DEF N
<1>9. t.at \in Anchors /\ After(Listed, t.at, d) = A \ N
  <2>1. CASE b = <<>>
    BY <2>1, <1>1, <1>7, <1>8 DEF A
  <2>2. CASE b # <<>>
    <3>1. t.at = Last(b) /\ Last(b) \in A /\ After(A, Last(b), d) = A \ N
      BY <2>2, <1>7, <1>8
    <3>2. s.at \in Pairs \cup {Nil}
      BY <1>1 DEF Anchors
    <3>3. After(Listed, Last(b), d) = After(A, Last(b), d)
      BY <3>1, <3>2, <1>4, AfterTheAnswer DEF A
    <3>4. t.at \in Pairs
      BY <3>1, <1>5
    <3>5. QED
      BY <3>1, <3>3, <3>4 DEF Anchors
  <2>3. QED
    BY <2>1, <2>2
<1>10. /\ D \in SUBSET Pairs /\ IsFiniteSet(D) /\ D = W \ A
       /\ AcceptedKeys(N) \in SUBSET Pairs
       /\ D \cup AcceptedKeys(N) = V
       /\ V \in SUBSET W /\ V \in SUBSET Pairs
  <2>1. D = W \ A
    BY DEF Passed, A
  <2>2. IsFiniteSet(D)
    BY <2>1, <1>3, FS_Subset
  <2>3. AcceptedKeys(N) \subseteq W /\ AcceptedKeys(N) \subseteq N
    BY <1>1, <1>3, <1>8 DEF AcceptedKeys, A
  <2>4. \A w \in W : w \in N => w \in AcceptedKeys(N)
    BY <1>3 DEF AcceptedKeys
  <2>5. QED
    BY <2>1, <2>2, <2>3, <2>4, <1>3, <1>8
<1>11. \A x \in W \ A : \A y \in A : Ahead(d, x, y)
  <2> SUFFICES ASSUME NEW x \in W \ A, NEW y \in A PROVE Ahead(d, x, y)
    OBVIOUS
  <2>1. x \in Listed /\ x \notin After(Listed, s.at, d) /\ y \in After(Listed, s.at, d)
    BY <1>3 DEF A, AcceptedKeys, After
  <2>2. s.at \in Pairs \cup {Nil}
    BY <1>1 DEF Anchors
  <2>3. QED
    BY ONLY <2>1, <2>2, <1>4, AnchorDivides
<1>12. Sorting(all, V, d)
  <2>1. Sorting(InOrder(D, d), D, d)
    BY <1>10, InOrderSorts
  <2>2. IsFiniteSet(AcceptedKeys(N))
    <3>1. AcceptedKeys(N) \subseteq A
      BY <1>8 DEF AcceptedKeys
    <3>2. QED
      BY <3>1, <1>5, FS_Subset
  <2>3. Sorting(InOrder(AcceptedKeys(N), d), AcceptedKeys(N), d)
    BY <2>2, <1>10, InOrderSorts
  <2>4. \A x \in D : \A y \in AcceptedKeys(N) : Ahead(d, x, y)
    BY <1>8, <1>10, <1>11 DEF AcceptedKeys
  <2>5. Sorting(InOrder(D, d) \o InOrder(AcceptedKeys(N), d), D \cup AcceptedKeys(N), d)
    BY ONLY <2>1, <2>3, <2>4, <1>10, ThenInOrder
  <2>6. QED
    BY <2>5, <1>1, <1>10
<1> HIDE DEF all
<1>13. InOrder(V, d) = all /\ Cardinality(V) = Len(all) /\ IsFiniteSet(V) /\ all \in Seq(Pairs)
  <2>1. all \in Seq(Pairs)
    BY <1>12, <1>10 DEF Sorting
  <2> HIDE DEF V
  <2>2. QED
    BY <2>1, <1>10, <1>12, SortingIsInOrder
<1> HIDE DEF V
<1>14. t \in ScanStates
  <2>1. t.found \in Seq(Pairs)
    BY <1>2, <1>7, <1>13, TakeIs
  <2>2. QED
    BY <2>1, <1>7, <1>9 DEF ScanStates
<1>15. ASSUME t.done PROVE t.found = Take(PageSize + 1, InOrder(W, d))
  <2>1. CASE Len(b) < BatchSize
    <3>1. V = W
      BY <2>1, <1>8 DEF V
    <3>2. QED
      BY <3>1, <1>7, <1>13
  <2>2. CASE Len(all) > PageSize
    <3>1. PageSize + 1 <= Cardinality(V) /\ PageSize + 1 \in Nat \ {0} /\ PageSize + 1 \in 1..Cardinality(V)
      BY <2>2, <1>2, <1>13
    <3>2. InOrder(V, d)[PageSize + 1] \in V
      BY <3>1, <1>10, <1>13, PlaceInOrder
    <3>3. \A x \in W \ V : Ahead(d, InOrder(V, d)[PageSize + 1], x)
      <4>1. \A x \in W \ V : x \in A \ N
        BY DEF V
      <4>2. \A v \in V : v \in W \ A \/ v \in N
        BY DEF V
      <4>3. QED
        BY <3>2, <4>1, <4>2, <1>8, <1>11
    <3>4. Take(PageSize + 1, InOrder(V, d)) = Take(PageSize + 1, InOrder(W, d))
      BY ONLY <3>1, <3>3, <1>3, <1>10, PartBeforeTheRest
    <3>5. QED
      BY <3>4, <1>7, <1>13
  <2>3. QED
    BY <2>1, <2>2, <1>7, <1>15
<1>16. ASSUME ~t.done
       PROVE  /\ After(Listed, t.at, d) \subseteq After(Listed, anchor, d)
              /\ t.found = InOrder(Passed(anchor, t.at, d), d)
              /\ Len(t.found) <= PageSize
              /\ Cardinality(After(Listed, t.at, d)) + (n + 1) <= Cardinality(Rows)
  <2>1. Len(all) <= PageSize /\ Len(b) >= BatchSize /\ Len(all) \in Nat /\ Len(b) \in Nat
    BY <1>2, <1>7, <1>8, <1>13, <1>16
  <2>2. t.found = all
    BY <2>1, <1>2, <1>7, <1>13, TakeAll
  <2>3. Passed(anchor, t.at, d) = V
    BY <1>9 DEF Passed, V
  <2>4. Cardinality(A \ N) <= Cardinality(A) - 1 /\ Cardinality(A \ N) \in Int
    BY <2>1, <1>2, <1>5, <1>8
  <2>5. QED
    BY <2>1, <2>2, <2>3, <2>4, <1>1, <1>2, <1>5, <1>9, <1>13
<1>17. QED
  BY <1>14, <1>15, <1>16 DEF RowScanInv, t

\* A turn that is not needed any more changes nothing.
LEMMA RowTurnTyped ==
  ASSUME ListingOK, NEW d \in BOOLEAN, NEW s \in ScanStates
  PROVE  ReadCandidates(s, d) \in ScanStates
<1> DEFINE A == After(Listed, s.at, d)
           b == CandidateBatch(s.at, d)
           N == ToSet(b)
           t == ReadCandidates(s, d)
           all == s.found \o InOrder(AcceptedKeys(N), d)
<1>1. s.at \in Anchors /\ s.found \in Seq(Pairs)
  BY DEF ScanStates
<1>2. PageSize \in Nat \ {0} /\ BatchSize \in Nat \ {0}
  BY SearchAssumption
<1>3. Listed \in SUBSET Pairs /\ IsFiniteSet(Listed)
  BY RowKeysAre DEF Listed
<1>4. A \in SUBSET Pairs /\ IsFiniteSet(A)
  BY <1>3, AfterIsPart
<1>5. b = Take(BatchSize, InOrder(A, d))
  BY CandidateBatchIs
<1>6. /\ t.at = IF b = <<>> THEN s.at ELSE Last(b)
      /\ t.found = Take(PageSize + 1, all)
      /\ t.done \in BOOLEAN
      /\ t = [at |-> t.at, found |-> t.found, done |-> t.done]
  BY DEF ReadCandidates, AcceptedKeys
<1> HIDE DEF A, b, t
<1>7. N \in SUBSET A /\ (b # <<>> => Last(b) \in N)
  <2>1. Answered(b, A, BatchSize, d)
    BY <1>2, <1>4, <1>5, TakenAre
  <2>2. QED
    BY <2>1 DEF Answered
<1> HIDE DEF N
<1>8. AcceptedKeys(N) \in SUBSET Pairs /\ IsFiniteSet(AcceptedKeys(N))
  <2>1. AcceptedKeys(N) \subseteq A
    BY <1>7 DEF AcceptedKeys
  <2>2. QED
    BY <2>1, <1>4, FS_Subset
<1>9. InOrder(AcceptedKeys(N), d) \in Seq(Pairs)
  <2>1. InOrder(AcceptedKeys(N), d) \in Seq(AcceptedKeys(N))
    BY <1>8, PlaceInOrder
  <2>2. QED
    BY <2>1, <1>8
<1>10. all \in Seq(Pairs)
  BY <1>1, <1>9
<1> HIDE DEF all
<1>11. Take(PageSize + 1, all) \in Seq(Pairs)
  <2>1. PageSize + 1 \in Nat
    BY <1>2
  <2>2. QED
    BY <2>1, <1>10, TakeIs
<1>12. t.at \in Anchors
  BY <1>1, <1>4, <1>6, <1>7 DEF Anchors
<1>13. QED
  BY <1>6, <1>11, <1>12 DEF ScanStates, t

RowStart(anchor) == [at |-> anchor, found |-> <<>>, done |-> FALSE]

RowTurns(f, anchor, d) ==
  f = [n \in 0..Cardinality(Rows) + 1 |->
         IF n = 0 THEN RowStart(anchor)
         ELSE LET s == f[n - 1] IN IF s.done THEN s ELSE ReadCandidates(s, d)]

\* The scan is that loop.
LEMMA ScanRowsUnfolds ==
  ASSUME NEW anchor, NEW d
  PROVE  ScanRows(anchor, d) = (CHOOSE f : RowTurns(f, anchor, d))[Cardinality(Rows) + 1].found
  BY DEF ScanRows, RowTurns, RowStart

\* The scan finds what a sort of all wanted rows would give.
LEMMA ScanRowsIs ==
  ASSUME ListingOK, search.runtime, NEW anchor \in Anchors, NEW d \in BOOLEAN
  PROVE  ScanRows(anchor, d) = Take(PageSize + 1, InOrder(Wanted(anchor, d), d))
<1> DEFINE N == Cardinality(Rows)
           step == [s \in ScanStates |-> IF s.done THEN s ELSE ReadCandidates(s, d)]
<1>1. N \in Nat /\ N + 1 \in Nat
  BY SearchAssumption, FS_CardinalityType
<1>2. RowStart(anchor) \in ScanStates
  BY DEF RowStart, ScanStates
<1>3. step \in [ScanStates -> ScanStates]
  BY RowTurnTyped
<1> HIDE DEF N
<1>4. \E f : RowTurns(f, anchor, d)
  <2> HIDE DEF step
  <2>1. PICK f \in [0..N + 1 -> ScanStates] : Turns(f, RowStart(anchor), step, N + 1)
    BY <1>1, <1>2, <1>3, Loop
  <2>2. \A i \in 0..N + 1 : i # 0 =>
          step[f[i - 1]] = LET s == f[i - 1] IN IF s.done THEN s ELSE ReadCandidates(s, d)
    <3> SUFFICES ASSUME NEW i \in 0..N + 1, i # 0
                 PROVE  step[f[i - 1]] = IF f[i - 1].done THEN f[i - 1] ELSE ReadCandidates(f[i - 1], d)
      OBVIOUS
    <3>1. f[i - 1] \in ScanStates
      BY <1>1
    <3>2. QED
      BY <3>1 DEF step
  <2>3. f = [i \in 0..N + 1 |->
               IF i = 0 THEN RowStart(anchor)
               ELSE LET s == f[i - 1] IN IF s.done THEN s ELSE ReadCandidates(s, d)]
    BY <2>1, <2>2 DEF Turns
  <2>4. RowTurns(f, anchor, d)
    BY <2>3 DEF RowTurns, N
  <2>5. QED
    BY <2>4
<1> DEFINE f == CHOOSE f : RowTurns(f, anchor, d)
<1>5. RowTurns(f, anchor, d)
  BY <1>4
<1> HIDE DEF f
<1>6. f[0] = RowStart(anchor)
      /\ \A i \in 0..N : f[i + 1] = IF f[i].done THEN f[i] ELSE ReadCandidates(f[i], d)
  <2>1. f = [n \in 0..N + 1 |->
               IF n = 0 THEN RowStart(anchor)
               ELSE IF f[n - 1].done THEN f[n - 1] ELSE ReadCandidates(f[n - 1], d)]
    BY <1>5 DEF RowTurns, N
  <2>2. 0 \in 0..N + 1
    BY <1>1
  <2>3. \A i \in 0..N : i + 1 \in 0..N + 1 /\ i + 1 # 0 /\ (i + 1) - 1 = i
    BY <1>1
  <2>4. QED
    BY <2>1, <2>2, <2>3
<1> DEFINE Good == {n \in Nat : n <= N + 1 => RowScanInv(f[n], anchor, d, n)}
<1>7. 0 \in Good
  <2>1. Passed(anchor, anchor, d) = {}
    <3>1. Wanted(anchor, d) \subseteq After(Listed, anchor, d)
      BY WantedAre DEF AcceptedKeys
    <3>2. QED
      BY <3>1 DEF Passed
  <2>2. InOrder({}, d) = <<>>
    <3>1. Sorting(<<>>, {}, d)
      BY DEF Sorting
    <3>2. {} \in SUBSET Pairs
      OBVIOUS
    <3>3. QED
      BY <3>1, <3>2, SortingIsInOrder
  <2>3. Cardinality(After(Listed, anchor, d)) + 0 <= Cardinality(Rows)
    <3>1. Listed \in SUBSET Pairs /\ IsFiniteSet(Listed) /\ Cardinality(Listed) \in 0..Cardinality(Rows) /\ Cardinality(Rows) \in Nat
      BY RowKeysAre DEF Listed
    <3>2. Cardinality(After(Listed, anchor, d)) \in 0..Cardinality(Listed)
      BY <3>1, AfterIsPart
    <3>3. QED
      BY <3>1, <3>2
  <2>4. PageSize >= 0
    BY SearchAssumption
  <2>5. RowScanInv(RowStart(anchor), anchor, d, 0)
    BY <2>1, <2>2, <2>3, <2>4, <1>2 DEF RowScanInv, RowStart
  <2>6. QED
    BY <2>5, <1>6
<1>8. ASSUME NEW n \in Nat, n \in Good PROVE n + 1 \in Good
  <2> SUFFICES ASSUME n + 1 <= N + 1 PROVE RowScanInv(f[n + 1], anchor, d, n + 1)
    OBVIOUS
  <2>1. n \in 0..N /\ n <= N + 1
    BY <1>1
  <2>2. RowScanInv(f[n], anchor, d, n)
    BY <1>8, <2>1
  <2>3. CASE f[n].done
    BY <2>1, <2>2, <2>3, <1>6 DEF RowScanInv
  <2>4. CASE ~f[n].done
    <3>1. RowScanInv(ReadCandidates(f[n], d), anchor, d, n + 1)
      BY <2>2, <2>4, RowTurn
    <3>2. QED
      BY <3>1, <2>1, <2>4, <1>6
  <2>5. QED
    BY <2>3, <2>4
<1> HIDE DEF Good
<1>9. N + 1 \in Good
  BY <1>1, <1>7, <1>8, NumbersByInduction
<1>10. RowScanInv(f[N + 1], anchor, d, N + 1)
  BY <1>1, <1>9 DEF Good
<1>11. f[N + 1].done
  <2> SUFFICES ASSUME ~f[N + 1].done PROVE FALSE
    OBVIOUS
  <2>1. Cardinality(After(Listed, f[N + 1].at, d)) + (N + 1) <= N
    BY <1>10 DEF RowScanInv, N
  <2>2. Cardinality(After(Listed, f[N + 1].at, d)) \in Nat
    <3>1. Listed \in SUBSET Pairs /\ IsFiniteSet(Listed)
      BY RowKeysAre DEF Listed
    <3>2. QED
      BY <3>1, AfterIsPart
  <2>3. QED
    BY <2>1, <2>2, <1>1
<1>12. f[N + 1].found = Take(PageSize + 1, InOrder(Wanted(anchor, d), d))
  BY <1>10, <1>11 DEF RowScanInv
<1>13. QED
  BY <1>12, ScanRowsUnfolds DEF f, N

-----------------------------------------------------------------------------
(* The keys of groups.  What is shown of a group is never ahead of its raw  *)
(* key, the smallest or largest value of all its rows.                      *)

\* Min and Max are what they are called.
LEMMA MinIsLeast ==
  ASSUME NEW S \in SUBSET Nat, S # {}
  PROVE  Min(S) \in S /\ \A y \in S : Min(S) <= y
  BY LeastNumber DEF Min

LEMMA MaxIsGreatest ==
  ASSUME NEW S \in SUBSET Nat, IsFiniteSet(S), S # {}
  PROVE  Max(S) \in S /\ \A y \in S : Max(S) >= y
<1> DEFINE Good == {T \in SUBSET S : T # {} => \E m \in T : \A y \in T : m >= y}
<1>1. {} \in Good
  OBVIOUS
<1>2. ASSUME NEW T \in SUBSET S, T \in Good, NEW x \in S \ T PROVE T \cup {x} \in Good
  <2>1. CASE T = {}
    BY <2>1
  <2>2. CASE T # {}
    <3>1. PICK m \in T : \A y \in T : m >= y
      BY <1>2, <2>2
    <3>2. CASE m >= x
      BY <3>1, <3>2
    <3>3. CASE ~(m >= x)
      <4>1. \A y \in T \cup {x} : x >= y
        BY <3>1, <3>3
      <4>2. QED
        BY <4>1
    <3>4. QED
      BY <3>2, <3>3
  <2>3. QED
    BY <2>1, <2>2
<1> HIDE DEF Good
<1>3. S \in Good
  BY <1>1, <1>2, SetsByInduction
<1>4. \E m \in S : \A y \in S : m >= y
  BY <1>3 DEF Good
<1>5. QED
  BY <1>4 DEF Max

GroupOf(rows, c) == {r \in rows : ComplexOf[r] = c}
GroupValues(rows, c) == {listed[r] : r \in GroupOf(rows, c)}
Complexes(rows) == {ComplexOf[r] : r \in rows}
GroupValue(rows, desc, kind, c) ==
  IF desc \/ kind = "highest" THEN Max(GroupValues(rows, c)) ELSE Min(GroupValues(rows, c))

\* The keys of groups by their definition.
LEMMA GroupKeysUnfold ==
  ASSUME NEW rows, NEW desc, NEW kind
  PROVE  GroupKeys(rows, desc, kind) = {<<GroupValue(rows, desc, kind, c), c>> : c \in Complexes(rows)}
  BY DEF GroupKeys, GroupValue, GroupValues, GroupOf, Complexes

\* A group of listed rows has a value, and finitely many.
LEMMA GroupValuesAre ==
  ASSUME ListingOK, NEW rows \in SUBSET DOMAIN listed, NEW c \in Complexes(rows)
  PROVE  /\ GroupValues(rows, c) \in SUBSET Nat /\ GroupValues(rows, c) # {}
         /\ IsFiniteSet(GroupValues(rows, c))
         /\ Min(GroupValues(rows, c)) \in GroupValues(rows, c)
         /\ \A y \in GroupValues(rows, c) : Min(GroupValues(rows, c)) <= y
         /\ Max(GroupValues(rows, c)) \in GroupValues(rows, c)
         /\ \A y \in GroupValues(rows, c) : Max(GroupValues(rows, c)) >= y
<1> DEFINE S == GroupValues(rows, c)
           G == GroupOf(rows, c)
           value == [r \in G |-> listed[r]]
<1>1. S \in SUBSET Nat
  BY SearchAssumption DEF ListingOK, GroupValues, GroupOf
<1>2. S # {}
  BY DEF GroupValues, GroupOf, Complexes
<1>3. IsFiniteSet(G)
  <2>1. G \subseteq Rows
    BY DEF GroupOf, ListingOK
  <2>2. QED
    BY <2>1, SearchAssumption, FS_Subset
<1>4. value \in Surjection(G, S)
  BY DEF Surjection, GroupValues
<1>5. IsFiniteSet(S)
  BY <1>3, <1>4, FS_Surjection
<1> HIDE DEF S
<1>6. Min(S) \in S /\ \A y \in S : Min(S) <= y
  BY <1>1, <1>2, MinIsLeast
<1>7. Max(S) \in S /\ \A y \in S : Max(S) >= y
  BY <1>1, <1>2, <1>5, MaxIsGreatest
<1>8. QED
  BY <1>1, <1>2, <1>5, <1>6, <1>7 DEF S

\* A complex has one key, whatever is asked for.
LEMMA GroupKeysAre ==
  ASSUME ListingOK, NEW rows \in SUBSET DOMAIN listed, NEW desc \in BOOLEAN, NEW kind
  PROVE  /\ GroupKeys(rows, desc, kind) \in SUBSET Pairs
         /\ IsFiniteSet(GroupKeys(rows, desc, kind))
         /\ Cardinality(GroupKeys(rows, desc, kind)) \in 0..Cardinality(Rows)
         /\ \A k \in GroupKeys(rows, desc, kind) :
              k[2] \in Complexes(rows) /\ k = <<GroupValue(rows, desc, kind, k[2]), k[2]>>
         /\ \A c \in Complexes(rows) :
              <<GroupValue(rows, desc, kind, c), c>> \in GroupKeys(rows, desc, kind)
         /\ \A j, k \in GroupKeys(rows, desc, kind) : j[2] = k[2] => j = k
<1> DEFINE K == GroupKeys(rows, desc, kind)
           key == [r \in rows |-> <<GroupValue(rows, desc, kind, ComplexOf[r]), ComplexOf[r]>>]
<1>1. K = {<<GroupValue(rows, desc, kind, c), c>> : c \in Complexes(rows)}
  BY GroupKeysUnfold
<1> HIDE DEF K
<1>2. ASSUME NEW c \in Complexes(rows) PROVE GroupValue(rows, desc, kind, c) \in Nat /\ c \in Nat
  <2>1. Min(GroupValues(rows, c)) \in Nat /\ Max(GroupValues(rows, c)) \in Nat
    BY GroupValuesAre
  <2>2. c \in Nat
    BY SearchAssumption DEF Complexes, ListingOK
  <2>3. QED
    BY <2>1, <2>2 DEF GroupValue
<1>3. K \in SUBSET Pairs
  BY <1>1, <1>2 DEF Pairs
<1>4. /\ \A k \in K : k[2] \in Complexes(rows) /\ k = <<GroupValue(rows, desc, kind, k[2]), k[2]>>
      /\ \A c \in Complexes(rows) : <<GroupValue(rows, desc, kind, c), c>> \in K
  BY <1>1
<1>5. \A j, k \in K : j[2] = k[2] => j = k
  <2> SUFFICES ASSUME NEW j \in K, NEW k \in K, j[2] = k[2] PROVE j = k
    OBVIOUS
  <2>1. j = <<GroupValue(rows, desc, kind, j[2]), j[2]>> /\ k = <<GroupValue(rows, desc, kind, k[2]), k[2]>>
    BY <1>4
  <2>2. QED
    BY <2>1
<1>6. IsFiniteSet(rows) /\ Cardinality(rows) <= Cardinality(Rows) /\ Cardinality(Rows) \in Nat
  <2>1. rows \in SUBSET Rows
    BY DEF ListingOK
  <2>2. QED
    BY <2>1, SearchAssumption, FS_Subset, FS_CardinalityType
<1>7. key \in Surjection(rows, K)
  <2>1. \A r \in rows : key[r] \in K
    BY <1>1 DEF Complexes
  <2>2. \A k \in K : \E r \in rows : key[r] = k
    BY <1>1 DEF Complexes
  <2>3. QED
    BY <2>1, <2>2 DEF Surjection
<1>8. IsFiniteSet(K) /\ Cardinality(K) <= Cardinality(rows)
  BY <1>6, <1>7, FS_Surjection
<1>9. Cardinality(K) \in Nat /\ Cardinality(rows) \in Nat
  BY <1>6, <1>8, FS_CardinalityType
<1>10. QED
  BY <1>3, <1>4, <1>5, <1>6, <1>8, <1>9 DEF K

\* The keys of the scan of groups.
RawKeys == GroupKeys(DOMAIN listed, search.desc, "spread")

\* What is shown of a complex does not come before its candidates.
LEMMA RawComesFirst ==
  ASSUME ListingOK, NEW k \in GroupKeys(Matching, search.desc, search.kind)
  PROVE  \E r \in RawKeys : r[2] = k[2] /\ (r = k \/ Ahead(search.desc, r, k))
<1> DEFINE c == k[2]
           all == GroupValues(DOMAIN listed, c)
           some == GroupValues(Matching, c)
           r == <<GroupValue(DOMAIN listed, search.desc, "spread", c), c>>
<1>1. Matching \in SUBSET DOMAIN listed /\ search.desc \in BOOLEAN
  BY DEF Matching, ListingOK, Search
<1>2. c \in Complexes(Matching) /\ k = <<GroupValue(Matching, search.desc, search.kind, c), c>>
  BY <1>1, GroupKeysAre
<1>3. c \in Complexes(DOMAIN listed)
  BY <1>1, <1>2 DEF Complexes
<1>4. some \subseteq all
  BY <1>1 DEF GroupValues, GroupOf
<1>5. r \in RawKeys
  BY <1>1, <1>3, GroupKeysAre DEF RawKeys
<1>6. c \in Nat
  BY SearchAssumption, <1>2 DEF Complexes, ListingOK, Matching
<1> HIDE DEF c
<1>7. /\ all \in SUBSET Nat
      /\ Min(all) \in all /\ Max(all) \in all
      /\ \A y \in all : Min(all) <= y /\ Max(all) >= y
  BY <1>3, GroupValuesAre
<1>8. Min(some) \in some /\ Max(some) \in some
  BY <1>1, <1>2, GroupValuesAre
<1>9. CASE search.desc
  <2>1. r = <<Max(all), c>> /\ k = <<Max(some), c>>
    BY <1>2, <1>9 DEF GroupValue
  <2>2. Max(some) <= Max(all) /\ Max(some) \in Nat /\ Max(all) \in Nat
    BY <1>4, <1>7, <1>8
  <2>3. r = k \/ Ahead(search.desc, r, k)
    <3> HIDE DEF all, some, r
    <3>1. CASE Max(some) = Max(all)
      BY <2>1, <3>1
    <3>2. CASE Max(some) < Max(all)
      BY <2>1, <3>2, <1>9 DEF Ahead
    <3>3. QED
      BY <2>2, <3>1, <3>2
  <2>4. QED
    BY <1>5, <2>3 DEF c
<1>10. CASE ~search.desc
  <2>1. r = <<Min(all), c>>
    BY <1>10 DEF GroupValue
  <2>2. PICK v \in some : k = <<v, c>>
    BY <1>2, <1>8, <1>10 DEF GroupValue
  <2>3. Min(all) <= v /\ v \in Nat /\ Min(all) \in Nat
    BY <1>4, <1>7
  <2>4. r = k \/ Ahead(search.desc, r, k)
    <3> HIDE DEF all, some, r
    <3>1. CASE Min(all) = v
      BY <2>1, <2>2, <3>1
    <3>2. CASE Min(all) < v
      BY <2>1, <2>2, <3>2, <1>10 DEF Ahead
    <3>3. QED
      BY <2>3, <3>1, <3>2
  <2>5. QED
    BY <1>5, <2>4 DEF c
<1>11. QED
  BY <1>9, <1>10

-----------------------------------------------------------------------------
(* A page by one keyset: rows, or groups by one statement.                  *)

\* The matches and the raw keys are finitely many keys.
LEMMA MatchingKeysAre ==
  ASSUME ListingOK
  PROVE  /\ MatchingKeys \in SUBSET Pairs /\ IsFiniteSet(MatchingKeys)
         /\ Matching \in SUBSET DOMAIN listed /\ search.desc \in BOOLEAN
         /\ RawKeys \in SUBSET Pairs /\ IsFiniteSet(RawKeys)
         /\ Cardinality(RawKeys) \in 0..Cardinality(Rows)
         /\ \A j, k \in RawKeys : j[2] = k[2] => j = k
<1>1. Matching \in SUBSET DOMAIN listed /\ search.desc \in BOOLEAN
  BY DEF Matching, ListingOK, Search
<1>2. /\ RawKeys \in SUBSET Pairs /\ IsFiniteSet(RawKeys)
      /\ Cardinality(RawKeys) \in 0..Cardinality(Rows)
      /\ \A j, k \in RawKeys : j[2] = k[2] => j = k
  BY <1>1, GroupKeysAre DEF RawKeys
<1>3. /\ GroupKeys(Matching, search.desc, search.kind) \in SUBSET Pairs
      /\ IsFiniteSet(GroupKeys(Matching, search.desc, search.kind))
  BY <1>1, GroupKeysAre
<1>4. RowKeys(Matching) \in SUBSET Pairs /\ IsFiniteSet(RowKeys(Matching))
  BY <1>1, RowKeysAre
<1>5. MatchingKeys \in SUBSET Pairs /\ IsFiniteSet(MatchingKeys)
  BY <1>3, <1>4 DEF MatchingKeys
<1>6. QED
  BY <1>1, <1>2, <1>5

\* Every search with one anchor returns the first keys of all that match after it.
LEMMA ReadIs ==
  ASSUME ListingOK, ~(search.runtime /\ search.grouped), NEW anchor \in Anchors, NEW d \in BOOLEAN
  PROVE  Read(anchor, d) = Take(PageSize + 1, InOrder(After(MatchingKeys, anchor, d), d))
<1>1. CASE search.runtime
  <2>1. ~search.grouped
    BY <1>1
  <2>2. Read(anchor, d) = ScanRows(anchor, d)
    BY <1>1 DEF Read
  <2>3. MatchingKeys = RowKeys(Matching)
    BY <2>1 DEF MatchingKeys
  <2>4. ScanRows(anchor, d) = Take(PageSize + 1, InOrder(Wanted(anchor, d), d))
    BY <1>1, ScanRowsIs
  <2>5. QED
    BY <2>2, <2>3, <2>4 DEF Wanted
<1>2. CASE ~search.runtime /\ search.grouped
  BY <1>2 DEF Read, MatchingKeys, Matching, Fetch
<1>3. CASE ~search.runtime /\ ~search.grouped
  BY <1>3 DEF Read, MatchingKeys, Matching, Fetch
<1>4. QED
  BY <1>1, <1>2, <1>3

CursorOf == [key : Pairs, scan : Anchors, fp : Nat \cup {Nil}]

\* A group that a scan from this anchor comes upon.
Reached(start, w) == \E r \in After(RawKeys, start, search.desc) : r[2] = w[2]

\* What a page is cut from.
Offered(anchor, start) ==
  {w \in After(MatchingKeys, anchor, search.desc) :
     search.runtime /\ search.grouped => Reached(start, w)}

\* The page has the first of what it is cut from; it has a next cursor when that is
\* not all, and from there a scan comes upon everything that is left.
CutFrom(p, W) ==
  /\ p.items = Take(PageSize, InOrder(W, search.desc))
  /\ p.next = Nil <=> Cardinality(W) <= PageSize
  /\ p.next # Nil =>
       /\ p.next = [key |-> p.next.key, scan |-> p.next.scan, fp |-> Fingerprint]
       /\ p.next.key = InOrder(W, search.desc)[PageSize]
       /\ p.next.scan \in Anchors
       /\ \A w \in W : Ahead(search.desc, p.next.key, w) =>
            (search.runtime /\ search.grouped => Reached(p.next.scan, w))

\* A page is cut from finitely many keys.
LEMMA OfferedAre ==
  ASSUME ListingOK, NEW anchor, NEW start
  PROVE  /\ Offered(anchor, start) \in SUBSET Pairs
         /\ IsFiniteSet(Offered(anchor, start)) /\ Cardinality(Offered(anchor, start)) \in Nat
<1>1. After(MatchingKeys, anchor, search.desc) \in SUBSET Pairs
      /\ IsFiniteSet(After(MatchingKeys, anchor, search.desc))
  BY MatchingKeysAre, AfterIsPart
<1>2. Offered(anchor, start) \subseteq After(MatchingKeys, anchor, search.desc)
  BY DEF Offered
<1>3. QED
  BY <1>1, <1>2, FS_Subset, FS_CardinalityType

\* A cursor is not the lack of one.
LEMMA CursorIsNotNil ==
  ASSUME NEW key, NEW scan, Cursor(key, scan) \in CursorOf
  PROVE  Cursor(key, scan) # Nil
  BY SearchAssumption DEF CursorOf, Anchors, Pairs

\* What is cut twice is cut once; the look-ahead tells whether there is more.
LEMMA TakeOfTake ==
  ASSUME NEW T, NEW s \in Seq(T), NEW n \in Nat \ {0}
  PROVE  /\ Take(n, Take(n + 1, s)) = Take(n, s)
         /\ Len(Take(n + 1, s)) > n <=> Len(s) > n
         /\ Len(s) > n => Last(Take(n, s)) = s[n]
         /\ Take(n, s) = <<>> <=> s = <<>>
         /\ Take(n + 1, s) = <<>> <=> s = <<>>
<1> DEFINE a == Take(n + 1, s)
           b == Take(n, s)
           c == Take(n, a)
<1>1. n + 1 \in Nat /\ n \in Nat /\ Len(s) \in Nat /\ n >= 1
  OBVIOUS
<1>2. /\ a \in Seq(T) /\ Len(a) = Least(n + 1, Len(s))
      /\ \A i \in 1..Least(n + 1, Len(s)) : a[i] = s[i]
  BY <1>1, TakeIs
<1>3. /\ b \in Seq(T) /\ Len(b) = Least(n, Len(s))
      /\ \A i \in 1..Least(n, Len(s)) : b[i] = s[i]
  BY <1>1, TakeIs
<1> HIDE DEF a
<1>4. /\ c \in Seq(T) /\ Len(c) = Least(n, Len(a))
      /\ \A i \in 1..Least(n, Len(a)) : c[i] = a[i]
  BY <1>1, <1>2, TakeIs
<1>5. Least(n, Len(a)) = Least(n, Len(s)) /\ Least(n, Len(s)) <= Least(n + 1, Len(s))
      /\ Least(n, Len(s)) \in Nat /\ Least(n + 1, Len(s)) \in Nat
  BY <1>1, <1>2 DEF Least
<1>6. c = b
  <2>1. \A i \in 1..Least(n, Len(s)) : i \in 1..Least(n + 1, Len(s))
    BY <1>5
  <2>2. Len(c) = Len(b) /\ \A i \in 1..Len(c) : c[i] = b[i]
    BY <2>1, <1>2, <1>3, <1>4, <1>5
  <2> HIDE DEF b, c
  <2>3. QED
    BY <2>2, <1>3, <1>4, SameSequence
<1>7. Len(a) > n <=> Len(s) > n
  BY <1>1, <1>2 DEF Least
<1>8. Len(s) > n => Last(b) = s[n]
  BY <1>1, <1>3 DEF Least, Last
<1>9. \A t \in Seq(T) : t = <<>> <=> Len(t) = 0
  OBVIOUS
<1>10. (Len(a) = 0 <=> Len(s) = 0) /\ (Len(b) = 0 <=> Len(s) = 0)
  BY <1>1, <1>2, <1>3 DEF Least
<1> HIDE DEF b, c
<1>11. QED
  BY <1>2, <1>3, <1>6, <1>7, <1>8, <1>9, <1>10 DEF a, b, c

\* A fingerprint is a profile, or none.
LEMMA FingerprintIs ==
  ASSUME profile \in Nat
  PROVE  /\ Fingerprint \in Nat \cup {Nil}
         /\ \A key \in Pairs, scan \in Anchors :
              /\ Cursor(key, scan) \in CursorOf /\ Cursor(key, scan) # Nil
              /\ Cursor(key, scan) = [key |-> key, scan |-> scan, fp |-> Fingerprint]
              /\ Cursor(key, scan).key = key /\ Cursor(key, scan).scan = scan
              /\ Cursor(key, scan).fp = Fingerprint
<1>1. Fingerprint \in Nat \cup {Nil}
  BY DEF Fingerprint
<1>2. ASSUME NEW key \in Pairs, NEW scan \in Anchors
      PROVE  /\ Cursor(key, scan) \in CursorOf /\ Cursor(key, scan) # Nil
             /\ Cursor(key, scan) = [key |-> key, scan |-> scan, fp |-> Fingerprint]
             /\ Cursor(key, scan).key = key /\ Cursor(key, scan).scan = scan
             /\ Cursor(key, scan).fp = Fingerprint
  <2>1. Cursor(key, scan) = [key |-> key, scan |-> scan, fp |-> Fingerprint]
    BY DEF Cursor
  <2>2. Cursor(key, scan) \in CursorOf
    BY <1>1, <2>1 DEF CursorOf
  <2>3. QED
    BY <2>1, <2>2, CursorIsNotNil
<1>3. QED
  BY <1>1, <1>2

\* A page by one keyset is cut from all that match after its anchor.
LEMMA KeysetPageIsCut ==
  ASSUME ListingOK, profile \in Nat, ~(search.runtime /\ search.grouped),
         NEW anchor \in Anchors, NEW start
  PROVE  CutFrom(KeysetPage(anchor), Offered(anchor, start))
<1> DEFINE d == search.desc
           W == Offered(anchor, start)
           s == InOrder(W, d)
           found == Read(anchor, d)
           items == Take(PageSize, found)
           p == KeysetPage(anchor)
<1>1. PageSize \in Nat \ {0} /\ d \in BOOLEAN
  BY SearchAssumption, MatchingKeysAre
<1>2. W = After(MatchingKeys, anchor, d) /\ W \in SUBSET Pairs /\ IsFiniteSet(W)
  BY OfferedAre DEF Offered
<1>3. found = Take(PageSize + 1, s)
  BY <1>1, <1>2, ReadIs
<1>4. s \in Seq(Pairs) /\ Len(s) = Cardinality(W) /\ Cardinality(W) \in Nat
      /\ \A i \in 1..Cardinality(W) : s[i] \in Pairs
  <2>1. s \in Seq(W) /\ Len(s) = Cardinality(W) /\ Cardinality(W) \in Nat
    BY <1>1, <1>2, PlaceInOrder
  <2>2. QED
    BY <2>1, <1>2
<1> HIDE DEF s
<1>5. /\ items = Take(PageSize, s)
      /\ Len(found) > PageSize <=> Len(s) > PageSize
      /\ Len(s) > PageSize => Last(items) = s[PageSize]
      /\ items = <<>> <=> s = <<>>
      /\ found = <<>> <=> s = <<>>
  BY <1>1, <1>3, <1>4, TakeOfTake
<1>6. CASE found = <<>>
  <2>1. p.items = <<>> /\ p.next = Nil
    BY <1>6 DEF KeysetPage, EmptyPage
  <2>2. s = <<>> /\ Cardinality(W) = 0 /\ Take(PageSize, s) = <<>>
    BY <1>4, <1>5, <1>6
  <2>3. QED
    BY <2>1, <2>2, <1>1 DEF CutFrom, s
<1>7. CASE found # <<>>
  <2>1. p.items = items /\ p.next = IF Len(found) > PageSize THEN Cursor(Last(items), Nil) ELSE Nil
    BY <1>7 DEF KeysetPage
  <2>2. CASE Len(s) > PageSize
    <3>1. p.next = Cursor(s[PageSize], Nil) /\ s[PageSize] \in Pairs /\ Nil \in Anchors
      BY <2>1, <2>2, <1>1, <1>4, <1>5 DEF Anchors
    <3> HIDE DEF p, items
    <3>2. p.next # Nil /\ p.next.key = s[PageSize] /\ p.next.scan = Nil
          /\ p.next = [key |-> p.next.key, scan |-> p.next.scan, fp |-> Fingerprint]
      BY <3>1, FingerprintIs
    <3>3. QED
      BY <2>1, <2>2, <3>1, <3>2, <1>1, <1>4, <1>5 DEF CutFrom, s, p
  <2>3. CASE ~(Len(s) > PageSize)
    <3>1. p.next = Nil /\ Cardinality(W) <= PageSize
      BY <2>1, <2>3, <1>1, <1>4, <1>5
    <3>2. QED
      BY <3>1, <2>1, <1>5 DEF CutFrom, s
  <2>4. QED
    BY <2>2, <2>3
<1>8. QED
  BY <1>6, <1>7

-----------------------------------------------------------------------------
(* The scan of groups (_search_runtime_filtered_grouped).  It goes in the   *)
(* order of the raw keys and shows in the order of the keys that qualify.   *)

GroupEntries == [key : Pairs, raw : Pairs, before : Anchors]
GroupStates == [at : Anchors, found : SUBSET GroupEntries, done : BOOLEAN]

\* The candidates a scan has come upon.
ScannedOf(start, at, d) == After(RawKeys, start, d) \ After(RawKeys, at, d)

Meets(W, S) == {w \in W : \E r \in S : r[2] = w[2]}

\* An entry is a wanted group with its place in the scan.
EntryFits(q, start, at, W, d) ==
  /\ q.key \in W /\ q.raw[2] = q.key[2]
  /\ q.raw \in ScannedOf(start, at, d)
  /\ q.before \in Anchors
  /\ After(RawKeys, q.before, d)
       = {r \in After(RawKeys, start, d) : r = q.raw \/ Ahead(d, q.raw, r)}

\* A scan has found the wanted groups among the candidates it came upon.  When it
\* stops there are no more candidates, or no later one can come before what it has.
GroupScanInv(s, start, W, d, n) ==
  /\ s \in GroupStates
  /\ After(RawKeys, s.at, d) \subseteq After(RawKeys, start, d)
  /\ Keys(s.found) = Meets(W, ScannedOf(start, s.at, d))
  /\ \A q \in s.found : EntryFits(q, start, s.at, W, d)
  /\ ~s.done => Cardinality(After(RawKeys, s.at, d)) + n <= Cardinality(Rows)
  /\ s.done => \/ After(RawKeys, s.at, d) = {}
               \/ /\ Cardinality(Keys(s.found)) > PageSize
                  /\ s.at \in Pairs
                  /\ RawBoundIsSafe(s.at, InOrder(Keys(s.found), d)[PageSize + 1], d)

\* What one batch adds.
EntryOf(b, at, i, k) == [key |-> k, raw |-> b[i], before |-> IF i = 1 THEN at ELSE b[i - 1]]
EntriesAt(b, at, W, i) == {EntryOf(b, at, i, k) : k \in {w \in W : w[2] = b[i][2]}}

\* The entries of a batch, candidate by candidate.
LEMMA QualifiedUnfolds ==
  ASSUME NEW b, NEW at, NEW W
  PROVE  Qualified(b, at, W) = UNION {EntriesAt(b, at, W, i) : i \in DOMAIN b}
  BY DEF Qualified, EntriesAt, EntryOf

QualifiedFit(b, start, at, next, W, d) ==
  /\ Qualified(b, at, W) \in SUBSET GroupEntries
  /\ Keys(Qualified(b, at, W)) = Meets(W, ToSet(b))
  /\ \A q \in Qualified(b, at, W) : EntryFits(q, start, next, W, d)

\* A batch adds the wanted groups among its candidates, each at its place.
LEMMA QualifiedAre ==
  ASSUME ListingOK, NEW start \in Anchors, NEW at \in Anchors, NEW d \in BOOLEAN, d = search.desc,
         NEW W \in SUBSET Pairs, NEW b, NEW next,
         After(RawKeys, at, d) \subseteq After(RawKeys, start, d),
         Answered(b, After(RawKeys, at, d), PageSize + 1, d),
         After(RawKeys, next, d) = After(RawKeys, at, d) \ ToSet(b)
  PROVE  QualifiedFit(b, start, at, next, W, d)
<1> DEFINE A == After(RawKeys, at, d)
           Q == Qualified(b, at, W)
           before(i) == IF i = 1 THEN at ELSE b[i - 1]
<1>1. /\ RawKeys \in SUBSET Pairs
      /\ b \in Seq(Pairs) /\ Len(b) \in Nat
      /\ \A i \in 1..Len(b) : b[i] \in A /\ b[i] \in Pairs /\ b[i] \in ToSet(b)
      /\ \A r \in ToSet(b) : \E i \in 1..Len(b) : r = b[i]
      /\ \A i, j \in 1..Len(b) : i < j => Ahead(d, b[i], b[j])
      /\ \A x \in ToSet(b) : \A y \in A \ ToSet(b) : Ahead(d, x, y)
      /\ A \subseteq RawKeys
      /\ DOMAIN b = 1..Len(b)
  <2>1. RawKeys \in SUBSET Pairs
    BY MatchingKeysAre
  <2>2. b \in Seq(Pairs) /\ DOMAIN b = 1..Len(b) /\ Len(b) \in Nat
    BY DEF Answered
  <2>3. A \subseteq RawKeys
    BY DEF After
  <2>4. ToSet(b) = {b[i] : i \in 1..Len(b)}
    BY <2>2 DEF ToSet
  <2>5. QED
    BY <2>1, <2>2, <2>3, <2>4 DEF Answered
<1>2. \A q \in Q : \E i \in 1..Len(b) : \E k \in W :
        k[2] = b[i][2] /\ q = EntryOf(b, at, i, k)
  BY <1>1, QualifiedUnfolds DEF EntriesAt
<1>3. \A i \in 1..Len(b), k \in W : k[2] = b[i][2] => EntryOf(b, at, i, k) \in Q
  BY <1>1, QualifiedUnfolds DEF EntriesAt
<1>4. \A i \in 1..Len(b) : before(i) \in Anchors
  BY <1>1 DEF Anchors
<1>5. \A i \in 1..Len(b), r \in ToSet(b) : i = 1 => r = b[i] \/ Ahead(d, b[i], r)
  <2> SUFFICES ASSUME NEW i \in 1..Len(b), NEW r \in ToSet(b), i = 1, r # b[i]
               PROVE  Ahead(d, b[i], r)
    OBVIOUS
  <2>1. PICK j \in 1..Len(b) : r = b[j]
    BY <1>1
  <2>2. i < j
    BY <2>1, <1>1
  <2>3. QED
    BY <2>1, <2>2, <1>1
<1>6. ASSUME NEW i \in 1..Len(b)
      PROVE  After(RawKeys, before(i), d)
               = {r \in After(RawKeys, start, d) : r = b[i] \/ Ahead(d, b[i], r)}
  <2>1. b[i] \in A /\ b[i] \in Pairs /\ b[i] \in RawKeys
    BY <1>1
  <2>2. \A r \in RawKeys : Ahead(d, b[i], r) => r \in A
    <3> SUFFICES ASSUME NEW r \in RawKeys, Ahead(d, b[i], r) PROVE r \in A
      OBVIOUS
    <3>1. CASE at = Nil
      BY <3>1 DEF After
    <3>2. CASE at # Nil
      <4>1. at \in Pairs /\ Ahead(d, at, b[i]) /\ r \in Pairs
        BY <3>2, <2>1, <1>1 DEF After, Anchors
      <4>2. Ahead(d, at, r)
        BY <4>1, <2>1, AheadOrders
      <4>3. QED
        BY <4>2, <3>2 DEF After
    <3>3. QED
      BY <3>1, <3>2
  <2>3. CASE i = 1
    <3>1. \A r \in A : r = b[i] \/ Ahead(d, b[i], r)
      BY <2>3, <1>1, <1>5
    <3>2. \A r \in After(RawKeys, start, d) : r \in RawKeys
      BY DEF After
    <3>3. before(i) = at
      BY <2>3
    <3>4. A = {r \in After(RawKeys, start, d) : r = b[i] \/ Ahead(d, b[i], r)}
      BY <3>1, <3>2, <2>1, <2>2
    <3>5. QED
      BY <3>3, <3>4
  <2>4. CASE i # 1
    <3> DEFINE e == b[i - 1]
    <3>1. i - 1 \in 1..Len(b) /\ i - 1 < i
      BY <2>4, <1>1
    <3>2. e \in Pairs /\ e \in ToSet(b) /\ e \in A /\ e # Nil /\ Ahead(d, e, b[i])
      BY <3>1, <1>1, SearchAssumption DEF Pairs
    <3>3. After(RawKeys, e, d) = {r \in RawKeys : Ahead(d, e, r)}
      BY <3>2 DEF After
    <3>4. ASSUME NEW r \in RawKeys, Ahead(d, e, r)
          PROVE  r \in A /\ (r = b[i] \/ Ahead(d, b[i], r))
      <4>1. r \in Pairs
        BY <1>1
      <4>2. r \in A
        <5>1. CASE at = Nil
          BY <5>1 DEF After
        <5>2. CASE at # Nil
          <6>1. at \in Pairs /\ Ahead(d, at, e)
            BY <5>2, <3>2 DEF After, Anchors
          <6>2. Ahead(d, at, r)
            BY <6>1, <4>1, <3>2, <3>4, AheadOrders
          <6>3. QED
            BY <6>2, <5>2 DEF After
        <5>3. QED
          BY <5>1, <5>2
      <4>3. CASE r \in ToSet(b)
        <5>1. PICK j \in 1..Len(b) : r = b[j]
          BY <4>3, <1>1
        <5>2. ~(j < i)
          <6> SUFFICES ASSUME j < i PROVE FALSE
            OBVIOUS
          <6>1. j = i - 1 \/ j < i - 1
            BY <1>1
          <6>2. CASE j = i - 1
            BY <6>2, <5>1, <3>2, <3>4, AheadOrders
          <6>3. CASE j < i - 1
            <7>1. Ahead(d, r, e)
              BY <6>3, <5>1, <3>1, <1>1
            <7>2. Ahead(d, r, r)
              BY <7>1, <4>1, <3>2, <3>4, AheadOrders
            <7>3. QED
              BY <7>2, <4>1, AheadOrders
          <6>4. QED
            BY <6>1, <6>2, <6>3
        <5>3. j = i \/ i < j
          BY <5>2, <1>1
        <5>4. QED
          BY <4>2, <5>1, <5>3, <1>1
      <4>4. CASE r \notin ToSet(b)
        BY <4>2, <4>4, <1>1
      <4>5. QED
        BY <4>3, <4>4
    <3>5. ASSUME NEW r \in After(RawKeys, start, d), r = b[i] \/ Ahead(d, b[i], r)
          PROVE  r \in RawKeys /\ Ahead(d, e, r)
      <4>1. r \in RawKeys /\ r \in Pairs
        BY <1>1 DEF After
      <4>2. QED
        BY <4>1, <3>2, <3>5, <2>1, AheadOrders
    <3>6. before(i) = e
      BY <2>4
    <3>7. QED
      BY <3>3, <3>4, <3>5, <3>6
  <2>5. QED
    BY <2>3, <2>4
<1>7. \A i \in 1..Len(b) : b[i] \in ScannedOf(start, next, d)
  BY <1>1 DEF ScannedOf
<1> HIDE DEF Q, before
<1>8. Q \in SUBSET GroupEntries
  <2> SUFFICES ASSUME NEW q \in Q PROVE q \in GroupEntries
    OBVIOUS
  <2>1. PICK i \in 1..Len(b), k \in W : q = EntryOf(b, at, i, k)
    BY <1>2
  <2>2. k \in Pairs /\ b[i] \in Pairs /\ before(i) \in Anchors
    BY <1>1, <1>4
  <2>3. QED
    BY <2>1, <2>2 DEF GroupEntries, EntryOf, before
<1>9. Keys(Q) = Meets(W, ToSet(b))
  <2>1. \A k \in Keys(Q) : k \in Meets(W, ToSet(b))
    <3> SUFFICES ASSUME NEW q \in Q PROVE q.key \in Meets(W, ToSet(b))
      BY DEF Keys
    <3>1. PICK i \in 1..Len(b) : \E k \in W :
            k[2] = b[i][2] /\ q = EntryOf(b, at, i, k)
      BY <1>2
    <3>2. q.key \in W /\ b[i][2] = q.key[2] /\ b[i] \in ToSet(b)
      BY <3>1, <1>1 DEF EntryOf
    <3>3. QED
      BY <3>2 DEF Meets
  <2>2. \A k \in Meets(W, ToSet(b)) : k \in Keys(Q)
    <3> SUFFICES ASSUME NEW k \in W, NEW r \in ToSet(b), r[2] = k[2] PROVE k \in Keys(Q)
      BY DEF Meets
    <3>1. PICK i \in 1..Len(b) : r = b[i]
      BY <1>1
    <3>2. EntryOf(b, at, i, k) \in Q
      BY <3>1, <1>3
    <3>3. EntryOf(b, at, i, k).key = k
      BY DEF EntryOf
    <3>4. QED
      BY <3>2, <3>3 DEF Keys
  <2>3. QED
    BY <2>1, <2>2
<1>10. ASSUME NEW q \in Q PROVE EntryFits(q, start, next, W, d)
  <2>1. PICK i \in 1..Len(b) : \E k \in W :
          k[2] = b[i][2] /\ q = EntryOf(b, at, i, k)
    BY <1>2
  <2>2. q.key \in W /\ q.raw = b[i] /\ q.raw[2] = q.key[2] /\ q.before = before(i)
    BY <2>1 DEF EntryOf, before
  <2>3. QED
    BY <2>2, <1>4, <1>6, <1>7 DEF EntryFits
<1>11. QED
  BY <1>8, <1>9, <1>10 DEF Q, QualifiedFit

\* One turn of the loop.
LEMMA GroupTurn ==
  ASSUME ListingOK, NEW start \in Anchors, NEW d, d = search.desc,
         NEW W \in SUBSET Pairs, NEW n \in Nat,
         NEW s, GroupScanInv(s, start, W, d, n), ~s.done
  PROVE  GroupScanInv(ReadGroups(s, RawKeys, W, d), start, W, d, n + 1)
<1> DEFINE A == After(RawKeys, s.at, d)
           S == After(RawKeys, start, d)
           b == Fetch(RawKeys, s.at, d, PageSize + 1)
           N == ToSet(b)
           Q == Qualified(b, s.at, W)
           t == ReadGroups(s, RawKeys, W, d)
           found == s.found \cup Q
<1>1. /\ s \in GroupStates /\ s.at \in Anchors /\ s.found \in SUBSET GroupEntries
      /\ A \subseteq S
      /\ Keys(s.found) = Meets(W, S \ A)
      /\ \A q \in s.found : EntryFits(q, start, s.at, W, d)
      /\ Cardinality(A) + n <= Cardinality(Rows)
  BY DEF GroupScanInv, GroupStates, ScannedOf
<1>2. PageSize \in Nat \ {0} /\ PageSize + 1 \in Nat \ {0} /\ Cardinality(Rows) \in Nat
  BY SearchAssumption, FS_CardinalityType
<1>3. RawKeys \in SUBSET Pairs /\ IsFiniteSet(RawKeys) /\ d \in BOOLEAN
  BY MatchingKeysAre
<1>4. A \in SUBSET Pairs /\ IsFiniteSet(A) /\ A \subseteq RawKeys /\ Cardinality(A) \in Nat
  BY <1>3, AfterIsPart, FS_CardinalityType
<1>5. Answered(b, A, PageSize + 1, d)
  <2>1. b = Take(PageSize + 1, InOrder(A, d))
    BY DEF Fetch
  <2> HIDE DEF A, b
  <2>2. QED
    BY <2>1, <1>2, <1>3, <1>4, TakenAre
<1>6. /\ t.at = IF b = <<>> THEN s.at ELSE Last(b)
      /\ t.found = found
      /\ t.done <=> \/ Len(b) < PageSize + 1
                    \/ /\ Cardinality(Keys(found)) > PageSize
                       /\ RawBoundIsSafe(t.at, InOrder(Keys(found), d)[PageSize + 1], d)
      /\ t.done \in BOOLEAN
      /\ t = [at |-> t.at, found |-> t.found, done |-> t.done]
  BY DEF ReadGroups
<1> HIDE DEF A, b, t
<1>7. /\ b \in Seq(Pairs) /\ Len(b) = Least(PageSize + 1, Cardinality(A))
      /\ N \in SUBSET A
      /\ Len(b) < PageSize + 1 => N = A
      /\ b = <<>> => A = {}
      /\ b # <<>> => /\ Last(b) \in N
                     /\ After(A, Last(b), d) = A \ N
      /\ Cardinality(A \ N) = Cardinality(A) - Len(b)
  BY <1>5 DEF Answered
<1>8. t.at \in Anchors /\ After(RawKeys, t.at, d) = A \ N /\ (b # <<>> => t.at \in Pairs)
  <2>1. CASE b = <<>>
    BY <2>1, <1>1, <1>6, <1>7 DEF A
  <2>2. CASE b # <<>>
    <3>1. t.at = Last(b) /\ Last(b) \in A /\ After(A, Last(b), d) = A \ N
      BY <2>2, <1>6, <1>7
    <3>2. s.at \in Pairs \cup {Nil}
      BY <1>1 DEF Anchors
    <3>3. After(RawKeys, Last(b), d) = After(A, Last(b), d)
      BY <3>1, <3>2, <1>3, AfterTheAnswer DEF A
    <3>4. t.at \in Pairs
      BY <3>1, <1>4
    <3>5. QED
      BY <3>1, <3>3, <3>4 DEF Anchors
  <2>3. QED
    BY <2>1, <2>2
<1>9. /\ Q \in SUBSET GroupEntries
      /\ Keys(Q) = Meets(W, N)
      /\ \A q \in Q : EntryFits(q, start, t.at, W, d)
  <2>1. /\ After(RawKeys, s.at, d) \subseteq After(RawKeys, start, d)
        /\ After(RawKeys, t.at, d) = After(RawKeys, s.at, d) \ ToSet(b)
        /\ Answered(b, After(RawKeys, s.at, d), PageSize + 1, d)
    BY <1>1, <1>5, <1>8 DEF A
  <2>2. QualifiedFit(b, start, s.at, t.at, W, d)
    BY <2>1, <1>1, <1>3, QualifiedAre
  <2>3. QED
    BY <2>2 DEF QualifiedFit
<1> HIDE DEF Q, N
<1>10. After(RawKeys, t.at, d) \subseteq S
  BY <1>1, <1>8
<1>11. Keys(found) = Meets(W, ScannedOf(start, t.at, d))
  <2>1. Keys(found) = Keys(s.found) \cup Keys(Q)
    BY DEF Keys
  <2>2. ScannedOf(start, t.at, d) = (S \ A) \cup N
    BY <1>1, <1>7, <1>8 DEF ScannedOf
  <2>3. Meets(W, (S \ A) \cup N) = Meets(W, S \ A) \cup Meets(W, N)
    BY DEF Meets
  <2>4. QED
    BY <2>1, <2>2, <2>3, <1>1, <1>9
<1>12. \A q \in found : EntryFits(q, start, t.at, W, d)
  <2>1. ASSUME NEW q \in s.found PROVE EntryFits(q, start, t.at, W, d)
    <3>1. EntryFits(q, start, s.at, W, d)
      BY <1>1
    <3>2. ScannedOf(start, s.at, d) \subseteq ScannedOf(start, t.at, d)
      BY <1>8 DEF ScannedOf, A
    <3>3. QED
      BY <3>1, <3>2 DEF EntryFits
  <2>2. QED
    BY <2>1, <1>9
<1>13. t \in GroupStates
  BY <1>1, <1>6, <1>8, <1>9 DEF GroupStates
<1>14. ASSUME ~t.done PROVE Cardinality(After(RawKeys, t.at, d)) + (n + 1) <= Cardinality(Rows)
  <2>1. ~(Len(b) < PageSize + 1) /\ Len(b) \in Nat
    BY <1>6, <1>7, <1>14
  <2>2. Cardinality(A \ N) <= Cardinality(A) - 1 /\ Cardinality(A \ N) \in Int
    BY <2>1, <1>2, <1>4, <1>7
  <2>3. QED
    BY <2>2, <1>1, <1>2, <1>4, <1>8
<1>15. ASSUME t.done
       PROVE  \/ After(RawKeys, t.at, d) = {}
              \/ /\ Cardinality(Keys(t.found)) > PageSize
                 /\ t.at \in Pairs
                 /\ RawBoundIsSafe(t.at, InOrder(Keys(t.found), d)[PageSize + 1], d)
  <2>1. CASE Len(b) < PageSize + 1
    BY <2>1, <1>7, <1>8
  <2>2. CASE ~(Len(b) < PageSize + 1)
    <3>1. b # <<>>
      BY <2>2, <1>2
    <3>2. QED
      BY <2>2, <3>1, <1>6, <1>8, <1>15
  <2>3. QED
    BY <2>1, <2>2
<1> HIDE DEF found
<1>16. Keys(t.found) = Meets(W, ScannedOf(start, t.at, d))
       /\ \A q \in t.found : EntryFits(q, start, t.at, W, d)
  BY <1>6, <1>11, <1>12
<1>17. QED
  BY <1>10, <1>13, <1>14, <1>15, <1>16 DEF GroupScanInv, t

\* A turn that is not needed any more changes nothing.
LEMMA GroupTurnTyped ==
  ASSUME ListingOK, NEW d, d = search.desc, NEW W \in SUBSET Pairs, NEW s \in GroupStates
  PROVE  ReadGroups(s, RawKeys, W, d) \in GroupStates
<1> DEFINE A == After(RawKeys, s.at, d)
           b == Fetch(RawKeys, s.at, d, PageSize + 1)
           Q == Qualified(b, s.at, W)
           t == ReadGroups(s, RawKeys, W, d)
<1>1. /\ s.at \in Anchors /\ s.found \in SUBSET GroupEntries
  BY DEF GroupStates
<1>2. PageSize + 1 \in Nat \ {0}
  BY SearchAssumption
<1>3. RawKeys \in SUBSET Pairs /\ IsFiniteSet(RawKeys) /\ d \in BOOLEAN
  BY MatchingKeysAre
<1>4. A \in SUBSET Pairs /\ IsFiniteSet(A)
  BY <1>3, AfterIsPart
<1>5. Answered(b, A, PageSize + 1, d)
  <2>1. b = Take(PageSize + 1, InOrder(A, d))
    BY DEF Fetch
  <2> HIDE DEF A, b
  <2>2. QED
    BY <2>1, <1>2, <1>3, <1>4, TakenAre
<1>6. /\ t.at = IF b = <<>> THEN s.at ELSE Last(b)
      /\ t.found = s.found \cup Q
      /\ t.done \in BOOLEAN
      /\ t = [at |-> t.at, found |-> t.found, done |-> t.done]
  BY DEF ReadGroups
<1> HIDE DEF A, b, t
<1>7. b \in Seq(Pairs) /\ (b # <<>> => Last(b) \in Pairs)
  BY <1>4, <1>5 DEF Answered
<1>8. Q \in SUBSET GroupEntries
  <2> SUFFICES ASSUME NEW q \in Q PROVE q \in GroupEntries
    OBVIOUS
  <2>1. PICK i \in 1..Len(b), k \in W : q = EntryOf(b, s.at, i, k)
    BY <1>7, QualifiedUnfolds DEF EntriesAt
  <2>2. i - 1 \in 1..Len(b) \/ i = 1
    BY <1>7
  <2>3. k \in Pairs /\ b[i] \in Pairs /\ (IF i = 1 THEN s.at ELSE b[i - 1]) \in Anchors
    BY <2>2, <1>1, <1>7 DEF Anchors
  <2>4. QED
    BY <2>1, <2>3 DEF GroupEntries, EntryOf
<1> HIDE DEF Q
<1>9. QED
  BY <1>1, <1>6, <1>7, <1>8 DEF GroupStates, Anchors, t

GroupStart(start) == [at |-> start, found |-> {}, done |-> FALSE]

GroupTurns(f, start, W, d) ==
  f = [n \in 0..Cardinality(Rows) + 1 |->
         IF n = 0 THEN GroupStart(start)
         ELSE LET s == f[n - 1] IN IF s.done THEN s ELSE ReadGroups(s, RawKeys, W, d)]

WantedGroups(anchor) == After(GroupKeys(Matching, search.desc, search.kind), anchor, search.desc)

\* The scan is that loop.
LEMMA ScanGroupsUnfolds ==
  ASSUME NEW anchor, NEW start
  PROVE  ScanGroups(anchor, start, search.desc)
           = (CHOOSE f : GroupTurns(f, start, WantedGroups(anchor), search.desc))[Cardinality(Rows) + 1]
  BY DEF ScanGroups, GroupTurns, GroupStart, RawKeys, WantedGroups

\* The scan ends, and with what it was for.
LEMMA ScanGroupsEnds ==
  ASSUME ListingOK, NEW anchor, NEW start \in Anchors
  PROVE  /\ GroupScanInv(ScanGroups(anchor, start, search.desc), start, WantedGroups(anchor),
                         search.desc, Cardinality(Rows) + 1)
         /\ ScanGroups(anchor, start, search.desc).done
<1> DEFINE N == Cardinality(Rows)
           d == search.desc
           W == WantedGroups(anchor)
           step == [s \in GroupStates |-> IF s.done THEN s ELSE ReadGroups(s, RawKeys, W, d)]
<1>1. N \in Nat /\ N + 1 \in Nat
  BY SearchAssumption, FS_CardinalityType
<1>2. GroupStart(start) \in GroupStates
  BY DEF GroupStart, GroupStates
<1>3. W \in SUBSET Pairs
  BY MatchingKeysAre, GroupKeysAre DEF WantedGroups, After
<1> HIDE DEF W
<1>4. step \in [GroupStates -> GroupStates]
  BY <1>3, GroupTurnTyped
<1> HIDE DEF N
<1>5. \E f : GroupTurns(f, start, W, d)
  <2> HIDE DEF step
  <2>1. PICK f \in [0..N + 1 -> GroupStates] : Turns(f, GroupStart(start), step, N + 1)
    BY <1>1, <1>2, <1>4, Loop
  <2>2. \A i \in 0..N + 1 : i # 0 =>
          step[f[i - 1]] = LET s == f[i - 1] IN IF s.done THEN s ELSE ReadGroups(s, RawKeys, W, d)
    <3> SUFFICES ASSUME NEW i \in 0..N + 1, i # 0
                 PROVE  step[f[i - 1]] = IF f[i - 1].done THEN f[i - 1]
                                         ELSE ReadGroups(f[i - 1], RawKeys, W, d)
      OBVIOUS
    <3>1. f[i - 1] \in GroupStates
      BY <1>1
    <3>2. QED
      BY <3>1 DEF step
  <2>3. f = [i \in 0..N + 1 |->
               IF i = 0 THEN GroupStart(start)
               ELSE LET s == f[i - 1] IN IF s.done THEN s ELSE ReadGroups(s, RawKeys, W, d)]
    BY <2>1, <2>2 DEF Turns
  <2>4. GroupTurns(f, start, W, d)
    BY <2>3 DEF GroupTurns, N
  <2>5. QED
    BY <2>4
<1> DEFINE f == CHOOSE f : GroupTurns(f, start, W, d)
<1>6. GroupTurns(f, start, W, d)
  BY <1>5
<1> HIDE DEF f
<1>7. f[0] = GroupStart(start)
      /\ \A i \in 0..N : f[i + 1] = IF f[i].done THEN f[i] ELSE ReadGroups(f[i], RawKeys, W, d)
  <2>1. f = [n \in 0..N + 1 |->
               IF n = 0 THEN GroupStart(start)
               ELSE IF f[n - 1].done THEN f[n - 1] ELSE ReadGroups(f[n - 1], RawKeys, W, d)]
    BY <1>6 DEF GroupTurns, N
  <2>2. 0 \in 0..N + 1
    BY <1>1
  <2>3. \A i \in 0..N : i + 1 \in 0..N + 1 /\ i + 1 # 0 /\ (i + 1) - 1 = i
    BY <1>1
  <2>4. QED
    BY <2>1, <2>2, <2>3
<1> DEFINE Good == {n \in Nat : n <= N + 1 => GroupScanInv(f[n], start, W, d, n)}
<1>8. 0 \in Good
  <2>1. ScannedOf(start, start, d) = {} /\ Meets(W, {}) = {} /\ Keys({}) = {}
    BY DEF ScannedOf, Meets, Keys
  <2>2. Cardinality(After(RawKeys, start, d)) + 0 <= Cardinality(Rows)
    <3>1. RawKeys \in SUBSET Pairs /\ IsFiniteSet(RawKeys)
          /\ Cardinality(RawKeys) \in 0..Cardinality(Rows)
      BY MatchingKeysAre
    <3>2. Cardinality(After(RawKeys, start, d)) \in 0..Cardinality(RawKeys)
      BY <3>1, AfterIsPart
    <3>3. QED
      BY <3>1, <3>2, <1>1 DEF N
  <2>3. GroupScanInv(GroupStart(start), start, W, d, 0)
    BY <2>1, <2>2, <1>2 DEF GroupScanInv, GroupStart
  <2>4. QED
    BY <2>3, <1>7
<1>9. ASSUME NEW n \in Nat, n \in Good PROVE n + 1 \in Good
  <2> SUFFICES ASSUME n + 1 <= N + 1 PROVE GroupScanInv(f[n + 1], start, W, d, n + 1)
    OBVIOUS
  <2>1. n \in 0..N /\ n <= N + 1
    BY <1>1
  <2>2. GroupScanInv(f[n], start, W, d, n)
    BY <1>9, <2>1
  <2>3. CASE f[n].done
    BY <2>1, <2>2, <2>3, <1>7 DEF GroupScanInv
  <2>4. CASE ~f[n].done
    <3>1. GroupScanInv(ReadGroups(f[n], RawKeys, W, d), start, W, d, n + 1)
      BY <2>2, <2>4, <1>3, GroupTurn
    <3>2. QED
      BY <3>1, <2>1, <2>4, <1>7
  <2>5. QED
    BY <2>3, <2>4
<1> HIDE DEF Good
<1>10. N + 1 \in Good
  BY <1>1, <1>8, <1>9, NumbersByInduction
<1>11. GroupScanInv(f[N + 1], start, W, d, N + 1)
  BY <1>1, <1>10 DEF Good
<1>12. f[N + 1].done
  <2> SUFFICES ASSUME ~f[N + 1].done PROVE FALSE
    OBVIOUS
  <2>1. Cardinality(After(RawKeys, f[N + 1].at, d)) + (N + 1) <= N
    BY <1>11 DEF GroupScanInv, N
  <2>2. Cardinality(After(RawKeys, f[N + 1].at, d)) \in Nat
    <3>1. RawKeys \in SUBSET Pairs /\ IsFiniteSet(RawKeys)
      BY MatchingKeysAre
    <3>2. QED
      BY <3>1, AfterIsPart
  <2>3. QED
    BY <2>1, <2>2, <1>1
<1>13. ScanGroups(anchor, start, d) = f[N + 1]
  BY ScanGroupsUnfolds DEF f, N, W
<1>14. QED
  BY <1>11, <1>12, <1>13 DEF N, W

-----------------------------------------------------------------------------
(* A page of scanned groups, and where the scan of the next page starts.    *)

\* What a page leaves over.
LeftOver(scanned, items) == {q \in scanned.found : q.key \notin ToSet(items)}

\* The next scan starts before the first group that is left over.
LEMMA NextScanAnchorIs ==
  ASSUME ListingOK, NEW scanned, NEW items, LeftOver(scanned, items) # {},
         \A q \in scanned.found : q.raw \in RawKeys
  PROVE  \E q \in LeftOver(scanned, items) :
           /\ NextScanAnchor(scanned, items) = q.before
           /\ \A p \in LeftOver(scanned, items) :
                p.raw = q.raw \/ Ahead(search.desc, q.raw, p.raw)
<1> DEFINE d == search.desc
           L == LeftOver(scanned, items)
           R == {q.raw : q \in L}
           s == InOrder(R, d)
           first == CHOOSE q \in L : \A p \in L : p.raw # q.raw => Ahead(d, q.raw, p.raw)
<1>1. RawKeys \in SUBSET Pairs /\ IsFiniteSet(RawKeys) /\ d \in BOOLEAN
  BY MatchingKeysAre
<1>2. R \in SUBSET RawKeys /\ R \in SUBSET Pairs
  BY <1>1 DEF LeftOver
<1>3. PICK q0 \in L : TRUE
  OBVIOUS
<1>4. q0.raw \in R
  OBVIOUS
<1> HIDE DEF R
<1>5. IsFiniteSet(R)
  BY <1>1, <1>2, FS_Subset
<1>6. /\ Cardinality(R) \in Nat
      /\ \A i \in 1..Cardinality(R) : s[i] \in R
      /\ \A i, j \in 1..Cardinality(R) : i < j => Ahead(d, s[i], s[j])
      /\ \A k \in R : \E i \in 1..Cardinality(R) : s[i] = k
  BY <1>1, <1>2, <1>5, PlaceInOrder
<1> HIDE DEF s, d
<1>7. 1 \in 1..Cardinality(R)
  BY <1>4, <1>6
<1>8. \A k \in R : k # s[1] => Ahead(d, s[1], k)
  <2> SUFFICES ASSUME NEW k \in R, k # s[1] PROVE Ahead(d, s[1], k)
    OBVIOUS
  <2>1. PICK i \in 1..Cardinality(R) : s[i] = k
    BY <1>6
  <2>2. 1 < i
    BY <2>1
  <2>3. QED
    BY <2>1, <2>2, <1>6, <1>7
<1>9. PICK q1 \in L : q1.raw = s[1]
  BY <1>6, <1>7 DEF R
<1>10. \A p \in L : p.raw # q1.raw => Ahead(d, q1.raw, p.raw)
  BY <1>8, <1>9 DEF R
<1>11. first \in L /\ \A p \in L : p.raw # first.raw => Ahead(d, first.raw, p.raw)
  BY <1>9, <1>10
<1>12. NextScanAnchor(scanned, items) = first.before
  BY DEF NextScanAnchor, LeftOver, d
<1> HIDE DEF first, L
<1>13. QED
  BY <1>11, <1>12 DEF L, d

\* A page of groups judged in Python is cut from the groups its scan can come upon, in
\* the order of what is shown although the scan goes in the order of the candidates.
LEMMA GroupPageIsCut ==
  ASSUME ListingOK, profile \in Nat, search.runtime, search.grouped,
         NEW anchor \in Anchors, NEW start \in Anchors
  PROVE  CutFrom(RuntimeGroupPage(anchor, start), Offered(anchor, start))
<1> DEFINE d == search.desc
           W == WantedGroups(anchor)
           O == Offered(anchor, start)
           scanned == ScanGroups(anchor, start, d)
           K == Keys(scanned.found)
           B == After(RawKeys, scanned.at, d)
           S == After(RawKeys, start, d)
           s == InOrder(O, d)
           u == InOrder(K, d)
           items == Take(PageSize, u)
           p == RuntimeGroupPage(anchor, start)
<1>1. PageSize \in Nat \ {0} /\ PageSize + 1 \in Nat \ {0} /\ d \in BOOLEAN
  BY SearchAssumption, MatchingKeysAre
<1>2. RawKeys \in SUBSET Pairs /\ \A j, k \in RawKeys : j[2] = k[2] => j = k
  BY MatchingKeysAre
<1>3. /\ O \in SUBSET Pairs /\ IsFiniteSet(O) /\ Cardinality(O) \in Nat
      /\ O = Meets(W, S)
  <2>1. MatchingKeys = GroupKeys(Matching, search.desc, search.kind)
    BY DEF MatchingKeys
  <2>2. O = Meets(W, S)
    BY <2>1 DEF Offered, Reached, Meets, WantedGroups
  <2>3. QED
    BY <2>2, OfferedAre
<1>4. /\ GroupScanInv(scanned, start, W, d, Cardinality(Rows) + 1)
      /\ scanned.done
  BY ScanGroupsEnds
<1> HIDE DEF scanned
<1>5. /\ scanned.at \in Anchors /\ scanned.found \in SUBSET GroupEntries
      /\ B \subseteq S
      /\ K = Meets(W, S \ B)
      /\ \A q \in scanned.found : EntryFits(q, start, scanned.at, W, d)
      /\ \/ B = {}
         \/ /\ Cardinality(K) > PageSize
            /\ scanned.at \in Pairs
            /\ RawBoundIsSafe(scanned.at, u[PageSize + 1], d)
  BY <1>4 DEF GroupScanInv, GroupStates, ScannedOf
<1>6. ASSUME NEW w \in W
      PROVE  \E r \in RawKeys : /\ r[2] = w[2] /\ (r = w \/ Ahead(d, r, w))
                                /\ \A x \in RawKeys : x[2] = w[2] => x = r
  <2>1. w \in GroupKeys(Matching, search.desc, search.kind)
    BY DEF WantedGroups, After
  <2>2. PICK r \in RawKeys : r[2] = w[2] /\ (r = w \/ Ahead(d, r, w))
    BY <2>1, RawComesFirst
  <2>3. QED
    BY <2>2, <1>2
<1>7. S \subseteq RawKeys /\ B \subseteq RawKeys
  BY DEF After
<1> HIDE DEF W, B, S, O
<1>8. K \in SUBSET O /\ K \in SUBSET Pairs /\ IsFiniteSet(K) /\ Cardinality(K) \in Nat
      /\ Cardinality(K) <= Cardinality(O)
  <2>1. K \in SUBSET O
    BY <1>3, <1>5 DEF Meets
  <2> HIDE DEF K
  <2>2. QED
    BY <2>1, <1>3, FS_Subset, FS_CardinalityType
<1> HIDE DEF K
<1>9. /\ u \in Seq(Pairs) /\ Len(u) = Cardinality(K)
      /\ \A i \in 1..Cardinality(K) : u[i] \in K /\ u[i] \in Pairs
      /\ \A i, j \in 1..Cardinality(K) : i < j => Ahead(d, u[i], u[j])
  <2>1. /\ u \in Seq(K) /\ Len(u) = Cardinality(K)
        /\ \A i \in 1..Cardinality(K) : u[i] \in K
        /\ \A i, j \in 1..Cardinality(K) : i < j => Ahead(d, u[i], u[j])
    BY <1>1, <1>8, PlaceInOrder
  <2>2. QED
    BY <2>1, <1>8
<1>10. /\ s \in Seq(Pairs) /\ Len(s) = Cardinality(O)
       /\ \A i \in 1..Cardinality(O) : s[i] \in O /\ s[i] \in Pairs
       /\ \A i, j \in 1..Cardinality(O) : i < j => Ahead(d, s[i], s[j])
       /\ \A k \in O : \E i \in 1..Cardinality(O) : s[i] = k
  <2>1. O \in SUBSET Pairs /\ IsFiniteSet(O) /\ d \in BOOLEAN
    BY <1>1, <1>3
  <2> HIDE DEF d
  <2>2. /\ s \in Seq(O) /\ Len(s) = Cardinality(O)
        /\ \A i \in 1..Cardinality(O) : s[i] \in O
        /\ \A i, j \in 1..Cardinality(O) : i < j => Ahead(d, s[i], s[j])
        /\ \A k \in O : \E i \in 1..Cardinality(O) : s[i] = k
    BY <2>1, PlaceInOrder
  <2> HIDE DEF s
  <2>3. QED
    BY <2>1, <2>2
\* Every group the scan has not come upon has its candidates after where it stopped.
<1>11. ASSUME NEW w \in O, w \notin K
       PROVE  \E r \in B : r[2] = w[2] /\ (r = w \/ Ahead(d, r, w))
  <2>1. w \in W /\ \E x \in S : x[2] = w[2]
    BY <1>3 DEF Meets
  <2>2. PICK r \in RawKeys : /\ r[2] = w[2] /\ (r = w \/ Ahead(d, r, w))
                             /\ \A x \in RawKeys : x[2] = w[2] => x = r
    BY <2>1, <1>6
  <2>3. r \in S
    BY <2>1, <2>2, <1>7
  <2>4. r \in B
    <3> SUFFICES ASSUME r \notin B PROVE FALSE
      OBVIOUS
    <3>1. w \in Meets(W, S \ B)
      BY <2>1, <2>2, <2>3 DEF Meets
    <3>2. QED
      BY <3>1, <1>5, <1>11
  <2>5. QED
    BY <2>2, <2>4
<1>12. Take(PageSize + 1, u) = Take(PageSize + 1, s)
  <2>1. CASE B = {}
    <3>1. K = O
      BY <2>1, <1>3, <1>5
    <3>2. QED
      BY <3>1
  <2>2. CASE B # {}
    <3>1. /\ PageSize + 1 <= Cardinality(K) /\ PageSize + 1 \in 1..Cardinality(K)
          /\ scanned.at \in Pairs
          /\ RawBoundIsSafe(scanned.at, u[PageSize + 1], d)
      BY <2>2, <1>1, <1>5, <1>8
    <3> DEFINE e == u[PageSize + 1]
    <3>2. e \in Pairs
      BY <3>1, <1>9
    <3>3. ASSUME NEW w \in O \ K PROVE Ahead(d, e, w)
      <4>1. PICK r \in B : r[2] = w[2] /\ (r = w \/ Ahead(d, r, w))
        BY <1>11
      <4>2. r \in Pairs /\ w \in Pairs
        BY <1>2, <1>3, <1>7
      <4>3. scanned.at # Nil
        BY <3>1, SearchAssumption DEF Pairs
      <4>4. Ahead(d, scanned.at, r)
        BY <4>3 DEF B, After
      <4>5. scanned.at = e \/ Ahead(d, e, scanned.at)
        BY <3>1 DEF RawBoundIsSafe
      <4> HIDE DEF e
      <4>6. Ahead(d, e, r)
        BY <4>2, <4>4, <4>5, <3>1, <3>2, <1>1, AheadOrders
      <4>7. QED
        BY <4>1, <4>2, <4>6, <3>2, <1>1, AheadOrders
    <3>4. QED
      BY <3>1, <3>3, <1>1, <1>3, <1>8, PartBeforeTheRest
  <2>3. QED
    BY <2>1, <2>2
<1> HIDE DEF u, s
<1>13. /\ Take(PageSize, Take(PageSize + 1, u)) = items
       /\ Len(Take(PageSize + 1, u)) > PageSize <=> Len(u) > PageSize
       /\ Len(u) > PageSize => Last(items) = u[PageSize]
       /\ Take(PageSize + 1, u) = <<>> <=> u = <<>>
  BY <1>1, <1>9, TakeOfTake
<1>14. /\ Take(PageSize, Take(PageSize + 1, s)) = Take(PageSize, s)
       /\ Len(Take(PageSize + 1, s)) > PageSize <=> Len(s) > PageSize
       /\ Len(s) > PageSize => Last(Take(PageSize, s)) = s[PageSize]
       /\ Take(PageSize + 1, s) = <<>> <=> s = <<>>
  BY <1>1, <1>10, TakeOfTake
<1>15. /\ items = Take(PageSize, s)
       /\ Len(u) > PageSize <=> Cardinality(O) > PageSize
       /\ Len(u) > PageSize => Last(items) = s[PageSize]
       /\ u = <<>> <=> s = <<>>
  BY <1>10, <1>12, <1>13, <1>14
<1> HIDE DEF items
<1>16. CASE u = <<>>
  <2>1. p.items = <<>> /\ p.next = Nil
    BY <1>16 DEF RuntimeGroupPage, EmptyPage, u, K, scanned
  <2>2. Cardinality(O) = 0 /\ Take(PageSize, s) = <<>>
    <3>1. s = <<>> /\ Len(s) = 0
      BY <1>15, <1>16
    <3>2. 0 <= PageSize /\ PageSize \in Nat
      BY <1>1
    <3>3. QED
      BY <3>1, <3>2, <1>10, TakeAll
  <2>3. QED
    BY <2>1, <2>2, <1>1 DEF CutFrom, s, O
<1>17. CASE u # <<>>
  <2>1. p.items = items
        /\ p.next = IF Len(u) > PageSize
                    THEN Cursor(Last(items), NextScanAnchor(scanned, items)) ELSE Nil
    BY <1>17 DEF RuntimeGroupPage, u, K, scanned, items
  <2>2. CASE ~(Len(u) > PageSize)
    <3>1. p.next = Nil /\ Cardinality(O) <= PageSize
      BY <2>1, <2>2, <1>1, <1>3, <1>15
    <3>2. QED
      BY <3>1, <2>1, <1>15 DEF CutFrom, s, O
  <2>3. CASE Len(u) > PageSize
    <3> DEFINE last == s[PageSize]
               scan == NextScanAnchor(scanned, items)
    <3>1. /\ Last(items) = last /\ last \in Pairs /\ Cardinality(O) > PageSize
          /\ PageSize \in 1..Cardinality(O)
      BY <2>3, <1>1, <1>3, <1>10, <1>15
    <3>2. /\ scan \in Anchors
          /\ \A w \in O : Ahead(d, last, w) => Reached(scan, w)
      <4> DEFINE L == LeftOver(scanned, items)
      <4>1. \A w \in O : Ahead(d, last, w) => w \notin ToSet(items)
        <5> SUFFICES ASSUME NEW w \in O, Ahead(d, last, w), w \in ToSet(items)
                     PROVE  FALSE
          OBVIOUS
        <5>1. /\ items \in Seq(Pairs) /\ Len(items) = Least(PageSize, Len(s))
              /\ \A i \in 1..Least(PageSize, Len(s)) : items[i] = s[i]
          <6>1. items = Take(PageSize, s) /\ PageSize \in Nat /\ s \in Seq(Pairs)
            BY <1>1, <1>10, <1>15
          <6> HIDE DEF items
          <6>2. QED
            BY <6>1, TakeIs
        <5>2. PICK i \in 1..Len(items) : items[i] = w
          BY <5>1 DEF ToSet
        <5>3. i \in 1..PageSize /\ w = s[i] /\ i \in 1..Cardinality(O)
          BY <5>1, <5>2, <3>1, <1>1, <1>3, <1>10 DEF Least
        <5>4. i = PageSize \/ i < PageSize
          BY <5>3, <1>1
        <5>5. w = last \/ Ahead(d, w, last)
          BY <5>3, <5>4, <3>1, <1>10
        <5>6. w \in Pairs
          BY <1>3
        <5> HIDE DEF last
        <5>7. QED
          BY <5>5, <5>6, <3>1, <1>1, AheadOrders
      <4>2. L # {}
        <5> DEFINE x == u[PageSize + 1]
        <5>1. PageSize + 1 \in 1..Cardinality(K) /\ PageSize \in 1..Cardinality(K)
              /\ PageSize < PageSize + 1
          BY <2>3, <1>1, <1>8, <1>9
        <5>2. x \in K /\ Ahead(d, last, x)
          BY <5>1, <2>3, <3>1, <1>9, <1>13
        <5>3. x \in O
          BY <5>2, <1>8
        <5>4. x \notin ToSet(items)
          BY <5>2, <5>3, <4>1
        <5>5. PICK q \in scanned.found : q.key = x
          BY <5>2 DEF K, Keys
        <5>6. QED
          BY <5>4, <5>5 DEF LeftOver
      <4>3. \A q \in scanned.found : q.raw \in RawKeys /\ q.raw \in S /\ q.raw \notin B
        BY <1>5, <1>7 DEF EntryFits, ScannedOf, S, B
      <4>4. PICK q \in L : /\ scan = q.before
                           /\ \A o \in L : o.raw = q.raw \/ Ahead(d, q.raw, o.raw)
        BY <4>2, <4>3, NextScanAnchorIs
      <4>5. q \in scanned.found /\ q.raw \in S /\ q.raw \notin B /\ q.raw \in RawKeys
        BY <4>3 DEF LeftOver
      <4>6. /\ q.before \in Anchors
            /\ After(RawKeys, q.before, d) = {r \in S : r = q.raw \/ Ahead(d, q.raw, r)}
        BY <4>5, <1>5 DEF EntryFits, S
      <4>7. ASSUME NEW w \in O, Ahead(d, last, w)
            PROVE  Reached(scan, w)
        <5>1. w \notin ToSet(items)
          BY <4>1, <4>7
        <5>2. CASE w \in K
          <6>1. PICK o \in scanned.found : o.key = w
            BY <5>2 DEF K, Keys
          <6>2. o \in L
            BY <5>1, <6>1 DEF LeftOver
          <6>3. o.raw = q.raw \/ Ahead(d, q.raw, o.raw)
            BY <6>2, <4>4
          <6>4. o.raw \in S /\ o.raw[2] = w[2]
            BY <6>1, <4>3, <1>5 DEF EntryFits
          <6>5. o.raw \in After(RawKeys, scan, d)
            BY <6>3, <6>4, <4>4, <4>6
          <6>6. QED
            BY <6>4, <6>5 DEF Reached
        <5>3. CASE w \notin K
          <6>1. PICK r \in B : r[2] = w[2]
            BY <5>3, <1>11
          <6>2. r \in S /\ q.raw \notin After(RawKeys, scanned.at, d)
                /\ r \in After(RawKeys, scanned.at, d)
            BY <1>5, <4>5 DEF B
          <6>3. Ahead(d, q.raw, r)
            BY <6>2, <4>5, <1>1, <1>2, <1>5, AnchorDivides DEF Anchors
          <6>4. r \in After(RawKeys, scan, d)
            BY <6>2, <6>3, <4>4, <4>6
          <6>5. QED
            BY <6>1, <6>4 DEF Reached
        <5>4. QED
          BY <5>2, <5>3
      <4> HIDE DEF scan, L
      <4>8. QED
        BY <4>4, <4>6, <4>7
    <3> HIDE DEF p, scan, last
    <3>3. p.next # Nil /\ p.next.key = last /\ p.next.scan = scan
          /\ p.next = [key |-> p.next.key, scan |-> p.next.scan, fp |-> Fingerprint]
      BY <3>1, <3>2, <2>1, <2>3, FingerprintIs DEF scan
    <3>4. QED
      BY <2>1, <3>1, <3>2, <3>3, <1>1, <1>3, <1>15 DEF CutFrom, s, O, p, last
  <2>4. QED
    BY <2>2, <2>3
<1>18. QED
  BY <1>16, <1>17

-----------------------------------------------------------------------------
(* The pages of a list at rest: each starts after some number of matches,   *)
(* and is known from that number.                                           *)

\* Every page, by one keyset or by a scan, is cut from what it may offer.
LEMMA PageAtIsCut ==
  ASSUME ListingOK, profile \in Nat, NEW anchor \in Anchors, NEW start \in Anchors
  PROVE  CutFrom(PageAt(anchor, start), Offered(anchor, start))
<1>1. CASE search.runtime /\ search.grouped
  <2>1. CutFrom(RuntimeGroupPage(anchor, start), Offered(anchor, start))
    BY <1>1, GroupPageIsCut
  <2>2. QED
    BY <1>1, <2>1 DEF PageAt
<1>2. CASE ~(search.runtime /\ search.grouped)
  <2>1. CutFrom(KeysetPage(anchor), Offered(anchor, start))
    BY <1>2, KeysetPageIsCut
  <2>2. QED
    BY <1>2, <2>1 DEF PageAt
<1>3. QED
  BY <1>1, <1>2

\* All the matches in order, and how many they are.
All == InOrder(MatchingKeys, search.desc)
Count == Cardinality(MatchingKeys)

\* The list of all matches has each of them, in order.
LEMMA AllAre ==
  ASSUME ListingOK
  PROVE  /\ All \in Seq(Pairs) /\ Len(All) = Count /\ Count \in Nat
         /\ All \in Seq(MatchingKeys)
         /\ \A i \in 1..Count : All[i] \in MatchingKeys /\ All[i] \in Pairs /\ All[i][2] \in Nat
         /\ \A i, j \in 1..Count : i < j => Ahead(search.desc, All[i], All[j])
         /\ \A k \in MatchingKeys : \E i \in 1..Count : All[i] = k
         /\ search.desc \in BOOLEAN
<1> DEFINE d == search.desc
           M == MatchingKeys
<1>1. M \in SUBSET Pairs /\ IsFiniteSet(M) /\ d \in BOOLEAN
  BY MatchingKeysAre
<1> HIDE DEF M, d
<1>2. /\ InOrder(M, d) \in Seq(M) /\ Len(InOrder(M, d)) = Cardinality(M)
      /\ Cardinality(M) \in Nat
      /\ \A i \in 1..Cardinality(M) : InOrder(M, d)[i] \in M
      /\ \A i, j \in 1..Cardinality(M) : i < j => Ahead(d, InOrder(M, d)[i], InOrder(M, d)[j])
      /\ \A k \in M : \E i \in 1..Cardinality(M) : InOrder(M, d)[i] = k
  BY <1>1, PlaceInOrder
<1>3. \A k \in M : k \in Pairs /\ k[2] \in Nat
  BY <1>1 DEF Pairs
<1>4. InOrder(M, d) \in Seq(Pairs)
  BY <1>1, <1>2
<1>5. All = InOrder(M, d) /\ Count = Cardinality(M)
  BY DEF All, Count, M, d
<1>6. QED
  BY <1>1, <1>2, <1>3, <1>4, <1>5 DEF M, d

\* The cursor after the m-th match.
CursorAt(m) == IF m = 0 THEN Nil ELSE All[m]

\* The ids of the page that starts after the m-th match.
Piece(m) == [j \in 1..Least(PageSize, Count - m) |-> All[m + j][2]]

\* The page that starts after the m-th match, with its two cursors.
PageShows(p, m) ==
  /\ Ids(p) = Piece(m)
  /\ p.next = Nil <=> Count <= m + PageSize
  /\ p.next # Nil =>
       /\ p.next = [key |-> p.next.key, scan |-> p.next.scan, fp |-> Fingerprint]
       /\ p.next.key = All[m + PageSize]
       /\ p.next.scan \in Anchors
       /\ \A w \in MatchingKeys : Ahead(search.desc, p.next.key, w) =>
            (search.runtime /\ search.grouped => Reached(p.next.scan, w))
  /\ p.hasPrevious =>
       /\ m > 0 /\ ~(search.runtime /\ search.grouped)
       /\ p.previous = IF m > PageSize THEN Cursor(All[m - PageSize], Nil) ELSE Nil

\* What is left after the m-th match, in order.
LEMMA RestInOrder ==
  ASSUME ListingOK, NEW m \in Nat, m = 0 \/ m < Count
  PROVE  /\ CursorAt(m) \in Anchors /\ (CursorAt(m) = Nil <=> m = 0)
         /\ InOrder(After(MatchingKeys, CursorAt(m), search.desc), search.desc)
              = [j \in 1..Count - m |-> All[m + j]]
         /\ After(MatchingKeys, CursorAt(m), search.desc) \in SUBSET Pairs
         /\ IsFiniteSet(After(MatchingKeys, CursorAt(m), search.desc))
         /\ Cardinality(After(MatchingKeys, CursorAt(m), search.desc)) = Count - m
<1> DEFINE d == search.desc
           M == MatchingKeys
           A == After(M, CursorAt(m), d)
           t == [j \in 1..Count - m |-> All[m + j]]
<1>1. M \in SUBSET Pairs /\ IsFiniteSet(M) /\ d \in BOOLEAN
  BY MatchingKeysAre
<1>2. /\ All \in Seq(Pairs) /\ Len(All) = Count /\ Count \in Nat
      /\ \A i \in 1..Count : All[i] \in Pairs
  BY AllAre
<1>3. CursorAt(m) \in Anchors /\ (CursorAt(m) = Nil <=> m = 0)
  <2>1. CASE m = 0
    BY <2>1 DEF CursorAt, Anchors
  <2>2. CASE m # 0
    <3>1. m \in 1..Count
      BY <2>2, <1>2
    <3>2. All[m] \in Pairs /\ All[m] # Nil
      BY <3>1, <1>2, SearchAssumption DEF Pairs
    <3>3. QED
      BY <2>2, <3>2 DEF CursorAt, Anchors
  <2>3. QED
    BY <2>1, <2>2
<1>4. A \in SUBSET Pairs /\ IsFiniteSet(A) /\ Cardinality(A) \in Nat
  BY <1>1, AfterIsPart, FS_CardinalityType
<1>5. InOrder(A, d) = t
  <2>1. CASE m = 0
    <3>1. A = M
      BY <2>1 DEF CursorAt, After
    <3>2. InOrder(A, d) = All
      BY <3>1 DEF All
    <3>3. t = [j \in 1..Count |-> All[j]]
      <4>1. \A j \in 1..Count : 0 + j = j
        BY <1>2
      <4>2. Count - 0 = Count
        BY <1>2
      <4>3. QED
        BY <2>1, <4>1, <4>2
    <3>4. All = [j \in 1..Count |-> All[j]]
      BY <1>2
    <3>5. QED
      BY <3>2, <3>3, <3>4
  <2>2. CASE m # 0
    <3>1. m \in 1..Count /\ CursorAt(m) = All[m]
      BY <2>2, <1>2 DEF CursorAt
    <3> HIDE DEF d, M
    <3>2. InOrder(After(M, InOrder(M, d)[m], d), d)
            = [i \in 1..Cardinality(M) - m |-> InOrder(M, d)[m + i]]
      BY <3>1, <1>1, AfterInOrder DEF Count, M
    <3>3. QED
      BY <3>1, <3>2 DEF All, Count, M, d
  <2>3. QED
    BY <2>1, <2>2
<1>6. Cardinality(A) = Count - m
  <2> HIDE DEF A, d
  <2>1. Len(InOrder(A, d)) = Cardinality(A) /\ InOrder(A, d) \in Seq(A)
    BY <1>1, <1>4, PlaceInOrder
  <2>2. Count - m \in Nat
    BY <1>2
  <2>3. Len(t) = Count - m
    BY <2>2
  <2>4. QED
    BY <2>1, <2>3, <1>5
<1>7. QED
  BY <1>3, <1>4, <1>5, <1>6

\* The link back of a page by one keyset.
LEMMA LinkBackIs ==
  ASSUME ListingOK, ~(search.runtime /\ search.grouped), NEW m \in Nat, m = 0 \/ m < Count
  PROVE  KeysetPage(CursorAt(m)).hasPrevious =>
           /\ m > 0
           /\ KeysetPage(CursorAt(m)).previous
                = IF m > PageSize THEN Cursor(All[m - PageSize], Nil) ELSE Nil
<1> DEFINE d == search.desc
           anchor == CursorAt(m)
           p == KeysetPage(anchor)
           t == [j \in 1..Count - m |-> All[m + j]]
           found == Read(anchor, d)
           items == Take(PageSize, found)
<1>1. /\ anchor \in Anchors /\ (anchor = Nil <=> m = 0)
      /\ InOrder(After(MatchingKeys, anchor, d), d) = t
  BY RestInOrder
<1>2. /\ All \in Seq(Pairs) /\ Len(All) = Count /\ Count \in Nat
      /\ \A i \in 1..Count : All[i] \in Pairs
      /\ d \in BOOLEAN /\ PageSize \in Nat \ {0} /\ PageSize + 1 \in Nat
  BY AllAre, SearchAssumption
<1> HIDE DEF anchor
<1>3. CASE m = 0
  <2>1. anchor = Nil
    BY <1>1, <1>3
  <2>2. ~p.hasPrevious
    BY <2>1 DEF KeysetPage, EmptyPage
  <2>3. QED
    BY <2>2 DEF p, anchor
<1>4. CASE m # 0
  <2>1. m \in 1..Count /\ m + 1 \in 1..Count /\ Count - m \in Nat \ {0} /\ anchor # Nil
    BY <1>1, <1>2, <1>4
  <2>2. t \in Seq(Pairs) /\ Len(t) = Count - m /\ t[1] = All[m + 1]
    <3>1. \A j \in 1..Count - m : m + j \in 1..Count
      BY <2>1, <1>2
    <3>2. \A j \in 1..Count - m : All[m + j] \in Pairs
      BY <3>1, <1>2
    <3>3. 1 \in 1..Count - m
      BY <2>1
    <3>4. QED
      BY <2>1, <3>2, <3>3
  <2>3. found = Take(PageSize + 1, t)
    BY <1>1, <1>2, ReadIs
  <2> HIDE DEF t, found
  <2>4. /\ found \in Seq(Pairs) /\ Len(found) = Least(PageSize + 1, Len(t))
        /\ \A i \in 1..Least(PageSize + 1, Len(t)) : found[i] = t[i]
    BY <1>2, <2>2, <2>3, TakeIs
  <2>5. Len(found) >= 1 /\ found[1] = t[1] /\ found # <<>>
    <3>1. Least(PageSize + 1, Len(t)) \in Nat \ {0}
      BY <2>1, <2>2, <1>2 DEF Least
    <3>2. 1 \in 1..Least(PageSize + 1, Len(t)) /\ Len(found) >= 1
      BY <2>4, <3>1
    <3>3. found # <<>>
      BY <3>2
    <3>4. QED
      BY <2>4, <3>2, <3>3
  <2>15. items = Take(PageSize, found)
    OBVIOUS
  <2> HIDE DEF items
  <2>6. /\ items \in Seq(Pairs) /\ Len(items) = Least(PageSize, Len(found))
        /\ \A i \in 1..Least(PageSize, Len(found)) : items[i] = found[i]
    BY <1>2, <2>4, <2>15, TakeIs
  <2>7. Head(items) = All[m + 1]
    <3>1. 1 \in 1..Least(PageSize, Len(found)) /\ Len(items) >= 1
      BY <2>4, <2>5, <2>6, <1>2 DEF Least
    <3>2. Head(items) = items[1]
      BY <2>6, <3>1
    <3>3. QED
      BY <2>2, <2>5, <2>6, <3>1, <3>2
  <2> DEFINE preceding == Read(All[m + 1], ~d)
             back0 == [i \in 1..m |-> All[m + 1 - i]]
  <2>8. p.previous = PreviousCursor(preceding)
    BY <2>1, <2>5, <2>7 DEF KeysetPage, items, found
  <2>9. preceding = Take(PageSize + 1, back0)
    <3>1. All[m + 1] \in Anchors /\ (~d) \in BOOLEAN
      BY <2>1, <1>2 DEF Anchors
    <3>2. MatchingKeys \in SUBSET Pairs /\ IsFiniteSet(MatchingKeys)
      BY MatchingKeysAre
    <3>3. preceding = Take(PageSize + 1, InOrder(After(MatchingKeys, All[m + 1], ~d), ~d))
      BY <3>1, ReadIs
    <3>4. InOrder(After(MatchingKeys, All[m + 1], ~d), ~d)
            = [i \in 1..(m + 1) - 1 |-> All[(m + 1) - i]]
      BY <3>2, <2>1, <1>2, BackInOrder DEF All, Count
    <3>5. (m + 1) - 1 = m
      OBVIOUS
    <3>6. QED
      BY <3>3, <3>4, <3>5
  <2>10. back0 \in Seq(Pairs) /\ Len(back0) = m /\ \A i \in 1..m : back0[i] = All[m + 1 - i]
    <3>1. \A i \in 1..m : m + 1 - i \in 1..Count
      BY <2>1, <1>2
    <3>2. \A i \in 1..m : All[m + 1 - i] \in Pairs
      BY <3>1, <1>2
    <3>3. QED
      BY <3>2
  <2> HIDE DEF back0, preceding
  <2>11. /\ preceding \in Seq(Pairs) /\ Len(preceding) = Least(PageSize + 1, Len(back0))
         /\ \A i \in 1..Least(PageSize + 1, Len(back0)) : preceding[i] = back0[i]
    BY <1>2, <2>9, <2>10, TakeIs
  <2>12. CASE m > PageSize
    <3>1. Len(preceding) = PageSize + 1 /\ PageSize + 1 \in 1..m
      BY <2>12, <2>10, <2>11, <1>2 DEF Least
    <3>2. Last(preceding) = All[m + 1 - (PageSize + 1)]
      <4>1. Last(preceding) = preceding[PageSize + 1]
        BY <3>1 DEF Last
      <4>2. preceding[PageSize + 1] = back0[PageSize + 1]
        BY <3>1, <2>10, <2>11
      <4>3. QED
        BY <4>1, <4>2, <3>1, <2>10
    <3>3. m + 1 - (PageSize + 1) = m - PageSize
      BY <1>2
    <3>4. p.previous = Cursor(All[m - PageSize], Nil)
      BY <3>1, <3>2, <3>3, <2>8, <1>2 DEF PreviousCursor
    <3>5. QED
      BY <3>4, <2>12, <1>4 DEF p, anchor
  <2>13. CASE ~(m > PageSize)
    <3>1. ~(Len(preceding) > PageSize)
      BY <2>13, <2>10, <2>11, <1>2 DEF Least
    <3>2. p.previous = Nil
      BY <3>1, <2>8 DEF PreviousCursor
    <3>3. QED
      BY <3>2, <2>13, <1>4 DEF p, anchor
  <2>14. QED
    BY <2>12, <2>13
<1>5. QED
  BY <1>3, <1>4

\* Every page but the scanned pages of groups has its link back; those have none.
LEMMA PageAtShows ==
  ASSUME ListingOK, profile \in Nat, NEW m \in Nat, m = 0 \/ m < Count,
         NEW start \in Anchors,
         \A w \in MatchingKeys : (m # 0 => Ahead(search.desc, All[m], w)) =>
            (search.runtime /\ search.grouped => Reached(start, w))
  PROVE  PageShows(PageAt(CursorAt(m), start), m)
<1> DEFINE d == search.desc
           anchor == CursorAt(m)
           A == After(MatchingKeys, anchor, d)
           t == [j \in 1..Count - m |-> All[m + j]]
           p == PageAt(anchor, start)
<1>1. /\ anchor \in Anchors /\ (anchor = Nil <=> m = 0)
      /\ InOrder(A, d) = t
      /\ A \in SUBSET Pairs /\ Cardinality(A) = Count - m
  BY RestInOrder
<1>2. /\ All \in Seq(Pairs) /\ Len(All) = Count /\ Count \in Nat
      /\ \A i \in 1..Count : All[i] \in Pairs /\ All[i][2] \in Nat
      /\ \A i, j \in 1..Count : i < j => Ahead(d, All[i], All[j])
      /\ d \in BOOLEAN /\ PageSize \in Nat \ {0}
  BY AllAre, SearchAssumption
<1>3. \A w \in A : m # 0 => Ahead(d, All[m], w)
  BY <1>1 DEF After, CursorAt
<1>4. A \subseteq MatchingKeys
  BY DEF After
<1>5. Offered(anchor, start) = A
  BY <1>3, <1>4 DEF Offered
<1>6. CutFrom(p, A)
  <2> HIDE DEF anchor, A
  <2>1. CutFrom(PageAt(anchor, start), Offered(anchor, start))
    BY <1>1, PageAtIsCut
  <2>2. QED
    BY <2>1, <1>5
<1>7. t \in Seq(Pairs) /\ Len(t) = Count - m /\ \A j \in 1..Count - m : t[j] = All[m + j]
  <2>1. \A j \in 1..Count - m : m + j \in 1..Count
    BY <1>2
  <2>2. \A j \in 1..Count - m : All[m + j] \in Pairs
    BY <2>1, <1>2
  <2>3. Count - m \in Nat
    BY <1>2
  <2>4. QED
    BY <2>2, <2>3
<1> HIDE DEF t, p, A, d
<1>8. /\ p.items = Take(PageSize, t)
      /\ p.next = Nil <=> Count - m <= PageSize
      /\ p.next # Nil =>
           /\ p.next = [key |-> p.next.key, scan |-> p.next.scan, fp |-> Fingerprint]
           /\ p.next.key = t[PageSize]
           /\ p.next.scan \in Anchors
           /\ \A w \in A : Ahead(d, p.next.key, w) =>
                (search.runtime /\ search.grouped => Reached(p.next.scan, w))
  BY <1>1, <1>6 DEF CutFrom, d
<1>9. Ids(p) = Piece(m)
  <2>1. /\ p.items \in Seq(Pairs) /\ Len(p.items) = Least(PageSize, Count - m)
        /\ \A i \in 1..Least(PageSize, Count - m) : p.items[i] = t[i]
    <3>1. p.items = Take(PageSize, t) /\ PageSize \in Nat
      BY <1>2, <1>8
    <3>2. QED
      <4>1. /\ Take(PageSize, t) \in Seq(Pairs) /\ Len(Take(PageSize, t)) = Least(PageSize, Len(t))
            /\ \A i \in 1..Least(PageSize, Len(t)) : Take(PageSize, t)[i] = t[i]
        BY <3>1, <1>7, TakeIs
      <4>2. QED
        BY <3>1, <4>1, <1>7
  <2>2. Least(PageSize, Count - m) \in Nat /\ Least(PageSize, Count - m) <= Count - m
    BY <1>2 DEF Least
  <2>3. \A i \in 1..Least(PageSize, Count - m) : p.items[i] = All[m + i]
    BY <2>1, <2>2, <1>2, <1>7
  <2>4. DOMAIN p.items = 1..Least(PageSize, Count - m)
    BY <2>1
  <2>5. QED
    BY <2>3, <2>4 DEF Ids, Piece
<1>10. p.next = Nil <=> Count <= m + PageSize
  BY <1>2, <1>8
<1>11. ASSUME p.next # Nil
       PROVE  /\ p.next.key = All[m + PageSize]
              /\ \A w \in MatchingKeys : Ahead(d, p.next.key, w) =>
                    (search.runtime /\ search.grouped => Reached(p.next.scan, w))
  <2>1. PageSize \in 1..Count - m /\ m + PageSize \in 1..Count /\ m + PageSize > m
    BY <1>2, <1>10, <1>11
  <2>2. p.next.key = All[m + PageSize]
    BY <2>1, <1>7, <1>8, <1>11
  <2>3. ASSUME NEW w \in MatchingKeys, Ahead(d, p.next.key, w) PROVE w \in A
    <3>1. CASE m = 0
      BY <3>1, <1>1 DEF A, After
    <3>2. CASE m # 0
      <4>1. m \in 1..Count
        BY <3>2, <1>2
      <4>2. Ahead(d, All[m], All[m + PageSize])
        BY <4>1, <2>1, <1>2
      <4>3. w \in Pairs
        BY MatchingKeysAre
      <4>4. Ahead(d, All[m], w)
        BY <4>1, <4>2, <4>3, <2>1, <2>2, <2>3, <1>2, AheadOrders
      <4>5. anchor = All[m] /\ anchor # Nil
        BY <3>2, <1>1 DEF anchor, CursorAt
      <4>6. QED
        BY <4>4, <4>5 DEF A, After
    <3>3. QED
      BY <3>1, <3>2
  <2>4. QED
    BY <2>2, <2>3, <1>8, <1>11
<1>12. ASSUME p.hasPrevious
       PROVE  /\ m > 0 /\ ~(search.runtime /\ search.grouped)
              /\ p.previous = IF m > PageSize THEN Cursor(All[m - PageSize], Nil) ELSE Nil
  <2>1. CASE search.runtime /\ search.grouped
    <3>1. ~p.hasPrevious
      BY <2>1 DEF p, PageAt, RuntimeGroupPage, EmptyPage
    <3>2. QED
      BY <3>1, <1>12
  <2>2. CASE ~(search.runtime /\ search.grouped)
    <3>1. p = KeysetPage(CursorAt(m))
      BY <2>2 DEF p, PageAt
    <3>2. QED
      BY <3>1, <2>2, <1>12, LinkBackIs
  <2>3. QED
    BY <2>1, <2>2
<1>13. PageShows(p, m)
  BY <1>8, <1>9, <1>10, <1>11, <1>12 DEF PageShows, d
<1>14. QED
  BY <1>13 DEF p

\* The first page.
LEMMA FirstPageShows ==
  ASSUME ListingOK, profile \in Nat
  PROVE  PageShows(FirstPage, 0)
<1>1. ASSUME search.runtime, search.grouped, NEW w \in MatchingKeys PROVE Reached(Nil, w)
  <2>1. w \in GroupKeys(Matching, search.desc, search.kind)
    BY <1>1 DEF MatchingKeys
  <2>2. PICK r \in RawKeys : r[2] = w[2]
    BY <2>1, RawComesFirst
  <2>3. r \in After(RawKeys, Nil, search.desc)
    BY DEF After
  <2>4. QED
    BY <2>2, <2>3 DEF Reached
<1>2. Nil \in Anchors /\ CursorAt(0) = Nil /\ 0 \in Nat
  BY DEF Anchors, CursorAt
<1>3. PageShows(PageAt(CursorAt(0), Nil), 0)
  BY <1>1, <1>2, PageAtShows
<1>4. QED
  BY <1>2, <1>3 DEF FirstPage

-----------------------------------------------------------------------------
(* A walk that nothing disturbs.                                            *)

\* Full pages add up.
LEMMA FullPages ==
  /\ PageSize \in Nat \ {0}
  /\ \A i \in Nat : PageSize * i \in Nat /\ PageSize * (i + 1) = PageSize * i + PageSize
  /\ \A i, j \in Nat : i < j => PageSize * i + PageSize <= PageSize * j
  /\ PageSize * 0 = 0
<1>1. PageSize \in Nat \ {0}
  BY SearchAssumption
<1>2. \A i \in Nat : PageSize * i \in Nat /\ PageSize * (i + 1) = PageSize * i + PageSize
  BY <1>1
<1>3. ASSUME NEW i \in Nat, NEW j \in Nat, i < j
      PROVE  PageSize * i + PageSize <= PageSize * j
  <2>1. PICK e \in Nat : j = (i + 1) + e
    <3>1. j - (i + 1) \in Nat /\ j = (i + 1) + (j - (i + 1))
      BY <1>3
    <3>2. QED
      BY <3>1
  <2>2. PageSize * j = PageSize * (i + 1) + PageSize * e
    BY <2>1, <1>1
  <2>3. PageSize * e \in Nat /\ PageSize * i \in Nat /\ PageSize * (i + 1) = PageSize * i + PageSize
    BY <1>2
  <2>4. QED
    BY <2>2, <2>3, <1>1
<1>4. PageSize * 0 = 0
  BY <1>1
<1>5. QED
  BY <1>1, <1>2, <1>3, <1>4

\* The pages of an undisturbed walk: full ones, and the present one.
Stands(w, p) ==
  /\ w \in Seq(Seq(Nat)) /\ Len(w) >= 1
  /\ \A i \in 1..Len(w) : /\ w[i] = Piece(PageSize * (i - 1))
                          /\ i = 1 \/ PageSize * (i - 1) < Count
  /\ PageShows(p, PageSize * (Len(w) - 1))

\* A page has as many ids as are left, and at most its size.
LEMMA PieceIs ==
  ASSUME ListingOK, NEW m \in Nat, m = 0 \/ m < Count
  PROVE  Piece(m) \in Seq(Nat) /\ Len(Piece(m)) = Least(PageSize, Count - m)
         /\ \A j \in 1..Least(PageSize, Count - m) : Piece(m)[j] = All[m + j][2]
<1> DEFINE n == Least(PageSize, Count - m)
<1>1. Count \in Nat /\ \A i \in 1..Count : All[i][2] \in Nat
  BY AllAre
<1>2. PageSize \in Nat \ {0}
  BY SearchAssumption
<1>3. n \in Nat /\ n <= Count - m
  BY <1>1, <1>2 DEF Least
<1> HIDE DEF n
<1>4. \A j \in 1..n : m + j \in 1..Count
  BY <1>1, <1>3
<1>5. \A j \in 1..n : All[m + j][2] \in Nat
  BY <1>1, <1>4
<1>6. Piece(m) = [j \in 1..n |-> All[m + j][2]]
  BY DEF Piece, n
<1>7. Piece(m) \in Seq(Nat) /\ Len(Piece(m)) = n /\ \A j \in 1..n : Piece(m)[j] = All[m + j][2]
  BY <1>3, <1>5, <1>6
<1>8. QED
  BY <1>7 DEF n

\* A walk of one page stands.
LEMMA FirstStands ==
  ASSUME ListingOK, profile \in Nat
  PROVE  Stands(<<Ids(FirstPage)>>, FirstPage)
<1> DEFINE w == <<Ids(FirstPage)>>
<1>1. PageShows(FirstPage, 0)
  BY FirstPageShows
<1>2. Ids(FirstPage) = Piece(0)
  BY <1>1 DEF PageShows
<1>3. Piece(0) \in Seq(Nat)
  BY PieceIs
<1>4. w \in Seq(Seq(Nat)) /\ Len(w) = 1 /\ w[1] = Piece(0)
  BY <1>2, <1>3
<1> HIDE DEF w
<1>5. PageSize * (1 - 1) = 0
  BY FullPages
<1>6. \A i \in 1..1 : i = 1
  OBVIOUS
<1>7. Stands(w, FirstPage)
  BY <1>1, <1>4, <1>5, <1>6 DEF Stands
<1>8. QED
  BY <1>7 DEF w

\* One more page, or another last page.
LEMMA StandsWith ==
  ASSUME ListingOK, NEW w \in Seq(Seq(Nat)), NEW p,
         \A i \in 1..Len(w) : /\ w[i] = Piece(PageSize * (i - 1))
                              /\ i = 1 \/ PageSize * (i - 1) < Count,
         Len(w) = 0 \/ PageSize * Len(w) < Count,
         PageShows(p, PageSize * Len(w))
  PROVE  Stands(Append(w, Ids(p)), p)
<1> DEFINE k == Len(w)
           v == Append(w, Ids(p))
           m == PageSize * k
<1>1. k \in Nat /\ m \in Nat /\ (k = 0 => m = 0)
  <2>1. k \in Nat
    OBVIOUS
  <2>2. QED
    BY <2>1, FullPages
<1>2. m = 0 \/ m < Count
  BY <1>1
<1>3. Ids(p) = Piece(m) /\ Piece(m) \in Seq(Nat)
  <2> HIDE DEF m
  <2>1. Piece(m) \in Seq(Nat)
    BY <1>1, <1>2, PieceIs
  <2>2. QED
    BY <2>1 DEF PageShows, m
<1>4. /\ v \in Seq(Seq(Nat)) /\ Len(v) = k + 1 /\ v[k + 1] = Piece(m)
      /\ \A i \in 1..k : v[i] = w[i]
  BY <1>3
<1> HIDE DEF v
<1>5. (k + 1) - 1 = k
  BY <1>1
<1>6. ASSUME NEW i \in 1..k + 1
      PROVE  v[i] = Piece(PageSize * (i - 1)) /\ (i = 1 \/ PageSize * (i - 1) < Count)
  <2>1. CASE i = k + 1
    <3>1. PageSize * (i - 1) = m
      BY <2>1, <1>5
    <3>2. i = 1 \/ m < Count
      BY <2>1, <1>1
    <3>3. QED
      BY <3>1, <3>2, <2>1, <1>4
  <2>2. CASE i # k + 1
    <3>1. i \in 1..k
      BY <2>2, <1>1
    <3>2. QED
      BY <3>1, <1>4
  <2>3. QED
    BY <2>1, <2>2
<1>7. Len(v) >= 1 /\ PageSize * (Len(v) - 1) = m
  BY <1>1, <1>4, <1>5
<1>8. Stands(v, p)
  BY <1>4, <1>6, <1>7 DEF Stands, m
<1>9. QED
  BY <1>8 DEF v

\* The link onwards adds the next page to the walk.
LEMMA NextStands ==
  ASSUME ListingOK, profile \in Nat, NEW w, NEW p, Stands(w, p), p.next # Nil
  PROVE  Stands(Append(w, Ids(PageAt(p.next.key, p.next.scan))), PageAt(p.next.key, p.next.scan))
<1> DEFINE k == Len(w)
           m == PageSize * k
           b == PageSize * (k - 1)
           q == PageAt(p.next.key, p.next.scan)
<1>1. k \in Nat \ {0} /\ w \in Seq(Seq(Nat)) /\ PageShows(p, b)
  BY DEF Stands
<1>2. m \in Nat /\ b \in Nat /\ m = b + PageSize /\ m # 0
  <2>1. k - 1 \in Nat /\ (k - 1) + 1 = k
    BY <1>1
  <2>2. b \in Nat /\ PageSize * ((k - 1) + 1) = b + PageSize /\ PageSize \in Nat \ {0}
    BY <2>1, FullPages
  <2>3. m = b + PageSize
    BY <2>1, <2>2
  <2> HIDE DEF m, b
  <2>4. QED
    BY <2>2, <2>3
<1>3. Count \in Nat
  BY AllAre
<1> HIDE DEF m, b, k
<1>4. /\ m < Count /\ p.next.key = All[m] /\ p.next.scan \in Anchors
      /\ \A x \in MatchingKeys : Ahead(search.desc, All[m], x) =>
            (search.runtime /\ search.grouped => Reached(p.next.scan, x))
  <2>1. ~(Count <= b + PageSize)
    BY <1>1 DEF PageShows
  <2>2. m < Count
    BY <2>1, <1>2, <1>3
  <2>3. QED
    BY <1>1, <1>2, <2>2 DEF PageShows
<1>5. PageShows(PageAt(CursorAt(m), p.next.scan), m)
  BY <1>2, <1>4, PageAtShows
<1>6. PageShows(q, m)
  BY <1>2, <1>4, <1>5 DEF CursorAt
<1>7. \A i \in 1..Len(w) : w[i] = Piece(PageSize * (i - 1)) /\ (i = 1 \/ PageSize * (i - 1) < Count)
  BY DEF Stands
<1> HIDE DEF q
<1>8. Stands(Append(w, Ids(q)), q)
  BY <1>1, <1>4, <1>6, <1>7, StandsWith DEF m, k
<1>9. QED
  BY <1>8 DEF q

PageBefore(p) == IF p.previous = Nil THEN FirstPage ELSE PageAt(p.previous.key, p.previous.scan)

\* The link back takes the walk back to the page before.
LEMMA BackStands ==
  ASSUME ListingOK, profile \in Nat, NEW w, NEW p, Stands(w, p), p.hasPrevious
  PROVE  /\ Stands(Append(Take(Len(w) - 2, w), Ids(PageBefore(p))), PageBefore(p))
         /\ Ids(PageBefore(p)) = w[Len(w) - 1]
         /\ p.previous # Nil => p.previous.fp = Fingerprint
<1> DEFINE k == Len(w)
           b == PageSize * (k - 1)
           m == PageSize * (k - 2)
           v == Take(k - 2, w)
           q == PageBefore(p)
<1>1. k \in Nat \ {0} /\ w \in Seq(Seq(Nat)) /\ PageShows(p, b)
      /\ \A i \in 1..k : w[i] = Piece(PageSize * (i - 1)) /\ (i = 1 \/ PageSize * (i - 1) < Count)
  BY DEF Stands
<1>2. b > 0 /\ ~(search.runtime /\ search.grouped)
      /\ p.previous = IF b > PageSize THEN Cursor(All[b - PageSize], Nil) ELSE Nil
  BY <1>1 DEF PageShows
<1>3. k - 1 \in Nat \ {0} /\ k - 2 \in Nat
  <2>1. k # 1
    <3> SUFFICES ASSUME k = 1 PROVE FALSE
      OBVIOUS
    <3>1. b = PageSize * 0
      OBVIOUS
    <3>2. QED
      BY <3>1, <1>2, FullPages
  <2> HIDE DEF k
  <2>2. QED
    BY <2>1, <1>1
<1>4. /\ m \in Nat /\ b = m + PageSize /\ (m = 0 <=> k - 2 = 0) /\ (m # 0 => b > PageSize)
      /\ PageSize \in Nat \ {0} /\ b - PageSize = m
  <2>1. (k - 2) + 1 = k - 1
    BY <1>1
  <2>2. m \in Nat /\ PageSize * ((k - 2) + 1) = m + PageSize
        /\ PageSize \in Nat \ {0}
    BY <1>3, FullPages
  <2>3. b = m + PageSize
    BY <2>1, <2>2
  <2>4. m = 0 <=> k - 2 = 0
    <3>1. k - 2 = 0 => m = 0
      BY FullPages
    <3>2. 0 < k - 2 => PageSize * 0 + PageSize <= PageSize * (k - 2)
      BY <1>3, FullPages
    <3>3. PageSize * 0 = 0
      BY FullPages
    <3>4. k - 2 # 0 => 0 < k - 2
      <4> HIDE DEF k
      <4>1. QED
        BY <1>1, <1>3
    <3>5. k - 2 # 0 => m # 0
      <4> SUFFICES ASSUME k - 2 # 0 PROVE m # 0
        OBVIOUS
      <4>1. 0 + PageSize <= m
        BY <3>2, <3>3, <3>4
      <4> HIDE DEF m
      <4>2. QED
        BY <4>1, <2>2
    <3>6. QED
      BY <3>1, <3>5
  <2> HIDE DEF m, b, k
  <2>5. QED
    BY <2>2, <2>3, <2>4
<1>5. m = 0 \/ m < Count
  <2>1. k - 1 \in 1..k /\ (k - 1) - 1 = k - 2
    BY <1>1, <1>3
  <2>2. k - 1 = 1 \/ m < Count
    BY <2>1, <1>1
  <2> HIDE DEF m
  <2>3. QED
    BY <2>2, <1>3, <1>4
<1> HIDE DEF m, b
<1>6. PageShows(q, m)
  <2>1. CASE m = 0
    <3>1. p.previous = Nil
      BY <2>1, <1>2, <1>4
    <3>2. q = FirstPage
      BY <3>1 DEF PageBefore
    <3>3. QED
      BY <3>2, <2>1, FirstPageShows
  <2>2. CASE m # 0
    <3>1. p.previous = Cursor(All[m], Nil)
      BY <2>2, <1>2, <1>4
    <3>2. All[m] \in Pairs /\ Nil \in Anchors
      BY <2>2, <1>4, <1>5, AllAre DEF Anchors
    <3>3. p.previous # Nil /\ p.previous.key = All[m] /\ p.previous.scan = Nil
      BY <3>1, <3>2, FingerprintIs
    <3>4. PageShows(PageAt(CursorAt(m), Nil), m)
      BY <3>2, <1>2, <1>4, <1>5, PageAtShows
    <3>5. q = PageAt(CursorAt(m), Nil)
      BY <3>3, <2>2 DEF PageBefore, CursorAt
    <3>6. QED
      BY <3>4, <3>5
  <2>3. QED
    BY <2>1, <2>2
<1>7. p.previous # Nil => p.previous.fp = Fingerprint
  BY <1>2 DEF Cursor
<1>8. Ids(q) = w[k - 1]
  <2>1. k - 1 \in 1..k /\ (k - 1) - 1 = k - 2
    BY <1>1, <1>3
  <2>2. w[k - 1] = Piece(m)
    BY <2>1, <1>1 DEF m
  <2>3. QED
    BY <2>2, <1>6 DEF PageShows
<1>9. v \in Seq(Seq(Nat)) /\ Len(v) = k - 2 /\ \A i \in 1..k - 2 : v[i] = w[i]
  <2> HIDE DEF k
  <2>1. Least(k - 2, k) = k - 2
    BY <1>1, <1>3 DEF Least
  <2>2. QED
    BY <2>1, <1>1, <1>3, TakeIs DEF k
<1> HIDE DEF v, q
<1>10. \A i \in 1..Len(v) : v[i] = Piece(PageSize * (i - 1)) /\ (i = 1 \/ PageSize * (i - 1) < Count)
  <2> SUFFICES ASSUME NEW i \in 1..Len(v)
               PROVE  v[i] = Piece(PageSize * (i - 1)) /\ (i = 1 \/ PageSize * (i - 1) < Count)
    OBVIOUS
  <2>1. i \in 1..k - 2 /\ i \in 1..k
    <3> HIDE DEF k
    <3>1. QED
      BY <1>1, <1>3, <1>9
  <2>2. v[i] = w[i]
    BY <2>1, <1>9
  <2>3. QED
    BY <2>1, <2>2, <1>1
<1>11. Stands(Append(v, Ids(q)), q)
  <2>1. Len(v) = 0 \/ PageSize * Len(v) < Count
    BY <1>4, <1>5, <1>9 DEF m
  <2>2. PageShows(q, PageSize * Len(v))
    BY <1>6, <1>9 DEF m
  <2>3. QED
    BY <2>1, <2>2, <1>9, <1>10, StandsWith
<1>12. QED
  BY <1>7, <1>8, <1>11 DEF q, v, k

-----------------------------------------------------------------------------
(* The pages of a walk, one after the other.                                *)

\* The sums that put sequences one after the other.
FlattensTo(h, w, m) == \A i \in 1..m : h[i] = IF i = 1 THEN w[i] ELSE h[i - 1] \o w[i]
Flattens(h, w) == FlattensTo(h, w, Len(w))

\* FlattenSeq is the last of those sums.
LEMMA FlattenIs ==
  ASSUME NEW w \in Seq(Seq(Nat)), w # <<>>, NEW h \in [1..Len(w) -> Seq(Nat)], Flattens(h, w)
  PROVE  FlattenSeq(w) = h[Len(w)]
<1> DEFINE n == Len(w)
           Is(f) == f = [i \in 1..n |-> IF i = 1 THEN w[i] ELSE f[i - 1] \o w[i]]
           g == CHOOSE f : Is(f)
           Good == {m \in Nat : m + 1 \in 1..n => g[m + 1] = h[m + 1]}
<1>1. n \in Nat \ {0}
  OBVIOUS
<1>2. FlattenSeq(w) = g[n]
  BY <1>1 DEF FlattenSeq
<1>3. Is(h)
  BY DEF Flattens, FlattensTo
<1>4. Is(g)
  BY <1>3
<1> HIDE DEF g
<1>5. \A i \in 1..n : g[i] = IF i = 1 THEN w[i] ELSE g[i - 1] \o w[i]
  BY <1>4
<1>12. \A i \in 1..n : h[i] = IF i = 1 THEN w[i] ELSE h[i - 1] \o w[i]
  BY DEF Flattens, FlattensTo
<1> HIDE DEF n
<1>6. 0 \in Good
  <2>1. 1 \in 1..n
    BY <1>1
  <2>2. g[1] = h[1]
    BY <2>1, <1>5, <1>12
  <2>3. 0 + 1 = 1
    OBVIOUS
  <2>4. QED
    BY <2>2, <2>3
<1>7. ASSUME NEW m \in Nat, m \in Good PROVE m + 1 \in Good
  <2> SUFFICES ASSUME (m + 1) + 1 \in 1..n PROVE g[(m + 1) + 1] = h[(m + 1) + 1]
    OBVIOUS
  <2>1. m + 1 \in 1..n /\ ((m + 1) + 1) - 1 = m + 1 /\ (m + 1) + 1 # 1
    BY <1>1
  <2>2. g[m + 1] = h[m + 1]
    BY <1>7, <2>1
  <2> DEFINE e == (m + 1) + 1
  <2>3. e \in 1..n /\ e # 1 /\ e - 1 = m + 1
    BY <2>1
  <2> HIDE DEF e
  <2>4. g[e] = g[e - 1] \o w[e] /\ h[e] = h[e - 1] \o w[e]
    BY <2>3, <1>5, <1>12
  <2>5. g[e] = h[e]
    BY <2>2, <2>3, <2>4
  <2>6. QED
    BY <2>5 DEF e
<1> HIDE DEF Good
<1>8. n - 1 \in Good
  <2>1. n - 1 \in Nat
    BY <1>1
  <2>2. QED
    BY <2>1, <1>6, <1>7, NumbersByInduction
<1>9. (n - 1) + 1 = n /\ n \in 1..n
  BY <1>1
<1>10. g[n] = h[n]
  BY <1>8, <1>9 DEF Good
<1>11. QED
  BY <1>2, <1>10 DEF n

\* There are such sums.
LEMMA FlattenExists ==
  ASSUME NEW w \in Seq(Seq(Nat))
  PROVE  \E h \in [1..Len(w) -> Seq(Nat)] : Flattens(h, w)
<1> DEFINE n == Len(w)
           Good == {m \in Nat : m <= n => \E h \in [1..m -> Seq(Nat)] : FlattensTo(h, w, m)}
<1>1. n \in Nat /\ \A i \in 1..n : w[i] \in Seq(Nat)
  OBVIOUS
<1> HIDE DEF n
<1>2. 0 \in Good
  <2>1. [i \in 1..0 |-> <<>>] \in [1..0 -> Seq(Nat)]
    OBVIOUS
  <2>2. FlattensTo([i \in 1..0 |-> <<>>], w, 0)
    BY DEF FlattensTo
  <2>3. QED
    BY <2>1, <2>2
<1>3. ASSUME NEW m \in Nat, m \in Good PROVE m + 1 \in Good
  <2> SUFFICES ASSUME m + 1 <= n
               PROVE  \E h \in [1..m + 1 -> Seq(Nat)] : FlattensTo(h, w, m + 1)
    OBVIOUS
  <2>1. PICK h \in [1..m -> Seq(Nat)] : FlattensTo(h, w, m)
    BY <1>1, <1>3
  <2> DEFINE x == IF m = 0 THEN w[1] ELSE h[m] \o w[m + 1]
             g == [i \in 1..m + 1 |-> IF i = m + 1 THEN x ELSE h[i]]
  <2>2. x \in Seq(Nat)
    <3>1. CASE m = 0
      BY <3>1, <1>1
    <3>2. CASE m # 0
      <4>1. m \in 1..m /\ m + 1 \in 1..n
        BY <3>2, <1>1
      <4>2. h[m] \in Seq(Nat) /\ w[m + 1] \in Seq(Nat)
        BY <4>1, <1>1
      <4>3. QED
        BY <4>2, <3>2
    <3>3. QED
      BY <3>1, <3>2
  <2> HIDE DEF x
  <2>3. g \in [1..m + 1 -> Seq(Nat)]
    BY <2>2
  <2>4. g[m + 1] = x /\ \A i \in 1..m : g[i] = h[i]
    OBVIOUS
  <2> HIDE DEF g
  <2>5. ASSUME NEW i \in 1..m + 1 PROVE g[i] = IF i = 1 THEN w[i] ELSE g[i - 1] \o w[i]
    <3>1. CASE i = m + 1
      <4>1. CASE m = 0
        BY <3>1, <4>1, <2>4 DEF x
      <4>2. CASE m # 0
        <5>1. i - 1 = m /\ m \in 1..m /\ i # 1
          BY <3>1, <4>2
        <5>2. QED
          BY <5>1, <3>1, <4>2, <2>4 DEF x
      <4>3. QED
        BY <4>1, <4>2
    <3>2. CASE i # m + 1
      <4>1. i \in 1..m /\ (i # 1 => i - 1 \in 1..m)
        BY <3>2
      <4>2. QED
        BY <4>1, <2>1, <2>4 DEF FlattensTo
    <3>3. QED
      BY <3>1, <3>2
  <2>6. FlattensTo(g, w, m + 1)
    BY <2>5 DEF FlattensTo
  <2>7. QED
    BY <2>3, <2>6
<1> HIDE DEF Good
<1>4. n \in Good
  BY <1>1, <1>2, <1>3, NumbersByInduction
<1>5. \E h \in [1..n -> Seq(Nat)] : FlattensTo(h, w, n)
  BY <1>1, <1>4 DEF Good
<1>6. QED
  BY <1>5 DEF Flattens, n

\* One more page comes after all before it.
LEMMA FlattenAppend ==
  ASSUME NEW w \in Seq(Seq(Nat)), NEW x \in Seq(Nat)
  PROVE  /\ FlattenSeq(<<x>>) = x
         /\ w # <<>> => /\ FlattenSeq(w) \in Seq(Nat)
                        /\ FlattenSeq(Append(w, x)) = FlattenSeq(w) \o x
<1>1. FlattenSeq(<<x>>) = x
  <2> DEFINE v == <<x>>
             g == [i \in 1..1 |-> x]
  <2>1. v \in Seq(Seq(Nat)) /\ v # <<>> /\ Len(v) = 1 /\ v[1] = x
    OBVIOUS
  <2>2. g \in [1..1 -> Seq(Nat)] /\ g[1] = x
    OBVIOUS
  <2> HIDE DEF v, g
  <2>3. Flattens(g, v)
    BY <2>1, <2>2 DEF Flattens, FlattensTo
  <2>4. FlattenSeq(v) = g[1]
    BY <2>1, <2>2, <2>3, FlattenIs
  <2>5. QED
    BY <2>2, <2>4 DEF v
<1>2. ASSUME w # <<>>
      PROVE  FlattenSeq(w) \in Seq(Nat) /\ FlattenSeq(Append(w, x)) = FlattenSeq(w) \o x
  <2> DEFINE k == Len(w)
             v == Append(w, x)
  <2>1. k \in Nat \ {0} /\ k \in 1..k
    BY <1>2
  <2>2. PICK h \in [1..k -> Seq(Nat)] : Flattens(h, w)
    BY FlattenExists
  <2>3. FlattenSeq(w) = h[k] /\ h[k] \in Seq(Nat)
    BY <1>2, <2>1, <2>2, FlattenIs
  <2> DEFINE g == [i \in 1..k + 1 |-> IF i = k + 1 THEN h[k] \o x ELSE h[i]]
  <2>4. v \in Seq(Seq(Nat)) /\ Len(v) = k + 1 /\ v # <<>> /\ v[k + 1] = x
        /\ \A i \in 1..k : v[i] = w[i]
    OBVIOUS
  <2>5. g \in [1..k + 1 -> Seq(Nat)] /\ g[k + 1] = h[k] \o x /\ \A i \in 1..k : g[i] = h[i]
    BY <2>1, <2>3
  <2>6. \A i \in 1..k : h[i] = IF i = 1 THEN w[i] ELSE h[i - 1] \o w[i]
    BY <2>2 DEF Flattens, FlattensTo
  <2> HIDE DEF v, g, k
  <2>7. ASSUME NEW i \in 1..k + 1
        PROVE  g[i] = IF i = 1 THEN v[i] ELSE g[i - 1] \o v[i]
    <3>1. CASE i = k + 1
      <4>1. i - 1 = k /\ i # 1
        BY <3>1, <2>1
      <4>2. QED
        BY <4>1, <3>1, <2>1, <2>4, <2>5
    <3>2. CASE i # k + 1
      <4>1. i \in 1..k /\ (i # 1 => i - 1 \in 1..k)
        BY <3>2, <2>1
      <4>2. g[i] = h[i] /\ v[i] = w[i] /\ (i # 1 => g[i - 1] = h[i - 1])
        BY <4>1, <2>4, <2>5
      <4>3. QED
        BY <4>1, <4>2, <2>6
    <3>3. QED
      BY <3>1, <3>2
  <2>8. Flattens(g, v)
    BY <2>4, <2>7 DEF Flattens, FlattensTo
  <2>9. FlattenSeq(v) = g[k + 1]
    BY <2>4, <2>5, <2>8, FlattenIs
  <2>10. QED
    BY <2>3, <2>5, <2>9 DEF v
<1>3. QED
  BY <1>1, <1>2

\* The pages of an undisturbed walk, one after the other, are the beginning of the list.
LEMMA StandsIsTheList ==
  ASSUME ListingOK, NEW w, NEW p, Stands(w, p)
  PROVE  /\ FlattenSeq(w) = [j \in 1..Least(PageSize * Len(w), Count) |-> All[j][2]]
         /\ p.next = Nil <=> Count <= PageSize * Len(w)
<1> DEFINE k == Len(w)
           upto(i) == Least(PageSize * i, Count)
           h == [i \in 1..k |-> [j \in 1..upto(i) |-> All[j][2]]]
<1>1. /\ Count \in Nat /\ \A i \in 1..Count : All[i][2] \in Nat
  BY AllAre
<1>2. /\ k \in Nat \ {0} /\ w \in Seq(Seq(Nat)) /\ w # <<>>
      /\ \A i \in 1..k : w[i] = Piece(PageSize * (i - 1)) /\ (i = 1 \/ PageSize * (i - 1) < Count)
      /\ PageShows(p, PageSize * (k - 1))
  BY DEF Stands
<1> HIDE DEF k
<1>3. ASSUME NEW i \in 1..k
      PROVE  /\ PageSize * i \in Nat /\ PageSize * (i - 1) \in Nat /\ PageSize \in Nat \ {0}
             /\ PageSize * i = PageSize * (i - 1) + PageSize
             /\ i = 1 => PageSize * (i - 1) = 0
  <2>1. i \in Nat /\ i - 1 \in Nat /\ (i - 1) + 1 = i
    BY <1>2
  <2>2. PageSize * i \in Nat /\ PageSize * (i - 1) \in Nat /\ PageSize \in Nat \ {0}
        /\ PageSize * ((i - 1) + 1) = PageSize * (i - 1) + PageSize
    BY <2>1, FullPages
  <2>3. i = 1 => PageSize * (i - 1) = PageSize * 0
    OBVIOUS
  <2>4. QED
    BY <2>1, <2>2, <2>3, FullPages
<1>4. ASSUME NEW i \in 1..k
      PROVE  upto(i) \in Nat /\ upto(i) <= Count /\ h[i] \in Seq(Nat) /\ Len(h[i]) = upto(i)
             /\ \A j \in 1..upto(i) : h[i][j] = All[j][2]
  <2>1. upto(i) \in Nat /\ upto(i) <= Count
    BY <1>1, <1>3 DEF Least
  <2> HIDE DEF upto
  <2>2. \A j \in 1..upto(i) : All[j][2] \in Nat
    BY <2>1, <1>1
  <2>3. h[i] = [j \in 1..upto(i) |-> All[j][2]]
    OBVIOUS
  <2> HIDE DEF h
  <2>4. QED
    BY <2>1, <2>2, <2>3
<1>5. h \in [1..k -> Seq(Nat)]
  <2> HIDE DEF upto
  <2>1. \A i \in 1..k : [j \in 1..upto(i) |-> All[j][2]] \in Seq(Nat)
    BY <1>4
  <2>2. QED
    BY <2>1
<1> HIDE DEF h
<1>6. ASSUME NEW i \in 1..k
      PROVE  h[i] = IF i = 1 THEN w[i] ELSE h[i - 1] \o w[i]
  <2> DEFINE a == PageSize * (i - 1)
             x == w[i]
             u == upto(i)
  <2>1. /\ a \in Nat /\ PageSize * i = a + PageSize /\ PageSize \in Nat \ {0} /\ (i = 1 => a = 0)
        /\ i = 1 \/ a < Count
        /\ x = Piece(a)
    BY <1>2, <1>3
  <2>2. u = Least(a + PageSize, Count)
    BY <2>1
  <2>3. u \in Nat /\ h[i] \in Seq(Nat) /\ Len(h[i]) = u /\ \A j \in 1..u : h[i][j] = All[j][2]
    BY <1>4
  <2>4. a = 0 \/ a < Count
    BY <2>1
  <2>5. i # 1 => /\ i - 1 \in 1..k /\ upto(i - 1) = a /\ h[i - 1] \in Seq(Nat)
                 /\ Len(h[i - 1]) = a /\ \A j \in 1..a : h[i - 1][j] = All[j][2]
    <3> SUFFICES ASSUME i # 1
                 PROVE  /\ i - 1 \in 1..k /\ upto(i - 1) = a /\ h[i - 1] \in Seq(Nat)
                        /\ Len(h[i - 1]) = a /\ \A j \in 1..a : h[i - 1][j] = All[j][2]
      OBVIOUS
    <3>1. i - 1 \in 1..k
      BY <1>2
    <3>2. upto(i - 1) = a
      BY <2>1, <1>1 DEF Least
    <3>3. QED
      BY <3>1, <3>2, <1>4
  <2> HIDE DEF a, u, x, upto
  <2>6. /\ Piece(a) \in Seq(Nat) /\ Len(Piece(a)) = Least(PageSize, Count - a)
        /\ \A j \in 1..Least(PageSize, Count - a) : Piece(a)[j] = All[a + j][2]
    BY <2>1, <2>4, PieceIs
  <2>7. Least(PageSize, Count - a) \in Nat /\ a + Least(PageSize, Count - a) = u
    BY <2>1, <2>2, <2>4, <1>1 DEF Least
  <2> DEFINE e == Least(PageSize, Count - a)
  <2>8. x \in Seq(Nat) /\ Len(x) = e /\ (\A j \in 1..e : x[j] = All[a + j][2])
        /\ e \in Nat /\ a + e = u
    BY <2>1, <2>6, <2>7
  <2> HIDE DEF e
  <2>9. CASE i = 1
    <3>1. a = 0 /\ e = u
      BY <2>9, <2>1, <2>8, <2>3
    <3>2. \A j \in 1..u : 0 + j = j
      BY <2>3
    <3>3. \A j \in 1..u : x[j] = h[i][j]
      BY <3>1, <3>2, <2>3, <2>8
    <3>4. x = h[i]
      BY <3>1, <3>3, <2>3, <2>8, SameSequence
    <3>5. QED
      BY <3>4, <2>9 DEF x
  <2>10. CASE i # 1
    <3> DEFINE y == h[i - 1]
               z == y \o x
    <3>1. y \in Seq(Nat) /\ Len(y) = a /\ \A j \in 1..a : y[j] = All[j][2]
      BY <2>5, <2>10
    <3> HIDE DEF y
    <3>2. /\ z \in Seq(Nat) /\ Len(z) = u
          /\ \A j \in 1..u : z[j] = IF j <= a THEN y[j] ELSE x[j - a]
      BY <3>1, <2>1, <2>8
    <3> HIDE DEF z
    <3>3. \A j \in 1..u : z[j] = h[i][j]
      <4> SUFFICES ASSUME NEW j \in 1..u PROVE z[j] = All[j][2]
        BY <2>3
      <4>1. CASE j <= a
        <5>1. j \in 1..a
          BY <4>1, <2>1, <2>3
        <5>2. QED
          BY <5>1, <4>1, <3>1, <3>2
      <4>2. CASE ~(j <= a)
        <5>1. j - a \in 1..e /\ a + (j - a) = j
          BY <4>2, <2>1, <2>3, <2>8
        <5>2. x[j - a] = All[a + (j - a)][2]
          BY <5>1, <2>8
        <5>3. QED
          BY <5>1, <5>2, <4>2, <3>2
      <4>3. QED
        BY <4>1, <4>2
    <3>4. z = h[i]
      BY <3>2, <3>3, <2>3, SameSequence
    <3>5. QED
      BY <3>4, <2>10 DEF x, y, z
  <2>11. QED
    BY <2>9, <2>10
<1>7. Flattens(h, w)
  BY <1>6 DEF Flattens, FlattensTo, k
<1>8. FlattenSeq(w) = h[k]
  BY <1>2, <1>5, <1>7, FlattenIs DEF k
<1>9. k \in 1..k
  BY <1>2
<1>10. h[k] = [j \in 1..upto(k) |-> All[j][2]]
  BY <1>9 DEF h
<1>11. PageSize * k = PageSize * (k - 1) + PageSize
  BY <1>3, <1>9
<1>12. p.next = Nil <=> Count <= PageSize * (k - 1) + PageSize
  BY <1>2 DEF PageShows
<1>13. QED
  BY <1>8, <1>10, <1>11, <1>12 DEF k

\* What WalkIsTheList says of the pages.
LEMMA StandsMakesTheList ==
  ASSUME ListingOK, walk # <<>>, Stands(walk, page)
  PROVE  WalkIsTheList
<1> DEFINE all == InOrder(MatchingKeys, search.desc)
           k == Len(walk)
           m == PageSize * k
           ids == [i \in DOMAIN all |-> all[i][2]]
           n == Least(m, Count)
<1>1. all = All
  BY DEF All
<1>2. /\ Count \in Nat /\ Len(All) = Count /\ DOMAIN All = 1..Count
      /\ \A i \in 1..Count : All[i][2] \in Nat
  BY AllAre
<1>3. m \in Nat
  <2>1. k \in Nat
    BY DEF Stands
  <2> HIDE DEF k
  <2>2. QED
    BY <2>1, FullPages
<1>4. Shown = [j \in 1..n |-> All[j][2]] /\ (page.next = Nil <=> Count <= m)
  BY StandsIsTheList DEF Shown
<1> HIDE DEF m, k
<1>5. n \in Nat /\ n <= Count
  BY <1>2, <1>3 DEF Least
<1>6. ids \in Seq(Nat) /\ Len(ids) = Count /\ \A i \in 1..Count : ids[i] = All[i][2]
  BY <1>1, <1>2
<1> HIDE DEF all, ids
<1>7. Len(Shown) = n /\ Shown \in Seq(Nat) /\ \A j \in 1..n : Shown[j] = ids[j]
  <2> HIDE DEF n
  <2>1. \A j \in 1..n : All[j][2] \in Nat /\ All[j][2] = ids[j]
    BY <1>2, <1>5, <1>6
  <2>2. QED
    BY <2>1, <1>4, <1>5
<1>8. Least(n, Len(ids)) = n
  BY <1>5, <1>6 DEF Least
<1>15. n \in Nat /\ Least(n, Len(ids)) = n
  BY <1>5, <1>8
<1> HIDE DEF n
<1>9. Take(n, ids) \in Seq(Nat) /\ Len(Take(n, ids)) = n /\ \A i \in 1..n : Take(n, ids)[i] = ids[i]
  <2>1. /\ Take(n, ids) \in Seq(Nat) /\ Len(Take(n, ids)) = Least(n, Len(ids))
        /\ \A i \in 1..Least(n, Len(ids)) : Take(n, ids)[i] = ids[i]
    BY <1>6, <1>15, TakeIs
  <2>2. QED
    BY <2>1, <1>15
<1>10. Shown = Take(n, ids)
  BY <1>7, <1>9, SameSequence
<1>11. page.next # Nil <=> n < Count
  BY <1>2, <1>3, <1>4 DEF n, Least
<1>12. page.next # Nil => n = m
  BY <1>2, <1>3, <1>4 DEF n, Least
<1>13. Len(all) = Count
  BY <1>1, <1>2
<1>14. QED
  BY <1>7, <1>10, <1>11, <1>12, <1>13 DEF WalkIsTheList, all, ids, m, k

-----------------------------------------------------------------------------
(* Types: whatever became of the anchors of a cursor, the answer is a page. *)

\* What the list depends on.
SameList == UNCHANGED <<search, listed, accepted, profile>>

\* If nothing of that changes, no match and no key does.
LEMMA SameMatches ==
  ASSUME SameList
  PROVE  /\ search' = search /\ profile' = profile
         /\ MatchingKeys' = MatchingKeys /\ RawKeys' = RawKeys
         /\ All' = All /\ Count' = Count /\ Fingerprint' = Fingerprint
         /\ ListingOK' <=> ListingOK
<1>1. search' = search /\ listed' = listed /\ accepted' = accepted /\ profile' = profile
  BY DEF SameList
<1>4. RawKeys' = RawKeys
  BY <1>1 DEF RawKeys, GroupKeys
<1>5. MatchingKeys' = MatchingKeys
  BY <1>1 DEF MatchingKeys, GroupKeys, RowKeys, Matching
<1>6. All' = All /\ Count' = Count
  BY <1>1, <1>5 DEF All, Count
<1>7. Fingerprint' = Fingerprint
  BY <1>1 DEF Fingerprint
<1>8. ListingOK' <=> ListingOK
  BY <1>1 DEF ListingOK
<1>9. QED
  BY <1>1, <1>4, <1>5, <1>6, <1>7, <1>8

\* Nor does it matter to the pages whether they are looked at before or after.
LEMMA SamePages ==
  ASSUME SameList
  PROVE  Stands(walk', page') => Stands(walk, page)'
<1>1. /\ search' = search /\ MatchingKeys' = MatchingKeys /\ RawKeys' = RawKeys
      /\ All' = All /\ Count' = Count /\ Fingerprint' = Fingerprint
  BY SameMatches
<1>2. QED
  BY <1>1 DEF Stands, PageShows, Piece, Reached, Cursor

Pages == [items : Seq(Pairs), next : CursorOf \cup {Nil}, previous : CursorOf \cup {Nil},
          hasPrevious : BOOLEAN]

\* A page is made of its parts.
LEMMA PageOf ==
  ASSUME NEW i \in Seq(Pairs), NEW n \in CursorOf \cup {Nil}, NEW q \in CursorOf \cup {Nil},
         NEW h \in BOOLEAN
  PROVE  [items |-> i, next |-> n, previous |-> q, hasPrevious |-> h] \in Pages
  BY DEF Pages

\* The empty page is a page.
LEMMA EmptyTyped ==
  ASSUME NEW h \in BOOLEAN
  PROVE  EmptyPage(h) \in Pages
<1>1. <<>> \in Seq(Pairs)
  OBVIOUS
<1>2. QED
  BY <1>1, PageOf DEF EmptyPage

\* Whatever the anchors of a cursor are by now, the answer is a page.
LEMMA PageTyped ==
  ASSUME ListingOK, profile \in Nat, NEW anchor \in Anchors, NEW start \in Anchors
  PROVE  PageAt(anchor, start) \in Pages /\ Ids(PageAt(anchor, start)) \in Seq(Nat)
<1> DEFINE d == search.desc
           W == Offered(anchor, start)
           s == InOrder(W, d)
           p == PageAt(anchor, start)
           found == Read(anchor, d)
           items == Take(PageSize, found)
           preceding == Read(Head(items), ~d)
<1>1. /\ W \in SUBSET Pairs /\ IsFiniteSet(W) /\ d \in BOOLEAN /\ (~d) \in BOOLEAN
      /\ PageSize \in Nat \ {0} /\ PageSize + 1 \in Nat
  BY OfferedAre, MatchingKeysAre, SearchAssumption
<1>2. s \in Seq(Pairs) /\ Len(s) = Cardinality(W) /\ Cardinality(W) \in Nat
      /\ \A i \in 1..Cardinality(W) : s[i] \in Pairs
  <2> HIDE DEF W, d
  <2>1. s \in Seq(W) /\ Len(s) = Cardinality(W) /\ Cardinality(W) \in Nat
    BY <1>1, PlaceInOrder
  <2>2. QED
    BY <2>1, <1>1
<1>3. CutFrom(p, W)
  BY PageAtIsCut
<1> HIDE DEF s
<1>4. p.items \in Seq(Pairs)
  <2>1. p.items = Take(PageSize, s) /\ PageSize \in Nat
    BY <1>1, <1>3 DEF CutFrom, s
  <2>2. QED
    BY <2>1, <1>2, TakeIs
<1>5. p.next \in CursorOf \cup {Nil}
  <2> SUFFICES ASSUME p.next # Nil PROVE p.next \in CursorOf
    OBVIOUS
  <2>1. /\ ~(Cardinality(W) <= PageSize) /\ p.next.key = s[PageSize] /\ p.next.scan \in Anchors
        /\ p.next = [key |-> p.next.key, scan |-> p.next.scan, fp |-> Fingerprint]
    BY <1>3 DEF CutFrom, s
  <2>2. PageSize \in 1..Cardinality(W)
    BY <2>1, <1>1, <1>2
  <2>3. p.next.key \in Pairs
    BY <2>1, <2>2, <1>2
  <2>4. Fingerprint \in Nat \cup {Nil}
    BY FingerprintIs
  <2> HIDE DEF p
  <2>5. QED
    BY <2>1, <2>3, <2>4 DEF CursorOf
<1>6. ASSUME search.runtime, search.grouped PROVE p \in Pages
  <2>1. p = RuntimeGroupPage(anchor, start)
    BY <1>6 DEF PageAt
  <2> DEFINE scanned == ScanGroups(anchor, start, search.desc)
             ranked == InOrder(Keys(scanned.found), search.desc)
             shown == Take(PageSize, ranked)
             next == IF Len(ranked) > PageSize
                     THEN Cursor(Last(shown), NextScanAnchor(scanned, shown)) ELSE Nil
  <2>2. CASE ranked = <<>>
    <3>1. p = EmptyPage(FALSE)
      BY <2>1, <2>2 DEF RuntimeGroupPage
    <3> HIDE DEF p
    <3>2. QED
      BY <3>1, EmptyTyped
  <2>3. CASE ranked # <<>>
    <3>1. p = [items |-> shown, next |-> next, previous |-> Nil, hasPrevious |-> FALSE]
      BY <2>1, <2>3 DEF RuntimeGroupPage
    <3> HIDE DEF p, shown, next
    <3>2. p.items = shown /\ p.next = next
      BY <3>1
    <3>3. shown \in Seq(Pairs) /\ next \in CursorOf \cup {Nil} /\ FALSE \in BOOLEAN
      BY <3>2, <1>4, <1>5
    <3>4. QED
      BY <3>1, <3>3, PageOf
  <2>4. QED
    BY <2>2, <2>3
<1>7. ASSUME ~(search.runtime /\ search.grouped) PROVE p \in Pages
  <2>1. p = KeysetPage(anchor)
    BY <1>7 DEF PageAt
  <2>2. CASE found = <<>>
    <3>1. p = EmptyPage(anchor # Nil /\ ~search.grouped)
      BY <2>1, <2>2 DEF KeysetPage
    <3>2. (anchor # Nil /\ ~search.grouped) \in BOOLEAN
      OBVIOUS
    <3> HIDE DEF p
    <3>3. QED
      BY <3>1, <3>2, EmptyTyped
  <2>3. CASE found # <<>>
    <3> DEFINE next == IF Len(found) > PageSize THEN Cursor(Last(items), Nil) ELSE Nil
               before == IF anchor # Nil THEN PreviousCursor(preceding) ELSE Nil
               has == anchor # Nil
    <3>1. p = [items |-> items, next |-> next, previous |-> before, hasPrevious |-> has]
      BY <2>1, <2>3 DEF KeysetPage
    <3>2. PreviousCursor(preceding) \in CursorOf \cup {Nil}
      <4>1. found = Take(PageSize + 1, InOrder(After(MatchingKeys, anchor, d), d))
        BY <1>1, <1>7, ReadIs
      <4>2. InOrder(After(MatchingKeys, anchor, d), d) \in Seq(Pairs)
        <5> DEFINE A == After(MatchingKeys, anchor, d)
        <5>1. A \in SUBSET Pairs /\ IsFiniteSet(A)
          BY MatchingKeysAre, AfterIsPart
        <5> HIDE DEF A, d
        <5>2. InOrder(A, d) \in Seq(A)
          BY <5>1, <1>1, PlaceInOrder
        <5>3. InOrder(A, d) \in Seq(Pairs)
          BY <5>1, <5>2
        <5>4. QED
          BY <5>3 DEF A
      <4> DEFINE r == InOrder(After(MatchingKeys, anchor, d), d)
      <4> HIDE DEF r
      <4>3. r \in Seq(Pairs) /\ found = Take(PageSize + 1, r)
        BY <4>1, <4>2 DEF r
      <4>4. found \in Seq(Pairs)
        <5> HIDE DEF found
        <5>1. QED
          BY <4>3, <1>1, TakeIs
      <4> HIDE DEF found
      <4>5. items \in Seq(Pairs) /\ Len(items) = Least(PageSize, Len(found))
        BY <4>4, <1>1, TakeIs
      <4>6. Head(items) \in Pairs
        <5>1. Len(found) \in Nat \ {0}
          BY <4>4, <2>3
        <5>2. Least(PageSize, Len(found)) >= 1
          BY <5>1, <1>1 DEF Least
        <5> HIDE DEF items
        <5>3. QED
          BY <4>5, <5>2
      <4> DEFINE h == Head(items)
                 B == After(MatchingKeys, h, ~d)
                 e == ~d
                 t == InOrder(B, e)
      <4>7. h \in Anchors
        BY <4>6 DEF Anchors
      <4>8. t \in Seq(Pairs)
        <5>1. B \in SUBSET Pairs /\ IsFiniteSet(B)
          BY MatchingKeysAre, AfterIsPart
        <5>2. e \in BOOLEAN
          BY <1>1
        <5> HIDE DEF B, e
        <5>3. t \in Seq(B)
          BY <5>1, <5>2, PlaceInOrder
        <5> HIDE DEF t
        <5>4. QED
          BY <5>1, <5>3
      <4>9. preceding = Take(PageSize + 1, t)
        <5> HIDE DEF h
        <5>1. Read(h, e) = Take(PageSize + 1, InOrder(After(MatchingKeys, h, e), e))
          BY <4>7, <1>1, <1>7, ReadIs
        <5>2. QED
          BY <5>1 DEF h
      <4> HIDE DEF t, h, B, e, preceding
      <4>10. preceding \in Seq(Pairs)
        BY <4>8, <4>9, <1>1, TakeIs
      <4>11. CASE Len(preceding) > PageSize
        <5>1. Last(preceding) \in Pairs
          BY <4>10, <4>11, <1>1 DEF Last
        <5>2. Nil \in Anchors
          BY DEF Anchors
        <5>3. Cursor(Last(preceding), Nil) \in CursorOf
          BY <5>1, <5>2, FingerprintIs
        <5>4. QED
          BY <5>3, <4>11 DEF PreviousCursor
      <4>12. CASE ~(Len(preceding) > PageSize)
        BY <4>12 DEF PreviousCursor
      <4>13. QED
        BY <4>11, <4>12
    <3>3. before \in CursorOf \cup {Nil} /\ has \in BOOLEAN
      BY <3>2
    <3> HIDE DEF p, items, next, before, has
    <3>4. p.items = items /\ p.next = next
      BY <3>1
    <3>5. items \in Seq(Pairs) /\ next \in CursorOf \cup {Nil}
      BY <3>4, <1>4, <1>5
    <3>6. QED
      BY <3>1, <3>3, <3>5, PageOf
  <2>4. QED
    BY <2>2, <2>3
<1>8. p \in Pages
  BY <1>6, <1>7
<1> HIDE DEF p
<1>9. Ids(p) \in Seq(Nat)
  <2> DEFINE n == Len(p.items)
  <2>1. n \in Nat /\ DOMAIN p.items = 1..n /\ \A i \in 1..n : p.items[i] \in Pairs
    BY <1>4
  <2> HIDE DEF n
  <2>2. \A i \in 1..n : p.items[i][2] \in Nat
    BY <2>1 DEF Pairs
  <2>3. Ids(p) = [i \in 1..n |-> p.items[i][2]]
    BY <2>1 DEF Ids
  <2>4. QED
    BY <2>1, <2>2, <2>3
<1>10. QED
  BY <1>8, <1>9 DEF p

\* A walk grows and shrinks by pages of ids.
LEMMA AppendTyped ==
  ASSUME NEW w \in Seq(Seq(Nat)), NEW x \in Seq(Nat)
  PROVE  Append(w, x) \in Seq(Seq(Nat)) /\ Append(w, x) # <<>>
<1>1. Len(w) \in Nat /\ Append(w, x) \in Seq(Seq(Nat)) /\ Len(Append(w, x)) = Len(w) + 1
  OBVIOUS
<1>2. Len(Append(w, x)) # 0 /\ Len(<<>>) = 0
  BY <1>1
<1>3. QED
  BY <1>1, <1>2

LEMMA TakeTyped ==
  ASSUME NEW w \in Seq(Seq(Nat)), NEW n \in Int
  PROVE  Take(n, w) \in Seq(Seq(Nat))
<1>1. CASE n \in Nat
  BY <1>1, TakeIs
<1>2. CASE n \notin Nat
  <2>1. Len(w) \in Nat /\ n < 0
    BY <1>2
  <2>2. Min({n, Len(w)}) = n
    BY <2>1, MinOfTwo DEF Least
  <2>3. Take(n, w) = <<>>
    BY <2>1, <2>2 DEF Take
  <2>4. QED
    BY <2>3
<1>3. QED
  BY <1>1, <1>2

-----------------------------------------------------------------------------
(* The first invariant: types, and the pages of an undisturbed walk.        *)

SearchTypeOK ==
  /\ ListingOK
  /\ profile \in Nat /\ began \in Nat
  /\ page \in Pages /\ walk \in Seq(Seq(Nat))
  /\ back \in BOOLEAN /\ touched \in SUBSET Rows /\ changes \in 0..MaxChanges

\* A walk began with the present profile or an earlier one; without a walk there is no page.
StateOK ==
  /\ SearchTypeOK
  /\ began <= profile
  /\ walk = <<>> => page = EmptyPage(FALSE)

\* What holds of a walk that nothing has disturbed.
WalkInv == (Undisturbed /\ walk # <<>>) => Stands(walk, page)

\* At the start there is no walk.
LEMMA SearchStarts ==
  Init => StateOK /\ WalkInv
<1> SUFFICES ASSUME Init PROVE StateOK /\ WalkInv
  OBVIOUS
<1>1. PICK rows \in SUBSET Rows : listed \in [rows -> Values]
  BY DEF Init
<1>2. DOMAIN listed = rows /\ listed \in [DOMAIN listed -> Values]
  BY <1>1
<1>3. search \in Search /\ accepted \in SUBSET DOMAIN listed
  BY DEF Init
<1>4. ListingOK
  BY <1>1, <1>2, <1>3 DEF ListingOK
<1>5. SearchTypeOK
  <2>1. page \in Pages
    BY EmptyTyped DEF Init
  <2>2. walk \in Seq(Seq(Nat))
    BY DEF Init
  <2>3. changes \in 0..MaxChanges
    BY SearchAssumption DEF Init
  <2>4. QED
    BY <1>4, <2>1, <2>2, <2>3 DEF Init, SearchTypeOK
<1>6. QED
  BY <1>5 DEF Init, StateOK, WalkInv

\* The crawl leaves a list in order.
LEMMA ListingStays ==
  ASSUME ListingOK, Next
  PROVE  ListingOK'
<1>1. CASE Open \/ FollowNext \/ FollowPrevious
  <2>1. SameList
    BY <1>1 DEF Open, FollowNext, FollowPrevious, SameList
  <2>2. QED
    BY <2>1, SameMatches
<1>2. ASSUME NEW r \in Rows, CrawlChanges(r) PROVE ListingOK'
  <2>1. search' = search /\ search \in Search
    BY <1>2 DEF CrawlChanges, Change, ListingOK
  <2>2. DOMAIN listed \in SUBSET Rows /\ listed \in [DOMAIN listed -> Values]
        /\ accepted \in SUBSET DOMAIN listed
    BY DEF ListingOK
  <2>3. PICK kept \in BOOLEAN, v \in Values :
          listed' = IF kept THEN [q \in DOMAIN listed \cup {r} |-> IF q = r THEN v ELSE listed[q]]
                    ELSE Restrict(listed, DOMAIN listed \ {r})
    BY <1>2 DEF CrawlChanges
  <2>4. CASE kept
    <3>1. listed' = [q \in DOMAIN listed \cup {r} |-> IF q = r THEN v ELSE listed[q]]
      BY <2>3, <2>4
    <3>2. DOMAIN listed' = DOMAIN listed \cup {r} /\ listed' \in [DOMAIN listed' -> Values]
      BY <3>1, <2>2
    <3>3. accepted' \in SUBSET DOMAIN listed'
      BY <3>2, <2>2, <1>2 DEF CrawlChanges
    <3>4. QED
      BY <2>1, <2>2, <3>2, <3>3 DEF ListingOK
  <2>5. CASE ~kept
    <3>1. listed' = [q \in DOMAIN listed \ {r} |-> listed[q]]
      BY <2>3, <2>5 DEF Restrict
    <3>2. DOMAIN listed' = DOMAIN listed \ {r} /\ listed' \in [DOMAIN listed' -> Values]
      BY <3>1, <2>2
    <3>3. accepted' = accepted \ {r}
      BY <3>2, <1>2 DEF CrawlChanges
    <3>4. QED
      BY <2>1, <2>2, <3>2, <3>3 DEF ListingOK
  <2>6. QED
    BY <2>4, <2>5
<1>3. ASSUME NEW r \in Rows, EditProfile(r) PROVE ListingOK'
  BY <1>3 DEF EditProfile, Change, ListingOK
<1>4. QED
  BY <1>1, <1>2, <1>3 DEF Next

\* A link leads to a page, and the page joins the walk.
LEMMA LinksTyped ==
  ASSUME SearchTypeOK, Open \/ FollowNext \/ FollowPrevious
  PROVE  /\ page' \in Pages /\ walk' \in Seq(Seq(Nat))
         /\ walk' = <<>> => page' = EmptyPage(FALSE)
<1>1. /\ ListingOK /\ profile \in Nat /\ Nil \in Anchors /\ walk \in Seq(Seq(Nat)) /\ page \in Pages
      /\ \A c \in CursorOf : c.key \in Anchors /\ c.scan \in Anchors
  BY DEF SearchTypeOK, Anchors, CursorOf
<1>2. FirstPage \in Pages /\ Ids(FirstPage) \in Seq(Nat)
  BY <1>1, PageTyped DEF FirstPage
<1>3. CASE Open
  <2>1. page' = FirstPage /\ walk' = <<Ids(FirstPage)>>
    BY <1>3 DEF Open, Ids
  <2> HIDE DEF FirstPage
  <2>2. <<Ids(FirstPage)>> \in Seq(Seq(Nat)) /\ <<Ids(FirstPage)>> # <<>>
    BY <1>2
  <2>3. QED
    BY <2>1, <2>2, <1>2
<1>4. CASE Refuse
  <2>1. page' = EmptyPage(FALSE) /\ walk' = <<>>
    BY <1>4 DEF Refuse
  <2>2. EmptyPage(FALSE) \in Pages
    BY EmptyTyped
  <2>3. <<>> \in Seq(Seq(Nat))
    OBVIOUS
  <2>4. QED
    BY <2>1, <2>2, <2>3
<1>5. CASE FollowNext /\ ~Refuse
  <2> DEFINE q == PageAt(page.next.key, page.next.scan)
  <2>1. page.next \in CursorOf
    BY <1>1, <1>5 DEF FollowNext, Pages
  <2>2. q \in Pages /\ Ids(q) \in Seq(Nat)
    BY <1>1, <2>1, PageTyped
  <2>3. page' = q /\ walk' = Append(walk, Ids(q))
    BY <1>5 DEF FollowNext, Ids
  <2> HIDE DEF q
  <2>4. Append(walk, Ids(q)) \in Seq(Seq(Nat)) /\ Append(walk, Ids(q)) # <<>>
    BY <1>1, <2>2, AppendTyped
  <2>5. QED
    BY <2>2, <2>3, <2>4
<1>6. CASE FollowPrevious /\ ~Refuse
  <2> DEFINE q == PageBefore(page)
             v == Take(Len(walk) - 2, walk)
  <2>1. q \in Pages /\ Ids(q) \in Seq(Nat)
    <3>1. CASE page.previous = Nil
      BY <3>1, <1>2 DEF PageBefore
    <3>2. CASE page.previous # Nil
      <4>1. page.previous \in CursorOf
        BY <1>1, <3>2 DEF Pages
      <4>2. q = PageAt(page.previous.key, page.previous.scan)
        BY <3>2 DEF PageBefore
      <4>3. QED
        BY <1>1, <4>1, <4>2, PageTyped
    <3>3. QED
      BY <3>1, <3>2
  <2>2. page' = q /\ walk' = Append(v, Ids(q))
    BY <1>6 DEF FollowPrevious, PageBefore, Ids
  <2>3. v \in Seq(Seq(Nat))
    <3>1. Len(walk) - 2 \in Int
      BY <1>1
    <3>2. QED
      BY <1>1, <3>1, TakeTyped
  <2> HIDE DEF q, v
  <2>4. Append(v, Ids(q)) \in Seq(Seq(Nat)) /\ Append(v, Ids(q)) # <<>>
    BY <2>1, <2>3, AppendTyped
  <2>5. QED
    BY <2>1, <2>2, <2>4
<1>7. QED
  BY <1>3, <1>4, <1>5, <1>6

\* Types survive each step.
LEMMA StateStays ==
  ASSUME StateOK, Next
  PROVE  StateOK'
<1>1. ListingOK' /\ SearchTypeOK
  BY ListingStays DEF StateOK, SearchTypeOK
<1>2. profile' \in Nat /\ began' \in Nat /\ began' <= profile'
  <2>1. profile \in Nat /\ began \in Nat /\ began <= profile
    BY DEF StateOK, SearchTypeOK
  <2>2. CASE Open \/ FollowNext \/ FollowPrevious
    BY <2>1, <2>2 DEF Open, FollowNext, FollowPrevious
  <2>3. CASE \E r \in Rows : CrawlChanges(r) \/ EditProfile(r)
    <3>1. (profile' = profile \/ profile' = profile + 1) /\ began' = began
      BY <2>3 DEF CrawlChanges, EditProfile, Change
    <3>2. QED
      BY <2>1, <3>1
  <2>4. QED
    BY <2>2, <2>3 DEF Next
<1>3. (EmptyPage(FALSE))' = EmptyPage(FALSE)
  BY DEF EmptyPage
<1>4. /\ page' \in Pages /\ walk' \in Seq(Seq(Nat))
      /\ walk' = <<>> => page' = EmptyPage(FALSE)
  <2>1. CASE Open \/ FollowNext \/ FollowPrevious
    BY <2>1, <1>1, LinksTyped
  <2>2. CASE \E r \in Rows : CrawlChanges(r) \/ EditProfile(r)
    BY <2>2 DEF CrawlChanges, EditProfile, Change, StateOK, SearchTypeOK
  <2>3. QED
    BY <2>1, <2>2 DEF Next
<1>5. back' \in BOOLEAN /\ touched' \in SUBSET Rows
  BY DEF StateOK, SearchTypeOK, Next, Open, FollowNext, FollowPrevious, Refuse, CrawlChanges,
         EditProfile, Change
<1>6. changes' \in 0..MaxChanges
  <2>1. changes \in 0..MaxChanges /\ MaxChanges \in Nat
    BY SearchAssumption DEF StateOK, SearchTypeOK
  <2>2. CASE Open \/ FollowNext \/ FollowPrevious
    BY <2>1, <2>2 DEF Open, FollowNext, FollowPrevious
  <2>3. CASE \E r \in Rows : CrawlChanges(r) \/ EditProfile(r)
    <3>1. changes < MaxChanges /\ changes' = changes + 1
      BY <2>3 DEF CrawlChanges, EditProfile, Change
    <3>2. QED
      BY <2>1, <3>1
  <2>4. QED
    BY <2>2, <2>3 DEF Next
<1>7. QED
  BY <1>1, <1>2, <1>3, <1>4, <1>5, <1>6 DEF StateOK, SearchTypeOK

\* The pages of an undisturbed walk survive each step.
LEMMA WalkStays ==
  ASSUME StateOK, WalkInv, Next
  PROVE  WalkInv'
<1>1. ListingOK /\ profile \in Nat /\ began \in Nat /\ began <= profile
  BY DEF StateOK, SearchTypeOK
<1>2. CASE Open
  <2>1. Stands(walk', page')
    <3>1. page' = FirstPage /\ walk' = <<Ids(FirstPage)>>
      BY <1>2 DEF Open, Ids
    <3>2. QED
      BY <3>1, <1>1, FirstStands
  <2>2. SameList
    BY <1>2 DEF Open, SameList
  <2>3. QED
    BY <2>1, <2>2, SamePages DEF WalkInv
<1>3. CASE FollowNext
  <2> SUFFICES ASSUME Undisturbed', walk' # <<>>
               PROVE  Stands(walk, page)'
    BY DEF WalkInv
  <2>1. page.next # Nil /\ ~Refuse /\ SameList /\ Undisturbed
    BY <1>3 DEF FollowNext, Refuse, SameList, Undisturbed
  <2> DEFINE q == PageAt(page.next.key, page.next.scan)
  <2>2. page' = q /\ walk' = Append(walk, Ids(q))
    BY <1>3, <2>1 DEF FollowNext, Ids
  <2>3. walk # <<>>
    BY <2>1 DEF StateOK, EmptyPage
  <2>4. Stands(walk, page)
    BY <2>1, <2>3 DEF WalkInv
  <2>5. Stands(Append(walk, Ids(q)), q)
    BY <2>1, <2>4, <1>1, NextStands
  <2>6. Stands(walk', page')
    BY <2>2, <2>5
  <2>7. QED
    BY <2>1, <2>6, SamePages
<1>4. CASE FollowPrevious
  <2> SUFFICES ASSUME Undisturbed', walk' # <<>>
               PROVE  Stands(walk, page)'
    BY DEF WalkInv
  <2>1. page.hasPrevious /\ ~Refuse /\ SameList /\ Undisturbed
    BY <1>4 DEF FollowPrevious, Refuse, SameList, Undisturbed
  <2>2. page' = PageBefore(page) /\ walk' = Append(Take(Len(walk) - 2, walk), Ids(PageBefore(page)))
    BY <1>4, <2>1 DEF FollowPrevious, PageBefore, Ids
  <2>3. walk # <<>>
    BY <2>1 DEF StateOK, EmptyPage
  <2>4. Stands(walk, page)
    BY <2>1, <2>3 DEF WalkInv
  <2>5. Stands(Append(Take(Len(walk) - 2, walk), Ids(PageBefore(page))), PageBefore(page))
    BY <2>1, <2>4, <1>1, BackStands
  <2>6. Stands(walk', page')
    BY <2>2, <2>5
  <2>7. QED
    BY <2>1, <2>6, SamePages
<1>5. ASSUME NEW r \in Rows, CrawlChanges(r) PROVE WalkInv'
  BY <1>5 DEF CrawlChanges, WalkInv, Undisturbed
<1>6. ASSUME NEW r \in Rows, EditProfile(r) PROVE WalkInv'
  <2>1. profile' = profile + 1 /\ began' = began
    BY <1>6 DEF EditProfile, Change
  <2>2. profile' # began'
    BY <2>1, <1>1
  <2>3. QED
    BY <2>2 DEF WalkInv, Undisturbed
<1>7. QED
  BY <1>2, <1>3, <1>4, <1>5, <1>6 DEF Next

\* Nothing happens when nothing changes.
LEMMA UnchangedState ==
  ASSUME StateOK, UNCHANGED vars
  PROVE  StateOK'
<1>1. /\ SameList /\ walk' = walk /\ page' = page /\ began' = began /\ touched' = touched
      /\ back' = back /\ changes' = changes
  BY DEF vars, SameList
<1>2. (ListingOK' <=> ListingOK) /\ profile' = profile
  BY <1>1, SameMatches
<1>3. (EmptyPage(FALSE))' = EmptyPage(FALSE)
  BY DEF EmptyPage
<1>4. QED
  BY <1>1, <1>2, <1>3 DEF StateOK, SearchTypeOK

LEMMA UnchangedWalk ==
  ASSUME WalkInv, UNCHANGED vars
  PROVE  WalkInv'
<1>1. SameList /\ walk' = walk /\ page' = page /\ began' = began /\ touched' = touched
  BY DEF vars, SameList
<1>2. profile' = profile
  BY <1>1, SameMatches
<1>3. Stands(walk, page) => Stands(walk', page')
  BY <1>1
<1>4. QED
  BY <1>1, <1>2, <1>3, SamePages DEF WalkInv, Undisturbed

\* The state has its types, and the pages of a walk that nothing has disturbed are the
\* successive pieces of the sorted list of all matches, the cursors of the present one
\* those of its two neighbours: for every list, filter, order and page size
\* (_search_rows, _search_grouped and the scans behind a Python filter).
THEOREM SearchInvHolds == Spec => [](StateOK /\ WalkInv)
<1>1. StateOK /\ WalkInv /\ [Next]_vars => (StateOK /\ WalkInv)'
  BY StateStays, WalkStays, UnchangedState, UnchangedWalk
<1>2. QED
  BY <1>1, SearchStarts, PTL DEF Spec

\* The pages of an undisturbed walk are the list of all matches, cut, and the walk goes
\* on exactly while something is left (the look-ahead of page_size + 1 in every search).
THEOREM WalkIsTheListHolds == Spec => []WalkIsTheList
<1>1. StateOK /\ WalkInv => WalkIsTheList
  <2> SUFFICES ASSUME StateOK, WalkInv PROVE WalkIsTheList
    OBVIOUS
  <2>1. CASE Undisturbed /\ walk # <<>>
    BY <2>1, StandsMakesTheList DEF WalkInv, StateOK, SearchTypeOK
  <2>2. CASE ~(Undisturbed /\ walk # <<>>)
    BY <2>2 DEF WalkIsTheList
  <2>3. QED
    BY <2>1, <2>2
<1>2. QED
  BY <1>1, SearchInvHolds, PTL

\* The link back shows the page before this one (_previous_row_cursor and its two
\* counterparts for scanned rows).
THEOREM PreviousLeadsBackHolds == Spec => PreviousLeadsBack
<1>1. StateOK /\ WalkInv /\ [Next]_vars =>
        [FollowPrevious /\ Undisturbed => Ids(page') = walk[Len(walk) - 1]]_vars
  <2> SUFFICES ASSUME StateOK, WalkInv, FollowPrevious, Undisturbed
               PROVE  Ids(page') = walk[Len(walk) - 1]
    OBVIOUS
  <2>1. page.hasPrevious
    BY DEF FollowPrevious
  <2>2. walk # <<>>
    BY <2>1 DEF StateOK, EmptyPage
  <2>3. Stands(walk, page)
    BY <2>2 DEF WalkInv
  <2>4. Ids(PageBefore(page)) = walk[Len(walk) - 1]
        /\ (page.previous # Nil => Valid(page.previous))
    BY <2>1, <2>3, BackStands DEF StateOK, SearchTypeOK, Valid
  <2>5. page' = PageBefore(page)
    BY <2>4 DEF FollowPrevious, PageBefore
  <2>6. QED
    BY <2>4, <2>5
<1>2. QED
  BY <1>1, SearchInvHolds, PTL DEF PreviousLeadsBack, Spec

-----------------------------------------------------------------------------
(* A reader of a list that changes.                                         *)

\* An id has one key.
LEMMA OneKeyEach ==
  ASSUME ListingOK, NEW j \in MatchingKeys, NEW k \in MatchingKeys, j[2] = k[2]
  PROVE  j = k
<1>1. Matching \in SUBSET DOMAIN listed /\ search.desc \in BOOLEAN
  BY MatchingKeysAre
<1>2. CASE search.grouped
  <2>1. j \in GroupKeys(Matching, search.desc, search.kind)
        /\ k \in GroupKeys(Matching, search.desc, search.kind)
    BY <1>2 DEF MatchingKeys
  <2> DEFINE K == GroupKeys(Matching, search.desc, search.kind)
  <2>2. \A x, y \in K : x[2] = y[2] => x = y
    BY <1>1, GroupKeysAre
  <2> HIDE DEF K
  <2>3. QED
    BY <2>1, <2>2 DEF K
<1>3. CASE ~search.grouped
  <2>1. j \in RowKeys(Matching) /\ k \in RowKeys(Matching)
    BY <1>3 DEF MatchingKeys
  <2>2. j = <<listed[j[2]], j[2]>> /\ k = <<listed[k[2]], k[2]>>
    BY <1>1, <2>1, RowKeysAre
  <2>3. QED
    BY <2>2
<1>4. QED
  BY <1>2, <1>3

\* A reader has passed a match when it is not after the cursor, or there is none.
Behind(p, k) == p.next = Nil \/ ~Ahead(search.desc, p.next.key, k)

Seen(s, id) == \E i \in DOMAIN s : s[i] = id

\* A row, or a complex, that these changes left alone.
Untouched(T, id) == ~ \E r \in T : id = (IF search.grouped THEN ComplexOf[r] ELSE r)

\* Of what the changes left alone the reader has seen exactly what is behind, once,
\* and the scans to come will come upon the rest.
Reads(s, p, T) ==
  /\ s \in Seq(Nat)
  /\ \A k \in MatchingKeys : Untouched(T, k[2]) =>
       /\ Seen(s, k[2]) <=> Behind(p, k)
       /\ ~Behind(p, k) => (search.runtime /\ search.grouped => Reached(p.next.scan, k))
  /\ \A i, j \in DOMAIN s : s[i] = s[j] /\ Untouched(T, s[i]) => i = j

\* What a page shows of what it is cut from.
PageReads(q, W) ==
  /\ Ids(q) \in Seq(Nat)
  /\ \A k \in W : Seen(Ids(q), k[2]) <=> Behind(q, k)
  /\ \A id : Seen(Ids(q), id) => \E k \in W : id = k[2]
  /\ \A i, j \in DOMAIN Ids(q) : Ids(q)[i] = Ids(q)[j] => i = j
  /\ \A k \in W : ~Behind(q, k) => (search.runtime /\ search.grouped => Reached(q.next.scan, k))
  /\ q.next # Nil => q.next.key \in W

\* A page shows exactly what is behind its cursor, once.
LEMMA CutIsRead ==
  ASSUME ListingOK, NEW W \in SUBSET MatchingKeys, NEW q, CutFrom(q, W)
  PROVE  PageReads(q, W)
<1> DEFINE d == search.desc
           s == InOrder(W, d)
           n == Cardinality(W)
           m == Least(PageSize, n)
<1>1. /\ W \in SUBSET Pairs /\ IsFiniteSet(W) /\ d \in BOOLEAN /\ PageSize \in Nat \ {0}
      /\ PageSize \in Nat
  BY MatchingKeysAre, FS_Subset, SearchAssumption
<1> HIDE DEF d
<1>2. /\ s \in Seq(Pairs) /\ Len(s) = n /\ n \in Nat
      /\ \A i \in 1..n : s[i] \in W
      /\ \A i, j \in 1..n : i < j => Ahead(d, s[i], s[j])
      /\ \A k \in W : \E i \in 1..n : s[i] = k
  <2>1. /\ s \in Seq(W) /\ Len(s) = n /\ n \in Nat
        /\ \A i \in 1..n : s[i] \in W
        /\ \A i, j \in 1..n : i < j => Ahead(d, s[i], s[j])
        /\ \A k \in W : \E i \in 1..n : s[i] = k
    BY <1>1, PlaceInOrder
  <2> HIDE DEF s, n
  <2>2. s \in Seq(Pairs)
    BY <2>1, <1>1
  <2>3. QED
    BY <2>1, <2>2
<1>3. /\ q.items = Take(PageSize, s)
      /\ q.next = Nil <=> n <= PageSize
      /\ q.next # Nil =>
           /\ q.next.key = s[PageSize]
           /\ \A w \in W : Ahead(d, q.next.key, w) =>
                (search.runtime /\ search.grouped => Reached(q.next.scan, w))
  BY DEF CutFrom, d
<1> HIDE DEF s, n
<1>4. /\ q.items \in Seq(Pairs) /\ Len(q.items) = m
      /\ \A i \in 1..m : q.items[i] = s[i]
  <2> HIDE DEF m
  <2>1. /\ Take(PageSize, s) \in Seq(Pairs) /\ Len(Take(PageSize, s)) = Least(PageSize, Len(s))
        /\ \A i \in 1..Least(PageSize, Len(s)) : Take(PageSize, s)[i] = s[i]
    BY <1>1, <1>2, TakeIs
  <2>2. QED
    BY <2>1, <1>2, <1>3 DEF m
<1>5. m \in Nat /\ m <= n /\ (m < n => m = PageSize) /\ m <= PageSize /\ (n <= PageSize => m = n)
      /\ (n > PageSize => m = PageSize)
  BY <1>1, <1>2 DEF Least
<1> HIDE DEF m
<1>6. /\ DOMAIN Ids(q) = 1..m /\ \A i \in 1..m : Ids(q)[i] = s[i][2] /\ s[i] \in W /\ i \in 1..n
      /\ Ids(q) \in Seq(Nat)
  <2>1. DOMAIN q.items = 1..m
    BY <1>4, <1>5
  <2>2. \A i \in 1..m : i \in 1..n
    BY <1>2, <1>5
  <2>3. \A i \in 1..m : s[i] \in Pairs /\ s[i][2] \in Nat
    BY <2>2, <1>1, <1>2 DEF Pairs
  <2>4. Ids(q) = [i \in 1..m |-> s[i][2]]
    BY <2>1, <1>4 DEF Ids
  <2>5. QED
    BY <2>2, <2>3, <2>4, <1>2, <1>5
<1>7. ASSUME NEW i \in 1..n, NEW k \in W, s[i] = k
      PROVE  /\ Seen(Ids(q), k[2]) <=> i \in 1..m
             /\ Behind(q, k) <=> i \in 1..m
  <2>1. i \in 1..m => Seen(Ids(q), k[2])
    BY <1>6, <1>7 DEF Seen
  <2>2. Seen(Ids(q), k[2]) => i \in 1..m
    <3> SUFFICES ASSUME NEW j \in 1..m, Ids(q)[j] = k[2] PROVE i \in 1..m
      BY <1>6 DEF Seen
    <3>1. s[j] \in W /\ s[j][2] = k[2] /\ j \in 1..n
      BY <1>6
    <3>2. s[j] = k
      BY <3>1, OneKeyEach
    <3>3. i = j
      <4>1. s[i] = s[j] /\ s[i] \in Pairs
        BY <3>2, <1>1, <1>7
      <4>2. ~Ahead(d, s[i], s[j]) /\ ~Ahead(d, s[j], s[i])
        BY <4>1, <1>1, AheadOrders
      <4>3. ~(i < j) /\ ~(j < i)
        BY <4>2, <3>1, <1>2
      <4>4. QED
        BY <4>3, <3>1, <1>2
    <3>4. QED
      BY <3>3
  <2>3. CASE q.next = Nil
    <3>1. Behind(q, k) /\ i \in 1..m
      BY <2>3, <1>2, <1>3, <1>5 DEF Behind
    <3>2. QED
      BY <2>1, <2>2, <3>1
  <2>4. CASE q.next # Nil
    <3>1. m = PageSize /\ PageSize \in 1..n /\ q.next.key = s[PageSize]
      BY <2>4, <1>1, <1>2, <1>3, <1>5
    <3>2. s[PageSize] \in Pairs /\ k \in Pairs
      BY <3>1, <1>1, <1>2
    <3>3. Ahead(d, s[PageSize], k) <=> PageSize < i
      <4>1. PageSize < i => Ahead(d, s[PageSize], k)
        BY <3>1, <1>2, <1>7
      <4>2. i < PageSize => Ahead(d, k, s[PageSize])
        BY <3>1, <1>2, <1>7
      <4>3. i = PageSize => ~Ahead(d, s[PageSize], k)
        BY <3>2, <1>1, <1>7, AheadOrders
      <4>4. i < PageSize => ~Ahead(d, s[PageSize], k)
        BY <4>2, <3>2, <1>1, AheadOrders
      <4>5. i = PageSize \/ i < PageSize \/ PageSize < i
        BY <1>1, <1>2
      <4>6. ~(PageSize < i /\ i < PageSize) /\ ~(PageSize < i /\ i = PageSize)
        BY <1>1, <1>2
      <4>7. QED
        BY <4>1, <4>3, <4>4, <4>5, <4>6
    <3>4. Behind(q, k) <=> ~(PageSize < i)
      BY <2>4, <3>1, <3>3 DEF Behind, d
    <3>5. ~(PageSize < i) <=> i \in 1..m
      BY <3>1, <1>1, <1>2
    <3>6. QED
      BY <2>1, <2>2, <3>4, <3>5
  <2>5. QED
    BY <2>3, <2>4
<1>8. \A k \in W : Seen(Ids(q), k[2]) <=> Behind(q, k)
  <2> SUFFICES ASSUME NEW k \in W PROVE Seen(Ids(q), k[2]) <=> Behind(q, k)
    OBVIOUS
  <2>1. PICK i \in 1..n : s[i] = k
    BY <1>2
  <2>2. QED
    BY <2>1, <1>7
<1>9. \A id : Seen(Ids(q), id) => \E k \in W : id = k[2]
  BY <1>6 DEF Seen
<1>10. \A i, j \in DOMAIN Ids(q) : Ids(q)[i] = Ids(q)[j] => i = j
  <2> SUFFICES ASSUME NEW i \in 1..m, NEW j \in 1..m, s[i][2] = s[j][2] PROVE i = j
    BY <1>6
  <2>1. s[i] \in W /\ s[j] \in W /\ i \in 1..n /\ j \in 1..n
    BY <1>6
  <2>2. s[i] = s[j] /\ s[i] \in Pairs
    BY <2>1, <1>1, OneKeyEach
  <2>3. ~Ahead(d, s[i], s[j]) /\ ~Ahead(d, s[j], s[i])
    BY <2>2, <1>1, AheadOrders
  <2>4. ~(i < j) /\ ~(j < i)
    BY <2>1, <2>3, <1>2
  <2>5. QED
    BY <2>1, <2>4, <1>2
<1>11. \A k \in W : ~Behind(q, k) => (search.runtime /\ search.grouped => Reached(q.next.scan, k))
  BY <1>3 DEF Behind, d
<1>12. q.next # Nil => q.next.key \in W
  BY <1>1, <1>2, <1>3
<1>13. QED
  BY <1>6, <1>8, <1>9, <1>10, <1>11, <1>12 DEF PageReads

\* The first page.
LEMMA FirstIsRead ==
  ASSUME ListingOK, profile \in Nat
  PROVE  Reads(Ids(FirstPage), FirstPage, {})
<1>1. Nil \in Anchors
  BY DEF Anchors
<1>2. CutFrom(FirstPage, Offered(Nil, Nil))
  BY <1>1, PageAtIsCut DEF FirstPage
<1>3. Offered(Nil, Nil) = MatchingKeys
  <2>1. ASSUME search.runtime, search.grouped, NEW w \in MatchingKeys PROVE Reached(Nil, w)
    <3>1. w \in GroupKeys(Matching, search.desc, search.kind)
      BY <2>1 DEF MatchingKeys
    <3>2. PICK r \in RawKeys : r[2] = w[2]
      BY <3>1, RawComesFirst
    <3>3. QED
      BY <3>2 DEF Reached, After
  <2>2. QED
    BY <2>1 DEF Offered, After
<1>4. PageReads(FirstPage, MatchingKeys)
  BY <1>2, <1>3, CutIsRead
<1>5. QED
  BY <1>4 DEF PageReads, Reads

\* The next page.
LEMMA ReadOn ==
  ASSUME ListingOK, profile \in Nat, NEW s, NEW p, NEW T, Reads(s, p, T), p.next \in CursorOf,
         p.next # Nil
  PROVE  Reads(s \o Ids(PageAt(p.next.key, p.next.scan)), PageAt(p.next.key, p.next.scan), T)
<1> DEFINE d == search.desc
           a == p.next.key
           W == Offered(a, p.next.scan)
           q == PageAt(a, p.next.scan)
           t == Ids(q)
           u == s \o t
           rg == search.runtime /\ search.grouped
<1>1. a \in Pairs /\ a \in Anchors /\ a # Nil /\ p.next.scan \in Anchors /\ d \in BOOLEAN
  BY SearchAssumption, MatchingKeysAre DEF CursorOf, Anchors, Pairs
<1>2. W = {w \in MatchingKeys : Ahead(d, a, w) /\ (rg => Reached(p.next.scan, w))}
      /\ MatchingKeys \in SUBSET Pairs
  BY <1>1, MatchingKeysAre DEF Offered, After
<1>3. PageReads(q, W)
  <2>1. CutFrom(q, W)
    BY <1>1, PageAtIsCut
  <2> HIDE DEF W, q
  <2>2. QED
    BY <2>1, <1>2, CutIsRead
<1>4. /\ s \in Seq(Nat)
      /\ \A k \in MatchingKeys : Untouched(T, k[2]) =>
           /\ Seen(s, k[2]) <=> ~Ahead(d, a, k)
           /\ Ahead(d, a, k) => (rg => Reached(p.next.scan, k))
      /\ \A i, j \in DOMAIN s : s[i] = s[j] /\ Untouched(T, s[i]) => i = j
  BY DEF Reads, Behind
<1> HIDE DEF W, q, a, rg, d
<1>5. /\ t \in Seq(Nat)
      /\ \A k \in W : Seen(t, k[2]) <=> Behind(q, k)
      /\ \A id : Seen(t, id) => \E k \in W : id = k[2]
      /\ \A i, j \in DOMAIN t : t[i] = t[j] => i = j
      /\ \A k \in W : ~Behind(q, k) => (rg => Reached(q.next.scan, k))
      /\ q.next # Nil => q.next.key \in W
  BY <1>3 DEF PageReads, rg
<1> HIDE DEF t
<1>6. /\ u \in Seq(Nat) /\ Len(u) = Len(s) + Len(t) /\ Len(s) \in Nat /\ Len(t) \in Nat
      /\ DOMAIN s = 1..Len(s) /\ DOMAIN t = 1..Len(t) /\ DOMAIN u = 1..Len(s) + Len(t)
      /\ \A i \in 1..Len(s) : u[i] = s[i]
      /\ \A i \in 1..Len(t) : u[Len(s) + i] = t[i]
  BY <1>4, <1>5
<1> HIDE DEF u
<1>7. \A i \in DOMAIN u : \/ i \in 1..Len(s) /\ u[i] = s[i]
                          \/ i - Len(s) \in 1..Len(t) /\ u[i] = t[i - Len(s)]
  <2> SUFFICES ASSUME NEW i \in 1..Len(s) + Len(t), i \notin 1..Len(s)
               PROVE  i - Len(s) \in 1..Len(t) /\ u[i] = t[i - Len(s)]
    BY <1>6
  <2>1. i - Len(s) \in 1..Len(t) /\ Len(s) + (i - Len(s)) = i
    BY <1>6
  <2>2. QED
    BY <2>1, <1>6
<1>8. \A id : Seen(u, id) <=> Seen(s, id) \/ Seen(t, id)
  <2> SUFFICES ASSUME NEW id PROVE Seen(u, id) <=> Seen(s, id) \/ Seen(t, id)
    OBVIOUS
  <2>1. Seen(u, id) => Seen(s, id) \/ Seen(t, id)
    BY <1>6, <1>7 DEF Seen
  <2>2. Seen(s, id) => Seen(u, id)
    <3> SUFFICES ASSUME NEW i \in 1..Len(s), s[i] = id PROVE Seen(u, id)
      BY <1>6 DEF Seen
    <3>1. i \in DOMAIN u /\ u[i] = id
      BY <1>6
    <3>2. QED
      BY <3>1 DEF Seen
  <2>3. Seen(t, id) => Seen(u, id)
    <3> SUFFICES ASSUME NEW i \in 1..Len(t), t[i] = id PROVE Seen(u, id)
      BY <1>6 DEF Seen
    <3>1. Len(s) + i \in DOMAIN u /\ u[Len(s) + i] = id
      BY <1>6
    <3>2. QED
      BY <3>1 DEF Seen
  <2>4. QED
    BY <2>1, <2>2, <2>3
<1>9. ASSUME NEW k \in MatchingKeys, Untouched(T, k[2])
      PROVE  /\ Seen(u, k[2]) <=> Behind(q, k)
             /\ ~Behind(q, k) => (rg => Reached(q.next.scan, k))
  <2>1. k \in Pairs
    BY <1>2
  <2>2. CASE Ahead(d, a, k)
    <3>1. k \in W /\ ~Seen(s, k[2])
      BY <2>2, <1>2, <1>4, <1>9
    <3>2. QED
      BY <3>1, <1>5, <1>8
  <2>3. CASE ~Ahead(d, a, k)
    <3>1. Seen(s, k[2])
      BY <2>3, <1>4, <1>9
    <3>2. Behind(q, k)
      <4> SUFFICES ASSUME q.next # Nil, Ahead(d, q.next.key, k) PROVE FALSE
        BY DEF Behind, d
      <4>1. q.next.key \in Pairs /\ Ahead(d, a, q.next.key)
        BY <1>2, <1>5
      <4>2. Ahead(d, a, k)
        BY <4>1, <2>1, <1>1, AheadOrders
      <4>3. QED
        BY <4>2, <2>3
    <3>3. QED
      BY <3>1, <3>2, <1>8
  <2>4. QED
    BY <2>2, <2>3
<1>10. ASSUME NEW i \in DOMAIN u, NEW j \in DOMAIN u, u[i] = u[j], Untouched(T, u[i])
       PROVE  i = j
  <2>1. ASSUME NEW x \in 1..Len(s), NEW y \in 1..Len(t), s[x] = u[i], t[y] = u[i] PROVE FALSE
    <3>1. Seen(s, u[i]) /\ Seen(t, u[i])
      BY <2>1, <1>6 DEF Seen
    <3>2. PICK k \in W : u[i] = k[2]
      BY <3>1, <1>5
    <3>3. k \in MatchingKeys /\ Ahead(d, a, k)
      BY <3>2, <1>2
    <3>4. ~Seen(s, k[2])
      BY <3>2, <3>3, <1>4, <1>10
    <3>5. QED
      BY <3>1, <3>2, <3>4
  <2>2. CASE i \in 1..Len(s) /\ u[i] = s[i]
    <3>1. j \in 1..Len(s) /\ u[j] = s[j]
      BY <2>1, <2>2, <1>7, <1>10
    <3>2. s[i] = s[j] /\ Untouched(T, s[i])
      BY <3>1, <2>2, <1>10
    <3>3. QED
      BY <3>1, <3>2, <2>2, <1>4, <1>6
  <2>3. CASE i - Len(s) \in 1..Len(t) /\ u[i] = t[i - Len(s)]
    <3>1. j - Len(s) \in 1..Len(t) /\ u[j] = t[j - Len(s)]
      BY <2>1, <2>3, <1>7, <1>10
    <3>2. i - Len(s) = j - Len(s)
      BY <3>1, <2>3, <1>5, <1>6, <1>10
    <3>3. QED
      BY <3>2, <1>6
  <2>4. QED
    BY <2>2, <2>3, <1>7
<1>11. Reads(u, q, T)
  BY <1>6, <1>9, <1>10 DEF Reads, rg
<1>12. QED
  BY <1>11 DEF u, t, q, a

-----------------------------------------------------------------------------
(* The second invariant: what the reader has seen of what was left alone.   *)

CursorInv == page.next # Nil => page.next.fp = IF search.runtime THEN began ELSE Nil

\* What holds of a walk that goes on only forward, whatever the crawl does.
ReaderInv ==
  (~back /\ walk # <<>>) =>
    /\ CursorInv
    /\ (search.runtime => profile = began) => Reads(Shown, page, touched)

\* A cursor carries the fingerprint of its question.
LEMMA CursorOfPage ==
  ASSUME ListingOK, profile \in Nat, NEW anchor \in Anchors, NEW start \in Anchors,
         PageAt(anchor, start).next # Nil
  PROVE  PageAt(anchor, start).next.fp = Fingerprint
<1> DEFINE p == PageAt(anchor, start)
<1>1. CutFrom(p, Offered(anchor, start))
  BY PageAtIsCut
<1> HIDE DEF p
<1>2. p.next # Nil
  BY DEF p
<1>3. p.next = [key |-> p.next.key, scan |-> p.next.scan, fp |-> Fingerprint]
  BY <1>1, <1>2 DEF CutFrom
<1>4. p.next.fp = Fingerprint
  BY <1>3
<1>5. QED
  BY <1>4 DEF p

\* What the reader has seen does not depend on when it is looked at.
LEMMA SameReads ==
  ASSUME SameList, Reads(Shown', page', touched')
  PROVE  Reads(Shown, page, touched)'
<1>1. search' = search /\ MatchingKeys' = MatchingKeys /\ RawKeys' = RawKeys
  BY SameMatches
<1>2. QED
  BY <1>1 DEF Reads, Behind, Untouched, Reached, Seen

\* One more page of a walk that goes forward.
LEMMA ReadsNext ==
  ASSUME StateOK, ReaderInv, FollowNext, ~back, walk' # <<>>
  PROVE  /\ Reads(Shown', page', touched)
         /\ page'.next # Nil => page'.next.fp = Fingerprint
         /\ search.runtime => profile = began
         /\ SameList /\ touched' = touched /\ began' = began
<1> DEFINE q == PageAt(page.next.key, page.next.scan)
<1>1. /\ page.next # Nil /\ ~Refuse /\ SameList /\ touched' = touched /\ began' = began
      /\ Valid(page.next)
  BY DEF FollowNext, Refuse, SameList
<1>2. page' = q /\ walk' = Append(walk, Ids(q))
  BY <1>1 DEF FollowNext, Ids
<1>3. /\ ListingOK /\ profile \in Nat /\ walk \in Seq(Seq(Nat)) /\ page.next \in CursorOf
      /\ walk # <<>>
  BY <1>1 DEF StateOK, SearchTypeOK, Pages, EmptyPage
<1>4. search.runtime => profile = began
  BY <1>1, <1>3 DEF ReaderInv, CursorInv, Valid, Fingerprint
<1>5. Reads(Shown, page, touched)
  BY <1>3, <1>4 DEF ReaderInv
<1>6. Reads(Shown \o Ids(q), q, touched)
  BY <1>1, <1>3, <1>5, ReadOn
<1>7. page.next.key \in Anchors /\ page.next.scan \in Anchors
  BY <1>3 DEF CursorOf, Anchors
<1>8. Ids(q) \in Seq(Nat)
  BY <1>3, <1>7, PageTyped
<1>9. q.next # Nil => q.next.fp = Fingerprint
  BY <1>3, <1>7, CursorOfPage
<1> HIDE DEF q
<1>10. Shown' = Shown \o Ids(q)
  BY <1>2, <1>3, <1>8, FlattenAppend DEF Shown
<1>11. QED
  BY <1>1, <1>2, <1>4, <1>6, <1>9, <1>10

\* What the crawl leaves alone keeps its key, in the list and in the scan of groups.
LEMMA CrawlKeeps ==
  ASSUME StateOK, NEW r \in Rows, CrawlChanges(r), NEW k,
         Untouched(touched \cup {r}, k[2])
  PROVE  /\ Untouched(touched, k[2])
         /\ k \in MatchingKeys' => k \in MatchingKeys
         /\ search.grouped /\ k \in RawKeys => k \in RawKeys'
<1> DEFINE c == k[2]
<1>1. /\ search' = search
      /\ DOMAIN listed \ {r} = DOMAIN listed' \ {r}
      /\ \A q \in DOMAIN listed \ {r} : listed'[q] = listed[q]
      /\ \A q \in DOMAIN listed \ {r} : q \in accepted' <=> q \in accepted
  <2>1. search' = search
    BY DEF CrawlChanges, Change
  <2>2. PICK kept \in BOOLEAN, v \in Values :
          listed' = IF kept THEN [q \in DOMAIN listed \cup {r} |-> IF q = r THEN v ELSE listed[q]]
                    ELSE Restrict(listed, DOMAIN listed \ {r})
    BY DEF CrawlChanges
  <2>3. /\ DOMAIN listed \ {r} = DOMAIN listed' \ {r}
        /\ \A q \in DOMAIN listed \ {r} : listed'[q] = listed[q]
    <3>1. CASE kept
      <4>1. listed' = [q \in DOMAIN listed \cup {r} |-> IF q = r THEN v ELSE listed[q]]
        BY <2>2, <3>1
      <4>2. QED
        BY <4>1
    <3>2. CASE ~kept
      <4>1. listed' = [q \in DOMAIN listed \ {r} |-> listed[q]]
        BY <2>2, <3>2 DEF Restrict
      <4>2. QED
        BY <4>1
    <3>3. QED
      BY <3>1, <3>2
  <2>4. accepted' = accepted \ {r} \/ accepted' = accepted \cup {r}
    BY DEF CrawlChanges
  <2>5. QED
    BY <2>1, <2>3, <2>4
<1>2. Untouched(touched, c) /\ c # (IF search.grouped THEN ComplexOf[r] ELSE r)
  BY DEF Untouched
<1>3. CASE ~search.grouped
  <2>1. c # r
    BY <1>2, <1>3
  <2>2. ASSUME k \in MatchingKeys' PROVE k \in MatchingKeys
    <3>1. PICK x \in Matching' : k = <<listed'[x], x>>
      BY <2>2, <1>1, <1>3 DEF MatchingKeys, RowKeys
    <3>2. x # r /\ x \in DOMAIN listed'
      BY <2>1, <3>1 DEF Matching
    <3>3. x \in DOMAIN listed /\ listed'[x] = listed[x]
      BY <3>2, <1>1
    <3>4. x \in Matching
      BY <3>1, <3>2, <3>3, <1>1 DEF Matching
    <3>5. QED
      BY <3>1, <3>3, <3>4, <1>3 DEF MatchingKeys, RowKeys
  <2>3. QED
    BY <2>2, <1>2, <1>3
<1>4. CASE search.grouped
  <2>1. \A x \in Rows : ComplexOf[x] = c => x # r
    BY <1>2, <1>4
  <2>2. DOMAIN listed \in SUBSET Rows /\ DOMAIN listed' \in SUBSET Rows
    <3>1. ListingOK
      BY DEF StateOK, SearchTypeOK
    <3>2. ListingOK'
      BY <3>1, ListingStays DEF Next
    <3>3. QED
      BY <3>1, <3>2 DEF ListingOK
  <2>3. {q \in DOMAIN listed' : ComplexOf[q] = c} = {q \in DOMAIN listed : ComplexOf[q] = c}
    BY <2>1, <2>2, <1>1
  <2>4. {q \in Matching' : ComplexOf[q] = c} = {q \in Matching : ComplexOf[q] = c}
    BY <2>1, <2>2, <1>1 DEF Matching
  <2>5. {listed'[q] : q \in {x \in DOMAIN listed' : ComplexOf[x] = c}}
          = {listed[q] : q \in {x \in DOMAIN listed : ComplexOf[x] = c}}
    BY <2>1, <2>2, <2>3, <1>1
  <2>6. {listed'[q] : q \in {x \in Matching' : ComplexOf[x] = c}}
          = {listed[q] : q \in {x \in Matching : ComplexOf[x] = c}}
    <3>1. \A x \in Matching : x \in DOMAIN listed
      BY DEF Matching
    <3>2. \A x \in {y \in Matching : ComplexOf[y] = c} : listed'[x] = listed[x]
      BY <3>1, <2>1, <2>2, <1>1
    <3>3. QED
      BY <3>2, <2>4
  <2>7. ASSUME k \in MatchingKeys' PROVE k \in MatchingKeys
    <3> DEFINE new == {listed'[q] : q \in {x \in Matching' : ComplexOf[x] = c}}
               old == {listed[q] : q \in {x \in Matching : ComplexOf[x] = c}}
    <3>1. k \in GroupKeys(Matching, search.desc, search.kind)'
      BY <2>7, <1>1, <1>4 DEF MatchingKeys
    <3>2. PICK e \in {ComplexOf[x] : x \in Matching'} :
            k = <<IF search.desc \/ search.kind = "highest"
                  THEN Max({listed'[q] : q \in {x \in Matching' : ComplexOf[x] = e}})
                  ELSE Min({listed'[q] : q \in {x \in Matching' : ComplexOf[x] = e}}), e>>
      BY <3>1, <1>1 DEF GroupKeys
    <3>3. e = c
      BY <3>2
    <3>4. k = <<IF search.desc \/ search.kind = "highest" THEN Max(new) ELSE Min(new), c>>
      BY <3>2, <3>3
    <3>5. k = <<IF search.desc \/ search.kind = "highest" THEN Max(old) ELSE Min(old), c>>
      BY <3>4, <2>6
    <3>6. c \in {ComplexOf[x] : x \in Matching}
      <4>1. PICK x \in Matching' : ComplexOf[x] = c
        BY <3>2, <3>3
      <4>2. x \in {q \in Matching : ComplexOf[q] = c}
        BY <4>1, <2>4
      <4>3. QED
        BY <4>2
    <3>7. k \in GroupKeys(Matching, search.desc, search.kind)
      BY <3>5, <3>6 DEF GroupKeys
    <3>8. QED
      BY <3>7, <1>4 DEF MatchingKeys
  <2>8. ASSUME k \in RawKeys PROVE k \in RawKeys'
    <3> DEFINE new == {listed'[q] : q \in {x \in DOMAIN listed' : ComplexOf[x] = c}}
               old == {listed[q] : q \in {x \in DOMAIN listed : ComplexOf[x] = c}}
    <3>1. PICK e \in {ComplexOf[x] : x \in DOMAIN listed} :
            k = <<IF search.desc \/ "spread" = "highest"
                  THEN Max({listed[q] : q \in {x \in DOMAIN listed : ComplexOf[x] = e}})
                  ELSE Min({listed[q] : q \in {x \in DOMAIN listed : ComplexOf[x] = e}}), e>>
      BY <2>8 DEF RawKeys, GroupKeys
    <3>2. e = c
      BY <3>1
    <3>3. k = <<IF search.desc \/ "spread" = "highest" THEN Max(old) ELSE Min(old), c>>
      BY <3>1, <3>2
    <3>4. k = <<IF search.desc \/ "spread" = "highest" THEN Max(new) ELSE Min(new), c>>
      BY <3>3, <2>5
    <3>5. c \in {ComplexOf[x] : x \in DOMAIN listed'}
      <4>1. PICK x \in DOMAIN listed : ComplexOf[x] = c
        BY <3>1, <3>2
      <4>2. x \in {q \in DOMAIN listed' : ComplexOf[q] = c}
        BY <4>1, <2>3
      <4>3. QED
        BY <4>2
    <3>6. k \in GroupKeys(DOMAIN listed, search.desc, "spread")'
      BY <3>4, <3>5, <1>1 DEF GroupKeys
    <3>7. QED
      BY <3>6, <1>1 DEF RawKeys
  <2>9. QED
    BY <2>7, <2>8, <1>2
<1>5. QED
  BY <1>3, <1>4

\* A change of the crawl leaves the reader what was left alone.
LEMMA CrawlReads ==
  ASSUME StateOK, NEW r \in Rows, CrawlChanges(r), Reads(Shown, page, touched)
  PROVE  Reads(Shown, page, touched)'
<1> DEFINE rg == search.runtime /\ search.grouped
           T == touched \cup {r}
<1>1. search' = search /\ Shown' = Shown /\ page' = page /\ touched' = T
  BY DEF CrawlChanges, Change, Shown
<1>2. /\ Shown \in Seq(Nat)
      /\ \A k \in MatchingKeys : Untouched(touched, k[2]) =>
           /\ Seen(Shown, k[2]) <=> Behind(page, k)
           /\ ~Behind(page, k) => (rg => Reached(page.next.scan, k))
      /\ \A i, j \in DOMAIN Shown :
           Shown[i] = Shown[j] /\ Untouched(touched, Shown[i]) => i = j
  BY DEF Reads
<1>3. ASSUME NEW k \in MatchingKeys', Untouched(T, k[2])
      PROVE  /\ Seen(Shown, k[2]) <=> Behind(page, k)
             /\ ~Behind(page, k) => (rg => \E x \in After(RawKeys', page.next.scan, search.desc) :
                                             x[2] = k[2])
  <2>1. k \in MatchingKeys /\ Untouched(touched, k[2])
    BY <1>3, CrawlKeeps
  <2>2. (Seen(Shown, k[2]) <=> Behind(page, k))
        /\ (~Behind(page, k) => (rg => Reached(page.next.scan, k)))
    BY <2>1, <1>2
  <2>3. ASSUME rg, Reached(page.next.scan, k)
        PROVE  \E x \in After(RawKeys', page.next.scan, search.desc) : x[2] = k[2]
    <3>1. PICK x \in After(RawKeys, page.next.scan, search.desc) : x[2] = k[2]
      BY <2>3 DEF Reached
    <3>2. x \in RawKeys /\ Untouched(T, x[2])
      BY <3>1, <1>3 DEF After
    <3>3. x \in RawKeys'
      BY <3>2, <2>3, CrawlKeeps
    <3>4. x \in After(RawKeys', page.next.scan, search.desc)
      BY <3>1, <3>3 DEF After
    <3>5. QED
      BY <3>1, <3>4
  <2>4. QED
    BY <2>2, <2>3
<1>4. ASSUME NEW i \in DOMAIN Shown, NEW j \in DOMAIN Shown, Shown[i] = Shown[j],
             Untouched(T, Shown[i])
      PROVE  i = j
  <2>1. Untouched(touched, Shown[i])
    BY <1>4 DEF Untouched
  <2>2. QED
    BY <2>1, <1>2, <1>4
<1> HIDE DEF T
<1>5. QED
  BY <1>1, <1>2, <1>3, <1>4 DEF Reads, Behind, Untouched, Seen, Reached

\* What the reader has seen survives each step.
LEMMA ReaderStays ==
  ASSUME StateOK, ReaderInv, Next
  PROVE  ReaderInv'
<1>1. ListingOK /\ profile \in Nat /\ began \in Nat /\ began <= profile
  BY DEF StateOK, SearchTypeOK
<1>2. CASE Open
  <2>1. SameList /\ touched' = {} /\ began' = profile /\ search' = search /\ profile' = profile
    BY <1>2 DEF Open, SameList
  <2>2. page' = FirstPage /\ walk' = <<Ids(FirstPage)>>
    BY <1>2 DEF Open, Ids
  <2>3. Reads(Ids(FirstPage), FirstPage, {})
    BY <1>1, FirstIsRead
  <2>4. Shown' = Ids(FirstPage)
    <3>1. Ids(FirstPage) \in Seq(Nat)
      BY <2>3 DEF Reads
    <3>2. <<>> \in Seq(Seq(Nat))
      OBVIOUS
    <3>3. FlattenSeq(<<Ids(FirstPage)>>) = Ids(FirstPage)
      BY <3>1, <3>2, FlattenAppend
    <3>4. QED
      BY <2>2, <3>3 DEF Shown
  <2>5. FirstPage.next # Nil => FirstPage.next.fp = Fingerprint
    <3>1. Nil \in Anchors
      BY DEF Anchors
    <3>2. QED
      BY <1>1, <3>1, CursorOfPage DEF FirstPage
  <2> HIDE DEF FirstPage
  <2>6. Reads(Shown, page, touched)'
    BY <2>1, <2>2, <2>3, <2>4, SameReads
  <2>7. CursorInv'
    BY <2>1, <2>2, <2>5 DEF CursorInv, Fingerprint
  <2>8. QED
    BY <2>6, <2>7 DEF ReaderInv
<1>3. CASE FollowNext
  <2> SUFFICES ASSUME ~back', walk' # <<>>
               PROVE  CursorInv' /\ Reads(Shown, page, touched)'
    BY DEF ReaderInv
  <2>1. ~back
    BY <1>3 DEF FollowNext, Refuse
  <2>2. /\ Reads(Shown', page', touched)
        /\ page'.next # Nil => page'.next.fp = Fingerprint
        /\ search.runtime => profile = began
        /\ SameList /\ touched' = touched /\ began' = began
    BY <1>3, <2>1, ReadsNext
  <2>3. search' = search
    BY <2>2 DEF SameList
  <2>4. CursorInv'
    BY <2>2, <2>3 DEF CursorInv, Fingerprint
  <2>5. Reads(Shown, page, touched)'
    BY <2>2, SameReads
  <2>6. QED
    BY <2>4, <2>5
<1>4. CASE FollowPrevious
  <2>1. back' = TRUE \/ walk' = <<>>
    BY <1>4 DEF FollowPrevious, Refuse
  <2>2. QED
    BY <2>1 DEF ReaderInv
<1>5. ASSUME NEW r \in Rows, CrawlChanges(r) PROVE ReaderInv'
  <2> SUFFICES ASSUME ~back', walk' # <<>>
               PROVE  CursorInv' /\ ((search.runtime => profile = began)' => Reads(Shown, page, touched)')
    BY DEF ReaderInv
  <2>1. /\ search' = search /\ page' = page /\ began' = began /\ walk' = walk /\ back' = back
        /\ profile' = profile
    BY <1>5 DEF CrawlChanges, Change
  <2>2. CursorInv /\ ((search.runtime => profile = began) => Reads(Shown, page, touched))
    BY <2>1 DEF ReaderInv
  <2>3. CursorInv'
    BY <2>1, <2>2 DEF CursorInv
  <2>4. Reads(Shown, page, touched) => Reads(Shown, page, touched)'
    BY <1>5, CrawlReads
  <2>5. QED
    BY <2>1, <2>2, <2>3, <2>4
<1>6. ASSUME NEW r \in Rows, EditProfile(r) PROVE ReaderInv'
  <2>1. /\ search' = search /\ page' = page /\ began' = began /\ walk' = walk /\ back' = back
        /\ profile' = profile + 1 /\ search.runtime
    BY <1>6 DEF EditProfile, Change
  <2>2. profile' # began'
    BY <2>1, <1>1
  <2>3. (~back /\ walk # <<>>) => CursorInv'
    BY <2>1 DEF ReaderInv, CursorInv
  <2>4. QED
    BY <2>1, <2>2, <2>3 DEF ReaderInv
<1>7. QED
  BY <1>2, <1>3, <1>4, <1>5, <1>6 DEF Next

LEMMA UnchangedReader ==
  ASSUME ReaderInv, UNCHANGED vars
  PROVE  ReaderInv'
<1>1. /\ SameList /\ walk' = walk /\ page' = page /\ began' = began /\ touched' = touched
      /\ back' = back /\ search' = search /\ profile' = profile /\ Shown' = Shown
  BY DEF vars, SameList, Shown
<1>2. Reads(Shown, page, touched) => Reads(Shown', page', touched')
  BY <1>1
<1>3. Reads(Shown, page, touched) => Reads(Shown, page, touched)'
  BY <1>1, <1>2, SameReads
<1>4. CursorInv => CursorInv'
  BY <1>1 DEF CursorInv
<1>5. QED
  BY <1>1, <1>3, <1>4 DEF ReaderInv

LEMMA ReaderStarts ==
  Init => ReaderInv
  BY DEF Init, ReaderInv

\* What StableShownOnce says of a step.
ShownOnce ==
  \A id \in UNION {{r, ComplexOf[r]} : r \in Rows} :
    Stable(id) =>
      LET times == Cardinality({i \in DOMAIN Shown' : Shown'[i] = id})
          matches == id \in {k[2] : k \in MatchingKeys}
      IN  /\ times <= 1
          /\ page'.next = Nil /\ matches => times = 1

\* A reader who goes on sees what was left alone once, and at the end all of it.
LEMMA ReadsOnce ==
  ASSUME StateOK, ReaderInv, FollowNext, ~back, walk' # <<>>
  PROVE  ShownOnce
<1> SUFFICES ASSUME NEW id, Stable(id)
             PROVE  LET times == Cardinality({i \in DOMAIN Shown' : Shown'[i] = id})
                        matches == id \in {k[2] : k \in MatchingKeys}
                    IN  /\ times <= 1
                        /\ page'.next = Nil /\ matches => times = 1
  BY DEF ShownOnce
<1> DEFINE s == Shown'
           at == {i \in DOMAIN s : s[i] = id}
<1>1. Reads(s, page', touched)
  BY ReadsNext
<1>2. Untouched(touched, id)
  BY DEF Stable, Untouched
<1> HIDE DEF s
<1>3. CASE Seen(s, id)
  <2>1. PICK i \in DOMAIN s : s[i] = id
    BY <1>3 DEF Seen
  <2>2. at = {i}
    BY <2>1, <1>1, <1>2 DEF Reads
  <2>3. Cardinality(at) = 1
    BY <2>2, FS_Singleton
  <2>4. QED
    BY <2>3 DEF s
<1>4. CASE ~Seen(s, id)
  <2>1. at = {}
    BY <1>4 DEF Seen
  <2>2. Cardinality(at) = 0
    BY <2>1, FS_EmptySet
  <2>3. ~(page'.next = Nil /\ id \in {k[2] : k \in MatchingKeys})
    <3> SUFFICES ASSUME page'.next = Nil, NEW k \in MatchingKeys, k[2] = id PROVE FALSE
      OBVIOUS
    <3>1. Seen(s, k[2])
      BY <1>1, <1>2 DEF Reads, Behind
    <3>2. QED
      BY <3>1, <1>4
  <2> DEFINE n == Cardinality({i \in DOMAIN Shown' : Shown'[i] = id})
  <2>4. n = 0
    BY <2>2 DEF s
  <2> HIDE DEF n
  <2>5. n <= 1 /\ (page'.next = Nil /\ id \in {k[2] : k \in MatchingKeys} => n = 1)
    BY <2>3, <2>4
  <2>6. QED
    BY <2>5 DEF n
<1>5. QED
  BY <1>3, <1>4

\* Whatever the crawl changes between the pages, of the rows it left alone a reader who
\* only goes forward has seen exactly those behind the cursor, each once, and the scans
\* to come will come upon the others.
THEOREM ReaderInvHolds == Spec => [](StateOK /\ ReaderInv)
<1>1. StateOK /\ ReaderInv /\ [Next]_vars => (StateOK /\ ReaderInv)'
  <2>1. StateOK /\ ReaderInv /\ Next => (StateOK /\ ReaderInv)'
    BY StateStays, ReaderStays
  <2>2. StateOK /\ ReaderInv /\ UNCHANGED vars => (StateOK /\ ReaderInv)'
    BY UnchangedState, UnchangedReader
  <2>3. QED
    BY <2>1, <2>2
<1>2. Init => StateOK /\ ReaderInv
  BY SearchStarts, ReaderStarts
<1>3. QED
  BY <1>1, <1>2, PTL DEF Spec

\* A reader who goes on to the end has seen every row (complex) that the crawl left
\* alone and that matches exactly once, and none twice on the way.
THEOREM StableShownOnceHolds == Spec => StableShownOnce
<1>1. StateOK /\ ReaderInv /\ [Next]_vars =>
        [(FollowNext /\ ~back /\ walk' # <<>>) =>
          \A id \in UNION {{r, ComplexOf[r]} : r \in Rows} :
            Stable(id) =>
              LET times == Cardinality({i \in DOMAIN Shown' : Shown'[i] = id})
                  matches == id \in {k[2] : k \in MatchingKeys}
              IN  /\ times <= 1
                  /\ page'.next = Nil /\ matches => times = 1]_vars
  BY ReadsOnce DEF ShownOnce
<1>2. QED
  BY <1>1, ReaderInvHolds, PTL DEF StableShownOnce, Spec

-----------------------------------------------------------------------------
(* The loan rules.  The largest of some limits.                             *)

\* The largest element of a set is its Max.
LEMMA MaxIs ==
  ASSUME NEW S \in SUBSET Int, NEW m \in S, \A y \in S : y <= m
  PROVE  Max(S) = m
  <1>1. \A x \in S : (\A y \in S : x >= y) <=> x = m
    OBVIOUS
  <1> QED BY <1>1 DEF Max

HasLargest(S) == S = {} \/ \E m \in S : \A y \in S : y <= m

\* A finite set of limits has a largest one: one more keeps it so.
LEMMA OneMore ==
  ASSUME NEW S \in SUBSET Int, NEW x \in Int, HasLargest(S)
  PROVE  HasLargest(S \cup {x})
  <1>1. CASE S = {}
    BY <1>1 DEF HasLargest
  <1>2. CASE S # {}
    <2>1. PICK m \in S : \A y \in S : y <= m
      BY <1>2 DEF HasLargest
    <2>2. CASE m <= x
      <3>1. \A y \in S \cup {x} : y <= x
        BY <2>1, <2>2
      <3> QED BY <3>1 DEF HasLargest
    <2>3. CASE ~(m <= x)
      <3>1. \A y \in S \cup {x} : y <= m
        BY <2>1, <2>3
      <3> QED BY <3>1 DEF HasLargest
    <2> QED BY <2>2, <2>3
  <1> QED BY <1>1, <1>2

LEMMA MaxOfLargest ==
  ASSUME NEW S \in SUBSET Int, HasLargest(S), S # {}
  PROVE  Max(S) \in S /\ \A y \in S : y <= Max(S)
  <1>1. PICK m \in S : \A y \in S : y <= m
    BY DEF HasLargest
  <1>2. Max(S) = m
    BY <1>1, MaxIs
  <1> QED BY <1>1, <1>2

\* The limits that occur in the plan, prices as well as areas.
Limits == {6000, 8500, 20000, 30000, 40000, 50000, 60000, 90000}

LEMMA MaxOfLimits ==
  ASSUME NEW S \in SUBSET Limits, NEW m \in S
  PROVE  Max(S) \in S /\ Max(S) \in Limits /\ m <= Max(S)
  <1>1. HasLargest(S)
    BY DEF HasLargest, Limits
  <1>2. S \in SUBSET Int /\ S # {}
    BY DEF Limits
  <1> QED BY <1>1, <1>2, MaxOfLargest

-----------------------------------------------------------------------------
(* Sales.                                                                   *)

\* What one product's limits ask of a listing.
SaleFits(m, l) ==
  /\ l.price <= m.price
  /\ m.area = AnyArea \/ (l.area > 0 /\ l.area <= m.area)

LEMMA SaleLimitsAre ==
  ASSUME NEW a, NEW m \in SaleLimits(a)
  PROVE  m.price \in Limits /\ m.area \in {AnyArea} \cup Limits
  BY DEF SaleLimits, Limits, AnyArea

LEMMA DidimdolHasLimits ==
  ASSUME NEW a \in Profile, NEW l \in Row, IsEligible(evaluate_didimdol(l, a))
  PROVE  \E m \in SaleLimits(a) : SaleFits(m, l)
  <1>1. a # NoApplicant
    BY LoanAssumption
  <1>2. /\ l.area > 0
        /\ l.area <= (IF Single(a) THEN 6000 ELSE 8500)
        /\ l.price <= (IF Single(a) THEN 30000 ELSE IF Special(a) THEN 60000 ELSE 50000)
        /\ a.homeless
        /\ a.income <= DidimdolIncome(a)
    BY <1>1 DEF evaluate_didimdol, IsEligible, Result, Status, Row, Profile
  <1>3. DidimdolIncome(a) = PlanDidimdolIncome(a)
    BY <1>1 DEF DidimdolIncome, PlanDidimdolIncome, Newlywed, FirstBuyer, ManyChildren, Profile
  <1> DEFINE m == IF a.single THEN [price |-> 30000, area |-> 6000]
                  ELSE [price |-> IF a.newlywed \/ a.children >= 2 THEN 60000 ELSE 50000,
                        area |-> 8500]
  <1>4. m \in SaleLimits(a)
    BY <1>2, <1>3 DEF SaleLimits
  <1>5. SaleFits(m, l)
    BY <1>1, <1>2 DEF SaleFits, Single, Special, Newlywed, ManyChildren
  <1> QED BY <1>4, <1>5

LEMMA BogumjariHasLimits ==
  ASSUME NEW a \in Profile, NEW l \in Row, IsEligible(evaluate_bogumjari(l, a))
  PROVE  \E m \in SaleLimits(a) : SaleFits(m, l)
  <1>1. a # NoApplicant
    BY LoanAssumption
  <1>2. l.price <= 60000 /\ a.income <= BogumjariIncome(a)
    BY <1>1 DEF evaluate_bogumjari, IsEligible, Result, Status, Row, Profile
  <1>3. BogumjariIncome(a) = PlanBogumjariIncome(a)
    BY <1>1 DEF BogumjariIncome, PlanBogumjariIncome, Profile
  <1> DEFINE m == [price |-> 60000, area |-> AnyArea]
  <1>4. m \in SaleLimits(a)
    BY <1>2, <1>3 DEF SaleLimits
  <1>5. SaleFits(m, l)
    BY <1>2 DEF SaleFits
  <1> QED BY <1>4, <1>5

LEMMA NeonatalPurchaseHasLimits ==
  ASSUME NEW a \in Profile, NEW l \in Row, IsEligible(evaluate_neonatal_purchase(l, a))
  PROVE  \E m \in SaleLimits(a) : SaleFits(m, l)
  <1>1. a # NoApplicant
    BY LoanAssumption
  <1>2. l.area > 0 /\ l.area <= 8500 /\ l.price <= 90000 /\ NeonatalFits(a)
    BY <1>1 DEF evaluate_neonatal_purchase, IsEligible, Result, Status, Row, Profile, NeonatalFits
  <1> DEFINE m == [price |-> 90000, area |-> 8500]
  <1>3. m \in SaleLimits(a)
    BY <1>2 DEF SaleLimits, NeonatalFits, PlanNeonatal
  <1>4. SaleFits(m, l)
    BY <1>2 DEF SaleFits
  <1> QED BY <1>3, <1>4

\* The branch takes the largest price, and the largest area unless one product
\* asks for none.
LEMMA SaleBranchCovers ==
  ASSUME NEW a \in Profile, NEW l \in Row, l.trade = Sale, l.price > 0,
         NEW m \in SaleLimits(a), SaleFits(m, l)
  PROVE  SqlCandidate(a, l)
  <1> DEFINE limits == SaleLimits(a)
             prices == {k.price : k \in limits}
             areas == {k.area : k \in limits}
             branch == SaleBranch(limits)
  <1>1. l.price \in Nat /\ l.area \in Nat
    BY DEF Row
  <1>2. Max(prices) \in Limits /\ m.price <= Max(prices)
    BY SaleLimitsAre, MaxOfLimits
  <1>3. m.price \in Limits /\ m.area \in {AnyArea} \cup Limits
    BY SaleLimitsAre
  <1>4. l.price <= Max(prices)
    BY <1>1, <1>2, <1>3 DEF SaleFits, Limits
  <1>5. ASSUME \A k \in limits : k.area # AnyArea
        PROVE  l.area > 0 /\ l.area <= Max(areas)
    <2>1. areas \in SUBSET Limits /\ m.area \in areas
      BY <1>5, SaleLimitsAre
    <2>2. Max(areas) \in Limits /\ m.area <= Max(areas)
      BY <2>1, MaxOfLimits
    <2> QED BY <1>1, <1>3, <1>5, <2>2 DEF SaleFits, Limits
  <1>6. /\ branch.trades = {Sale}
        /\ branch.capital = Max(prices) /\ branch.elsewhere = Max(prices)
        /\ branch.area = IF \A k \in limits : k.area # AnyArea THEN Max(areas) ELSE AnyArea
    BY DEF SaleBranch, Branch
  <1>7. SqlCondition(branch, l)
    BY <1>4, <1>5, <1>6 DEF SqlCondition
  <1>8. branch \in Plan(a)
    BY LoanAssumption DEF Plan
  <1> QED BY <1>7, <1>8 DEF SqlCandidate

LEMMA SaleIsCovered ==
  ASSUME NEW a \in Profile, NEW l \in Row,
         \/ IsEligible(evaluate_didimdol(l, a))
         \/ IsEligible(evaluate_bogumjari(l, a))
         \/ IsEligible(evaluate_neonatal_purchase(l, a))
  PROVE  SqlCandidate(a, l)
  <1>1. l.trade = Sale /\ l.price > 0
    BY DEF evaluate_didimdol, evaluate_bogumjari, evaluate_neonatal_purchase,
           IsEligible, Result, Status
  <1>2. PICK m \in SaleLimits(a) : SaleFits(m, l)
    BY DidimdolHasLimits, BogumjariHasLimits, NeonatalPurchaseHasLimits
  <1> QED BY <1>1, <1>2, SaleBranchCovers

-----------------------------------------------------------------------------
(* Rentals.  The evaluator asks the address alone whether a listing is in   *)
(* the capital area, the plan also takes the region code for it.            *)

RentFits(m, l) ==
  /\ l.area > 0 /\ l.area <= 8500
  /\ l.price <= (IF CapitalArea(l) THEN m.capital ELSE m.elsewhere)

LEMMA RentLimitsAre ==
  ASSUME NEW a, NEW m \in RentLimits(a)
  PROVE  m.capital \in Limits /\ m.elsewhere \in Limits /\ m.elsewhere <= m.capital
  BY DEF RentLimits, Limits

LEMMA NeonatalRentHasLimits ==
  ASSUME NEW a \in Profile, NEW l \in Row, IsEligible(evaluate_neonatal_rent(l, a))
  PROVE  \E m \in RentLimits(a) : RentFits(m, l)
  <1>1. a # NoApplicant
    BY LoanAssumption
  <1>2. /\ l.area > 0 /\ l.area <= 8500
        /\ l.price <= (IF CapitalArea(l) THEN 50000 ELSE 40000)
        /\ NeonatalFits(a)
    BY <1>1 DEF evaluate_neonatal_rent, IsEligible, Result, Status, Row, Profile, NeonatalFits
  <1> DEFINE m == [capital |-> 50000, elsewhere |-> 40000]
  <1>3. m \in RentLimits(a)
    BY <1>2 DEF RentLimits, NeonatalFits, PlanNeonatal
  <1>4. RentFits(m, l)
    BY <1>2 DEF RentFits
  <1> QED BY <1>3, <1>4

LEMMA BeotimmokHasLimits ==
  ASSUME NEW a \in Profile, NEW l \in Row, IsEligible(evaluate_beotimmok(l, a))
  PROVE  \E m \in RentLimits(a) : RentFits(m, l)
  <1>1. a # NoApplicant
    BY LoanAssumption
  <1>2. /\ l.area > 0 /\ l.area <= 8500
        /\ l.price <= BeotimmokDeposit(l, a)
        /\ a.income <= (IF Special(a) THEN 7500 ELSE 5000)
    BY <1>1 DEF evaluate_beotimmok, IsEligible, Result, Status, Row, Profile
  <1> DEFINE m == IF a.newlywed \/ a.children >= 2
                    THEN [capital |-> 40000, elsewhere |-> 30000]
                    ELSE [capital |-> 30000, elsewhere |-> 20000]
  <1>3. Special(a) <=> a.newlywed \/ a.children >= 2
    BY <1>1 DEF Special, Newlywed, ManyChildren
  <1>4. m \in RentLimits(a)
    BY <1>2, <1>3 DEF RentLimits
  <1>5. RentFits(m, l)
    BY <1>2, <1>3 DEF RentFits, BeotimmokDeposit
  <1> QED BY <1>4, <1>5

LEMMA RentBranchIs ==
  ASSUME NEW a, NEW m \in RentLimits(a)
  PROVE  LET b == RentBranch(RentLimits(a))
         IN  /\ b.trades = {2, 3, 4} /\ b.area = 8500
             /\ b.capital \in Limits /\ b.elsewhere \in Limits
             /\ m.capital <= b.capital /\ m.elsewhere <= b.elsewhere
             /\ b.elsewhere <= b.capital
  <1> DEFINE limits == RentLimits(a)
             capitals == {k.capital : k \in limits}
             others == {k.elsewhere : k \in limits}
  <1>1. capitals \in SUBSET Limits /\ others \in SUBSET Limits
    BY RentLimitsAre
  <1>2. \A x \in capitals : Max(capitals) \in Limits /\ x <= Max(capitals)
    BY <1>1, MaxOfLimits
  <1>3. /\ Max(others) \in others /\ Max(others) \in Limits
        /\ m.elsewhere <= Max(others)
    BY <1>1, MaxOfLimits
  <1>4. PICK k \in limits : k.elsewhere = Max(others)
    BY <1>3
  <1>5. /\ k.capital \in Limits /\ k.elsewhere <= k.capital
        /\ k.capital <= Max(capitals)
    BY <1>2, RentLimitsAre
  <1>6. Max(others) <= Max(capitals)
    <2>1. Max(capitals) \in Limits
      BY <1>2
    <2> HIDE DEF capitals, others
    <2> QED BY <1>3, <1>4, <1>5, <2>1 DEF Limits
  <1> QED BY <1>2, <1>3, <1>6 DEF RentBranch, Branch

LEMMA RentIsCovered ==
  ASSUME NEW a \in Profile, NEW l \in Row,
         IsEligible(evaluate_neonatal_rent(l, a)) \/ IsEligible(evaluate_beotimmok(l, a))
  PROVE  SqlCandidate(a, l)
  <1> DEFINE branch == RentBranch(RentLimits(a))
  <1>1. l.trade \in {2, 3, 4} /\ l.price > 0
    BY DEF evaluate_neonatal_rent, evaluate_beotimmok, IsEligible, Result, Status,
           Rental, Row, Trades, Sale
  <1>2. PICK m \in RentLimits(a) : RentFits(m, l)
    BY NeonatalRentHasLimits, BeotimmokHasLimits
  <1>3. m.capital \in Limits /\ m.elsewhere \in Limits
    BY RentLimitsAre
  <1>4. /\ branch.trades = {2, 3, 4} /\ branch.area = 8500
        /\ branch.capital \in Limits /\ branch.elsewhere \in Limits
        /\ m.capital <= branch.capital /\ m.elsewhere <= branch.elsewhere
    BY RentBranchIs
  <1>5. branch \in Plan(a)
    BY LoanAssumption DEF Plan
  <1> HIDE DEF branch
  <1>6. SqlCondition(branch, l)
    <2>1. l.price \in Nat /\ l.area \in Nat
      BY DEF Row
    <2>2. CapitalArea(l) => CapitalCandidate(l)
      BY DEF CapitalArea, CapitalCandidate
    <2>3. CASE CapitalArea(l)
      <3>1. l.price <= branch.capital
        BY <1>2, <1>3, <1>4, <2>1, <2>3 DEF RentFits, Limits
      <3> QED BY <1>1, <1>2, <1>4, <2>2, <2>3, <3>1 DEF RentFits, SqlCondition
    <2>4. CASE ~CapitalArea(l)
      <3>1. l.price <= branch.elsewhere
        BY <1>2, <1>3, <1>4, <2>1, <2>4 DEF RentFits, Limits
      <3> QED BY <1>1, <1>2, <1>4, <3>1 DEF RentFits, SqlCondition
    <2> QED BY <2>3, <2>4
  <1> QED BY <1>5, <1>6 DEF SqlCandidate

-----------------------------------------------------------------------------
(* Without a profile the plan holds the largest limits of all products.     *)

LEMMA CoveredWithoutProfile ==
  ASSUME NEW l \in Row,
         is_loan_eligible(l, NoApplicant) \/ IsEligible(evaluate_neonatal_rent(l, NoApplicant))
  PROVE  SqlCandidate(NoApplicant, l)
  <1> DEFINE sale == Branch({Sale}, 90000, 90000, AnyArea)
             rent == Branch({2, 3, 4}, 50000, 40000, 8500)
  <1>1. sale \in Plan(NoApplicant) /\ rent \in Plan(NoApplicant)
    BY DEF Plan
  <1>2. l.price \in Nat /\ l.area \in Nat /\ l.trade \in {1, 2, 3, 4}
    BY DEF Row, Trades
  <1>3. CASE \/ IsEligible(evaluate_didimdol(l, NoApplicant))
             \/ IsEligible(evaluate_bogumjari(l, NoApplicant))
             \/ IsEligible(evaluate_neonatal_purchase(l, NoApplicant))
    <2>1. l.trade = Sale /\ l.price > 0 /\ l.price <= 90000
      BY <1>2, <1>3 DEF evaluate_didimdol, evaluate_bogumjari, evaluate_neonatal_purchase,
                        IsEligible, Result, Status, Single, Special, Newlywed, ManyChildren
    <2>2. SqlCondition(sale, l)
      BY <2>1 DEF SqlCondition, Branch
    <2> QED BY <1>1, <2>2 DEF SqlCandidate
  <1>4. CASE \/ IsEligible(evaluate_beotimmok(l, NoApplicant))
             \/ IsEligible(evaluate_neonatal_rent(l, NoApplicant))
    <2>1. /\ l.trade \in {2, 3, 4} /\ l.price > 0
          /\ l.area > 0 /\ l.area <= 8500
          /\ l.price <= (IF CapitalArea(l) THEN 50000 ELSE 40000)
      BY <1>2, <1>4 DEF evaluate_beotimmok, evaluate_neonatal_rent, IsEligible, Result, Status,
                        Special, Newlywed, ManyChildren, BeotimmokDeposit, Rental, Sale
    <2>2. CapitalArea(l) => CapitalCandidate(l)
      BY DEF CapitalArea, CapitalCandidate
    <2>3. SqlCondition(rent, l)
      BY <1>2, <2>1, <2>2 DEF SqlCondition, Branch, AnyArea
    <2> QED BY <1>1, <2>3 DEF SqlCandidate
  <1> QED BY <1>3, <1>4 DEF is_loan_eligible, SearchResults

LEMMA CoveredWithProfile ==
  ASSUME NEW a \in Profile, NEW l \in Row,
         is_loan_eligible(l, a) \/ IsEligible(evaluate_neonatal_rent(l, a))
  PROVE  SqlCandidate(a, l)
  BY SaleIsCovered, RentIsCovered DEF is_loan_eligible, SearchResults

-----------------------------------------------------------------------------
(* The two writings of the plan.                                            *)

\* They differ in how they treat a listing of the capital area; that a limit there
\* is never below the one elsewhere makes them the same.
LEMMA BranchesAgree ==
  ASSUME NEW b, NEW l \in Row, b.capital \in Int, b.elsewhere \in Int,
         b.elsewhere <= b.capital
  PROVE  SqlCondition(b, l) <=> BranchMatches(b, l)
  <1>1. l.price \in Nat
    BY DEF Row
  <1> QED BY <1>1 DEF SqlCondition, BranchMatches

LEMMA PlanBranches ==
  ASSUME NEW a \in Profile \cup {NoApplicant}, NEW b \in Plan(a)
  PROVE  b.capital \in Int /\ b.elsewhere \in Int /\ b.elsewhere <= b.capital
  <1>1. CASE a = NoApplicant
    BY <1>1 DEF Plan, Branch
  <1>2. CASE a # NoApplicant /\ SaleLimits(a) # {} /\ b = SaleBranch(SaleLimits(a))
    <2> DEFINE prices == {k.price : k \in SaleLimits(a)}
    <2>1. PICK m \in SaleLimits(a) : TRUE
      BY <1>2
    <2>2. prices \in SUBSET Limits /\ m.price \in prices
      BY SaleLimitsAre
    <2>3. Max(prices) \in Limits
      BY <2>2, MaxOfLimits
    <2> QED BY <1>2, <2>3 DEF SaleBranch, Branch, Limits
  <1>3. CASE a # NoApplicant /\ RentLimits(a) # {} /\ b = RentBranch(RentLimits(a))
    <2>1. PICK m \in RentLimits(a) : TRUE
      BY <1>3
    <2> QED BY <1>3, <2>1, RentBranchIs DEF Limits
  <1>4. a = NoApplicant \/ (SaleLimits(a) # {} /\ b = SaleBranch(SaleLimits(a)))
                        \/ (RentLimits(a) # {} /\ b = RentBranch(RentLimits(a)))
    BY DEF Plan
  <1> QED BY <1>1, <1>2, <1>3, <1>4

-----------------------------------------------------------------------------
(* Affordability: no product lends more than the bound assumes.             *)

LEMMA SmallerIs ==
  ASSUME NEW x \in Int, NEW y \in Int
  PROVE  Smaller(x, y) \in Int /\ Smaller(x, y) <= x
  BY DEF Smaller

LEMMA ShareIsInt ==
  ASSUME NEW x \in Nat, NEW percent \in Nat
  PROVE  (x * percent) \div 100 \in Int
  <1>1. x * percent \in Int
    OBVIOUS
  <1> QED BY <1>1

LEMMA LoansAreBounded ==
  ASSUME NEW a \in Profile, NEW l \in Row, NEW r \in SearchResults(l, a)
  PROVE  r.loan \in Int /\ r.loan <= MAX_SUPPORTED_PURCHASE_LOAN
  <1>1. l.price \in Nat /\ LoanToValue(l, a) \in Nat
    BY DEF Row, LoanToValue
  <1>2. (l.price * LoanToValue(l, a)) \div 100 \in Int
    BY <1>1, ShareIsInt
  <1>3. CASE r = evaluate_didimdol(l, a)
    <2>1. r.loan = DidimdolLoan(l, a)
      BY <1>3 DEF evaluate_didimdol, Result
    <2> DEFINE share == (l.price * LoanToValue(l, a)) \div 100
               raw == share - (IF CapitalArea(l) THEN 5500 ELSE 0)
               cap == CASE Single(a) -> IF FirstBuyer(a) THEN 20000 ELSE 15000
                        [] ~Single(a) /\ Special(a) -> 32000
                        [] OTHER -> IF FirstBuyer(a) THEN 24000 ELSE 20000
    <2>2. raw \in Int
      <3> HIDE DEF share
      <3>1. share \in Int
        BY <1>2 DEF share
      <3> QED BY <3>1
    <2>3. cap \in Int /\ cap <= 32000
      OBVIOUS
    <2>4. r.loan = Smaller(cap, IF raw > 0 THEN raw ELSE 0)
      BY <2>1 DEF DidimdolLoan
    <2> DEFINE positive == IF raw > 0 THEN raw ELSE 0
    <2> HIDE DEF raw, cap
    <2>5. positive \in Int
      BY <2>2
    <2>6. r.loan = Smaller(cap, positive)
      BY <2>4
    <2> HIDE DEF positive
    <2>7. r.loan \in Int /\ r.loan <= cap
      BY <2>3, <2>5, <2>6, SmallerIs
    <2> QED BY <2>3, <2>7 DEF MAX_SUPPORTED_PURCHASE_LOAN
  <1>4. CASE r = evaluate_bogumjari(l, a)
    <2> DEFINE share == (l.price * LoanToValue(l, a)) \div 100
               cap == CASE FirstBuyer(a) -> 42000
                        [] ~FirstBuyer(a) /\ ManyChildren(a) -> 40000
                        [] OTHER -> 36000
    <2>1. cap \in Int /\ cap <= 42000
      OBVIOUS
    <2>2. r.loan = Smaller(cap, share)
      BY <1>4 DEF evaluate_bogumjari, Result
    <2>3. share \in Int
      BY <1>2
    <2> HIDE DEF share, cap
    <2> QED BY <2>1, <2>2, <2>3, SmallerIs DEF MAX_SUPPORTED_PURCHASE_LOAN
  <1>5. CASE r = evaluate_neonatal_purchase(l, a)
    <2>1. r.loan = Smaller(40000, (l.price * LoanToValue(l, a)) \div 100)
      BY <1>5 DEF evaluate_neonatal_purchase, Result
    <2> QED BY <1>2, <2>1, SmallerIs DEF MAX_SUPPORTED_PURCHASE_LOAN
  <1>6. CASE r = evaluate_beotimmok(l, a)
    <2> DEFINE most == (l.price * 80) \div 100
               less == (l.price * 70) \div 100
               mostCap == IF CapitalArea(l) THEN 25000 ELSE 16000
               lessCap == IF CapitalArea(l) THEN 12000 ELSE 8000
    <2>1. most \in Int /\ less \in Int
      BY <1>1, ShareIsInt
    <2>2. mostCap \in Int /\ mostCap <= 25000 /\ lessCap \in Int /\ lessCap <= 25000
      OBVIOUS
    <2>3. BeotimmokLoan(l, a) = IF Special(a) THEN Smaller(mostCap, most)
                                              ELSE Smaller(lessCap, less)
      BY DEF BeotimmokLoan
    <2> HIDE DEF most, less, mostCap, lessCap
    <2>4. /\ Smaller(mostCap, most) \in Int /\ Smaller(mostCap, most) <= mostCap
          /\ Smaller(lessCap, less) \in Int /\ Smaller(lessCap, less) <= lessCap
      BY <2>1, <2>2, SmallerIs
    <2>5. BeotimmokLoan(l, a) \in Int /\ BeotimmokLoan(l, a) <= 25000
      BY <2>2, <2>3, <2>4
    <2> QED BY <1>6, <2>5 DEF evaluate_beotimmok, Result, MAX_SUPPORTED_PURCHASE_LOAN
  <1> QED BY <1>3, <1>4, <1>5, <1>6 DEF SearchResults

LEMMA SelectedIsBounded ==
  ASSUME NEW a \in Profile, NEW l \in Row
  PROVE  SelectedAmount(l, a) \in Int /\ SelectedAmount(l, a) <= MAX_SUPPORTED_PURCHASE_LOAN
  <1> DEFINE loans == {r.loan : r \in Lenders(l, a)}
             d == evaluate_didimdol(l, a).loan
             b == evaluate_bogumjari(l, a).loan
             n == evaluate_neonatal_purchase(l, a).loan
             t == evaluate_beotimmok(l, a).loan
  <1>1. Lenders(l, a) \in SUBSET SearchResults(l, a)
    BY DEF Lenders
  <1>2. \A x \in loans : x \in Int /\ x <= MAX_SUPPORTED_PURCHASE_LOAN
    BY <1>1, LoansAreBounded
  <1>3. d \in Int /\ b \in Int /\ n \in Int /\ t \in Int
    BY LoansAreBounded DEF SearchResults
  <1>4. loans \in SUBSET {d, b, n, t}
    BY <1>1 DEF SearchResults
  <1>5. SelectedAmount(l, a) = IF loans = {} THEN 0 ELSE Max(loans)
    BY DEF SelectedAmount
  <1> HIDE DEF loans, d, b, n, t
  <1>6. HasLargest(loans)
    <2>1. HasLargest(loans \cap {d})
      BY <1>3 DEF HasLargest
    <2>2. HasLargest(loans \cap {d, b})
      <3>1. \/ loans \cap {d, b} = loans \cap {d}
            \/ loans \cap {d, b} = (loans \cap {d}) \cup {b}
        OBVIOUS
      <3> QED BY <1>3, <2>1, <3>1, OneMore
    <2>3. HasLargest(loans \cap {d, b, n})
      <3>1. \/ loans \cap {d, b, n} = loans \cap {d, b}
            \/ loans \cap {d, b, n} = (loans \cap {d, b}) \cup {n}
        OBVIOUS
      <3> QED BY <1>3, <2>2, <3>1, OneMore
    <2> QED
      <3>1. loans = loans \cap {d, b, n} \/ loans = (loans \cap {d, b, n}) \cup {t}
        BY <1>4
      <3> QED BY <1>3, <2>3, <3>1, OneMore
  <1>7. CASE loans = {}
    BY <1>5, <1>7 DEF MAX_SUPPORTED_PURCHASE_LOAN
  <1>8. CASE loans # {}
    <2>1. Max(loans) \in loans
      BY <1>2, <1>6, <1>8, MaxOfLargest
    <2> QED BY <1>2, <1>5, <1>8, <2>1
  <1> QED BY <1>7, <1>8

LEMMA ReserveIsNat ==
  ASSUME NEW price \in Nat, NEW bps \in Nat
  PROVE  ClosingCostReserve(price, bps) \in Nat
  <1>1. price * bps \in Nat
    OBVIOUS
  <1> DEFINE product == price * bps
  <1>2. product \in Nat
    BY <1>1
  <1> HIDE DEF product
  <1>3. (product + 9999) \div 10000 \in Nat
    BY <1>2
  <1> QED BY <1>3 DEF ClosingCostReserve, product

LEMMA AffordableIsCandidate ==
  ASSUME NEW a \in Profile \cup {NoApplicant}, NEW l \in Row, is_purchase_affordable(l, a)
  PROVE  PurchaseCandidate(l, a)
  <1>1. /\ a \in Profile /\ a.cash # NotSet
        /\ l.trade = Sale /\ a.cash >= RequiredCash(l, a)
    BY DEF is_purchase_affordable
  <1>2. a.cash \in Nat /\ a.reserveBps \in Nat /\ l.price \in Nat
    BY <1>1 DEF Profile, Row
  <1> DEFINE lent == SelectedAmount(l, a)
             reserve == ClosingCostReserve(l.price, a.reserveBps)
  <1>3. lent \in Int /\ lent <= 42000
    BY <1>1, SelectedIsBounded DEF MAX_SUPPORTED_PURCHASE_LOAN
  <1>4. reserve \in Nat
    BY <1>2, ReserveIsNat
  <1>5. RequiredCash(l, a) = (IF l.price > lent THEN l.price - lent ELSE 0) + reserve
    BY DEF RequiredCash
  <1> HIDE DEF lent, reserve
  <1>6. l.price <= a.cash + 42000
    BY <1>1, <1>2, <1>3, <1>4, <1>5
  <1> QED BY <1>1, <1>6 DEF PurchaseCandidate, MAX_SUPPORTED_PURCHASE_LOAN

-----------------------------------------------------------------------------
(* The theorems.                                                            *)

Occurs == applicant \in Applicants

\* The profile of a search is one of those that occur: the form replaces one whole
\* profile by another.
LEMMA ProfileOccurs == LoanSpec => []Occurs
  <1>1. LoanInit => Occurs
    BY DEF LoanInit, Occurs
  <1>2. Occurs /\ [LoanNext]_loanVars => Occurs'
    BY DEF Occurs, LoanNext, SaveProfile, loanVars
  <1> QED BY <1>1, <1>2, PTL DEF LoanSpec

\* For every profile, or none, and every listing: what the evaluator finds eligible,
\* the newborn rental rule included, satisfies the SQL condition of the loan search
\* (candidate_plan.py, _loan_candidate_condition).
THEOREM LoanSearchLosesNothing == LoanSpec => []CandidatesCoverEligible
  <1>1. ASSUME Occurs
        PROVE  CandidatesCoverEligible
    <2>1. SUFFICES ASSUME NEW l \in Listings,
                          \/ is_loan_eligible(l, applicant)
                          \/ IsEligible(evaluate_neonatal_rent(l, applicant))
                   PROVE  SqlCandidate(applicant, l)
      BY DEF CandidatesCoverEligible
    <2>2. l \in Row /\ applicant \in Profile \cup {NoApplicant}
      BY <1>1, LoanAssumption DEF Occurs
    <2> QED BY <2>1, <2>2, CoveredWithProfile, CoveredWithoutProfile
  <1> QED BY <1>1, ProfileOccurs, PTL

\* For every profile, or none, and every listing: the SQL condition and
\* LoanCandidatePlan.matches admit the same.
THEOREM PlanIsWrittenTwice == LoanSpec => []ConditionIsThePlan
  <1>1. ASSUME Occurs
        PROVE  ConditionIsThePlan
    <2>1. SUFFICES ASSUME NEW l \in Listings
                   PROVE  SqlCandidate(applicant, l) <=> PlanMatches(applicant, l)
      BY DEF ConditionIsThePlan
    <2>2. l \in Row /\ applicant \in Profile \cup {NoApplicant}
      BY <1>1, LoanAssumption DEF Occurs
    <2>3. \A b \in Plan(applicant) : SqlCondition(b, l) <=> BranchMatches(b, l)
      BY <2>2, PlanBranches, BranchesAgree
    <2> QED BY <2>3 DEF SqlCandidate, PlanMatches
  <1> QED BY <1>1, ProfileOccurs, PTL

\* For every profile and listing, and whatever the monthly payment is: an affordable
\* listing costs no more than the cash and MAX_SUPPORTED_PURCHASE_LOAN
\* (_purchase_candidate_rows).
THEOREM PriceBoundLosesNothing == LoanSpec => []CandidatesCoverAffordable
  <1>1. ASSUME Occurs
        PROVE  CandidatesCoverAffordable
    <2>1. \A l \in Listings : l \in Row
      BY LoanAssumption
    <2>2. applicant \in Profile \cup {NoApplicant}
      BY <1>1, LoanAssumption DEF Occurs
    <2> QED BY <2>1, <2>2, AffordableIsCandidate DEF CandidatesCoverAffordable
  <1> QED BY <1>1, ProfileOccurs, PTL

=============================================================================
