------------------------------- MODULE MapProofs -------------------------------
(***************************************************************************)
(* Why the map shows what it should, on the server and in the browser.      *)
(*                                                                          *)
(* The server.  Sums and recursive functions over finite sets are unfolded  *)
(* by induction, which is stated here for sets of good numbers and of good  *)
(* sets (a least number that is not good would have a good one before it).  *)
(* Three facts carry the viewport: a stream of rows sums up to what GROUP   *)
(* BY gives, for every prefix of the rows; a sum by groups is the sum; and  *)
(* clusters of different cells are different, because a cluster's western   *)
(* and southern edge are coordinates of its members.  The sweep keeps       *)
(* SweepInv: a batch holds only complexes that are not located, and, while  *)
(* no address changes under it, holds them as they are.                     *)
(*                                                                          *)
(* The browser.  The map and the list are followed alike.  A map that rests *)
(* (is not dirty) has what it shows, or a timer or a request that will      *)
(* bring it, or it has failed.  A request for another viewport can only be  *)
(* of a search that was sent in the middle of a drag, and a search forgets  *)
(* the last key: the timer set at rest asks again, whether or not the old   *)
(* answer comes before it.                                                  *)
(***************************************************************************)
EXTENDS MapPage, MapViewport, FiniteSetTheorems, WellFoundedInduction, TLAPS

-----------------------------------------------------------------------------
(* Induction over numbers and over finite sets, for sets of what is good.   *)

\* A set of numbers has a least one.
LEMMA LeastNumber ==
  ASSUME NEW N \in SUBSET Nat, N # {}
  PROVE  \E n \in N : \A m \in N : n <= m
<1> DEFINE Below == {pair \in Nat \X Nat : pair[1] < pair[2]}
<1>1. IsWellFoundedOn(Below, Nat)
  BY NatLessThanWellFounded DEF OpToRel
<1>2. \A x, y \in Nat : ~(<<x, y>> \in Below) => y <= x
  OBVIOUS
<1> HIDE DEF Below
<1>3. \E x \in N : \A y \in N : ~(<<y, x>> \in Below)
  BY <1>1, WFMin
<1>4. QED
  BY <1>2, <1>3

LEMMA NumbersByInduction ==
  ASSUME NEW Good, 0 \in Good, \A n \in Nat : n \in Good => n + 1 \in Good
  PROVE  Nat \subseteq Good
<1> SUFFICES ASSUME Nat \ Good # {} PROVE FALSE
  OBVIOUS
<1>1. PICK n \in Nat \ Good : \A m \in Nat \ Good : n <= m
  BY LeastNumber
<1>2. n # 0 /\ n - 1 \in Nat
  BY <1>1
<1>3. n - 1 \in Good
  BY <1>1, <1>2
<1>4. QED
  BY <1>1, <1>2, <1>3

\* A set with an element is one larger than without it.
LEMMA OneLess ==
  ASSUME NEW T, IsFiniteSet(T), NEW x \in T, NEW n \in Nat, Cardinality(T) = n + 1
  PROVE  IsFiniteSet(T \ {x}) /\ Cardinality(T \ {x}) = n
<1>1. IsFiniteSet(T \ {x}) /\ Cardinality(T \ {x}) = Cardinality(T) - 1
  BY FS_RemoveElement
<1>2. QED
  BY <1>1

LEMMA SetsByInduction ==
  ASSUME NEW S, IsFiniteSet(S), NEW Good, {} \in Good,
         \A T \in SUBSET S : T \in Good => \A x \in S \ T : T \cup {x} \in Good
  PROVE  S \in Good
<1> DEFINE Sizes == {n \in Nat : \A T \in SUBSET S : Cardinality(T) = n => T \in Good}
<1>1. 0 \in Sizes
  BY FS_EmptySet, FS_Subset
<1>2. ASSUME NEW n \in Nat, n \in Sizes PROVE n + 1 \in Sizes
  <2> SUFFICES ASSUME NEW T \in SUBSET S, Cardinality(T) = n + 1 PROVE T \in Good
    OBVIOUS
  <2>1. IsFiniteSet(T) /\ T # {}
    BY FS_Subset, FS_EmptySet
  <2>2. PICK x : x \in T
    BY <2>1
  <2>3. Cardinality(T \ {x}) = n
    BY <2>1, <2>2, OneLess
  <2>4. T \ {x} \in Good
    BY <1>2, <2>3
  <2>5. T = (T \ {x}) \cup {x} /\ x \in S \ (T \ {x}) /\ T \ {x} \in SUBSET S
    BY <2>2
  <2>6. QED
    BY <2>4, <2>5
<1> HIDE DEF Sizes
<1>3. Nat \subseteq Sizes
  BY <1>1, <1>2, NumbersByInduction
<1>4. Cardinality(S) \in Nat
  BY FS_CardinalityType
<1>5. QED
  BY <1>3, <1>4 DEF Sizes

\* Min and Max are what they are called.
LEMMA MinIsLeast ==
  ASSUME NEW S \in SUBSET Nat, S # {}
  PROVE  Min(S) \in S /\ \A y \in S : Min(S) <= y
  BY LeastNumber DEF Min

LEMMA MaxIsGreatest ==
  ASSUME NEW S \in SUBSET Nat, IsFiniteSet(S), S # {}
  PROVE  Max(S) \in S /\ \A y \in S : Max(S) >= y
<1> DEFINE Good == {T \in SUBSET S : T # {} => \E m \in T : \A y \in T : m >= y}
<1>1. {} \in Good
  OBVIOUS
<1>2. ASSUME NEW T \in SUBSET S, T \in Good, NEW x \in S \ T PROVE T \cup {x} \in Good
  <2>1. CASE T = {}
    BY <2>1
  <2>2. CASE T # {}
    <3>1. PICK m \in T : \A y \in T : m >= y
      BY <1>2, <2>2
    <3>2. CASE m >= x
      BY <3>1, <3>2
    <3>3. CASE ~(m >= x)
      <4>1. \A y \in T \cup {x} : x >= y
        BY <3>1, <3>3
      <4>2. QED
        BY <4>1
    <3>4. QED
      BY <3>2, <3>3
  <2>3. QED
    BY <2>1, <2>2
<1> HIDE DEF Good
<1>3. S \in Good
  BY <1>1, <1>2, SetsByInduction
<1>4. \E m \in S : \A y \in S : m >= y
  BY <1>3 DEF Good
<1>5. QED
  BY <1>4 DEF Max

-----------------------------------------------------------------------------
(* Sums.                                                                    *)

First(s) == CHOOSE x \in s : TRUE

\* g sums up f over every part of S.
SumsUp(g, f, S) ==
  g = [s \in SUBSET S |-> IF s = {} THEN 0 ELSE f[First(s)] + g[s \ {First(s)}]]

LEMMA SumIs ==
  ASSUME NEW f, NEW S
  PROVE  SumFunctionOnSet(f, S) = (CHOOSE g : SumsUp(g, f, S))[S]
BY DEF SumFunctionOnSet, FoldFunctionOnSet, MapThenFoldSet, SumsUp, First

\* There is such a function.
LEMMA SumExists ==
  ASSUME NEW f, NEW S, IsFiniteSet(S)
  PROVE  \E g : SumsUp(g, f, S)
<1> DEFINE Body(g, s) == IF s = {} THEN 0 ELSE f[First(s)] + g[s \ {First(s)}]
           Upto(g, n) == \A s \in SUBSET S : Cardinality(s) <= n => g[s] = Body(g, s)
           Good == {n \in Nat : \E g : g = [s \in SUBSET S |-> g[s]] /\ Upto(g, n)}
<1>0. \A s \in SUBSET S : IsFiniteSet(s) /\ Cardinality(s) \in Nat
  BY FS_Subset, FS_CardinalityType
<1>1. 0 \in Good
  <2> DEFINE g == [s \in SUBSET S |-> 0]
  <2>1. Upto(g, 0)
    BY <1>0, FS_EmptySet
  <2>2. g = [s \in SUBSET S |-> g[s]]
    OBVIOUS
  <2> HIDE DEF g
  <2>3. QED
    BY <2>1, <2>2
<1>2. ASSUME NEW n \in Nat, n \in Good PROVE n + 1 \in Good
  <2>1. PICK g : g = [s \in SUBSET S |-> g[s]] /\ Upto(g, n)
    BY <1>2
  <2> DEFINE h == [s \in SUBSET S |-> Body(g, s)]
  <2>2. ASSUME NEW s \in SUBSET S, Cardinality(s) <= n + 1 PROVE h[s] = Body(h, s)
    <3>1. CASE s = {}
      BY <3>1
    <3>2. CASE s # {}
      <4>1. First(s) \in s
        BY <3>2 DEF First
      <4>2. s \ {First(s)} \in SUBSET S /\ Cardinality(s \ {First(s)}) <= n
        BY <1>0, <2>2, <4>1, FS_RemoveElement
      <4>3. h[s \ {First(s)}] = g[s \ {First(s)}]
        BY <2>1, <4>2
      <4>4. QED
        BY <3>2, <4>3
    <3>3. QED
      BY <3>1, <3>2
  <2>3. h = [s \in SUBSET S |-> h[s]]
    OBVIOUS
  <2> HIDE DEF h, Body
  <2>4. n + 1 \in Nat /\ Upto(h, n + 1)
    BY <2>2
  <2> HIDE DEF Upto
  <2>5. \E k : k = [s \in SUBSET S |-> k[s]] /\ Upto(k, n + 1)
    BY <2>3, <2>4
  <2>6. QED
    BY <2>4, <2>5
<1> HIDE DEF Good
<1>3. Nat \subseteq Good
  BY <1>1, <1>2, NumbersByInduction
<1>4. Cardinality(S) \in Good
  BY <1>0, <1>3
<1>5. PICK g : g = [s \in SUBSET S |-> g[s]] /\ Upto(g, Cardinality(S))
  BY <1>4 DEF Good
<1>6. \A s \in SUBSET S : Cardinality(s) <= Cardinality(S)
  BY FS_Subset
<1>7. \A s \in SUBSET S : g[s] = Body(g, s)
  BY <1>5, <1>6
<1>8. g = [s \in SUBSET S |-> Body(g, s)]
  BY <1>5, <1>7
<1>9. QED
  BY <1>8 DEF SumsUp

\* Two functions that agree on T have one sum over T, whatever it is part of.
LEMMA SumsAgree ==
  ASSUME NEW f, NEW S, NEW g, SumsUp(g, f, S), NEW e, NEW R, NEW h, SumsUp(h, e, R),
         NEW T \in SUBSET S, T \in SUBSET R, IsFiniteSet(T), \A x \in T : f[x] = e[x]
  PROVE  g[T] = h[T]
<1> DEFINE Good == {n \in Nat : \A s \in SUBSET T : Cardinality(s) = n => g[s] = h[s]}
<1>0. \A s \in SUBSET T : IsFiniteSet(s) /\ Cardinality(s) \in Nat
  BY FS_Subset, FS_CardinalityType
<1>1. 0 \in Good
  <2>1. g[{}] = 0 /\ h[{}] = 0
    BY DEF SumsUp
  <2>2. QED
    BY <1>0, <2>1, FS_EmptySet
<1>2. ASSUME NEW n \in Nat, n \in Good PROVE n + 1 \in Good
  <2> SUFFICES ASSUME NEW s \in SUBSET T, Cardinality(s) = n + 1 PROVE g[s] = h[s]
    OBVIOUS
  <2>1. s # {} /\ First(s) \in s
    BY FS_EmptySet DEF First
  <2>2. g[s] = f[First(s)] + g[s \ {First(s)}] /\ h[s] = e[First(s)] + h[s \ {First(s)}]
    BY <2>1 DEF SumsUp
  <2>3. Cardinality(s \ {First(s)}) = n /\ s \ {First(s)} \in SUBSET T
    BY <1>0, <2>1, OneLess
  <2>4. g[s \ {First(s)}] = h[s \ {First(s)}] /\ f[First(s)] = e[First(s)]
    BY <1>2, <2>1, <2>3
  <2>5. QED
    BY <2>2, <2>4
<1> HIDE DEF Good
<1>3. Nat \subseteq Good
  BY <1>1, <1>2, NumbersByInduction
<1>4. QED
  BY <1>0, <1>3 DEF Good

\* A sum is 0 over nothing, and depends on nothing but what is summed up.
LEMMA SumEmpty ==
  ASSUME NEW f
  PROVE  SumFunctionOnSet(f, {}) = 0
<1>1. PICK g : SumsUp(g, f, {})
  BY SumExists, FS_EmptySet
<1>2. SumsUp(CHOOSE k : SumsUp(k, f, {}), f, {})
  BY <1>1
<1>3. QED
  BY <1>2, SumIs DEF SumsUp

LEMMA SumSame ==
  ASSUME NEW T, IsFiniteSet(T), NEW f, NEW e, \A x \in T : f[x] = e[x]
  PROVE  SumFunctionOnSet(f, T) = SumFunctionOnSet(e, T)
<1>1. PICK g : SumsUp(g, f, T)
  BY SumExists
<1>2. PICK h : SumsUp(h, e, T)
  BY SumExists
<1>3. SumsUp(CHOOSE k : SumsUp(k, f, T), f, T)
  BY <1>1
<1>4. SumsUp(CHOOSE k : SumsUp(k, e, T), e, T)
  BY <1>2
<1>5. (CHOOSE k : SumsUp(k, f, T))[T] = (CHOOSE k : SumsUp(k, e, T))[T]
  BY <1>3, <1>4, SumsAgree
<1>6. QED
  BY <1>5, SumIs

LEMMA SumFirst ==
  ASSUME NEW f, NEW T, IsFiniteSet(T), T # {}
  PROVE  SumFunctionOnSet(f, T) = f[First(T)] + SumFunctionOnSet(f, T \ {First(T)})
<1> DEFINE R == T \ {First(T)}
           g == CHOOSE k : SumsUp(k, f, T)
           h == CHOOSE k : SumsUp(k, f, R)
<1>1. IsFiniteSet(R)
  BY FS_Subset
<1>2. SumsUp(g, f, T)
  BY SumExists
<1>3. SumsUp(h, f, R)
  BY <1>1, SumExists
<1>4. SumFunctionOnSet(f, T) = g[T] /\ SumFunctionOnSet(f, R) = h[R]
  BY SumIs
<1> HIDE DEF g, h
<1>5. g[R] = h[R]
  BY <1>1, <1>2, <1>3, SumsAgree
<1>6. g[T] = f[First(T)] + g[R]
  BY <1>2 DEF SumsUp
<1>7. QED
  BY <1>4, <1>5, <1>6

\* It does not matter which element is added first.
LEMMA SumsAreNumbers ==
  ASSUME NEW S, IsFiniteSet(S), NEW f, \A x \in S : f[x] \in Nat
  PROVE  /\ SumFunctionOnSet(f, S) \in Nat
         /\ \A x \in S : SumFunctionOnSet(f, S) = f[x] + SumFunctionOnSet(f, S \ {x})
<1> DEFINE Total(T) == SumFunctionOnSet(f, T)
           Fine(T) == Total(T) \in Nat /\ \A x \in T : Total(T) = f[x] + Total(T \ {x})
           Good == {n \in Nat : \A T \in SUBSET S : Cardinality(T) <= n => Fine(T)}
<1>0. \A T \in SUBSET S : IsFiniteSet(T) /\ Cardinality(T) \in Nat
  BY FS_Subset, FS_CardinalityType
<1>1. 0 \in Good
  BY <1>0, FS_EmptySet, SumEmpty
<1>2. ASSUME NEW n \in Nat, n \in Good PROVE n + 1 \in Good
  <2> SUFFICES ASSUME NEW T \in SUBSET S, Cardinality(T) = n + 1 PROVE Fine(T)
    BY <1>0, <1>2
  <2> DEFINE y == First(T)
             R == T \ {y}
  <2>1. T # {} /\ y \in T
    BY FS_EmptySet DEF First
  <2>2. Total(T) = f[y] + Total(R)
    BY <1>0, <2>1, SumFirst
  <2>3. R \in SUBSET S /\ Cardinality(R) = n
    BY <1>0, <2>1, OneLess
  <2>4. Fine(R)
    BY <1>2, <2>3
  <2>5. Total(T) \in Nat
    BY <2>1, <2>2, <2>4
  <2>6. ASSUME NEW x \in T PROVE Total(T) = f[x] + Total(T \ {x})
    <3>1. CASE x = y
      BY <2>2, <3>1
    <3>2. CASE x # y
      <4>1. x \in R /\ Total(R) = f[x] + Total(R \ {x})
        BY <2>4, <3>2
      <4>2. T \ {x} \in SUBSET S /\ Cardinality(T \ {x}) = n
        BY <1>0, OneLess
      <4>3. Fine(T \ {x}) /\ y \in T \ {x}
        BY <1>2, <2>1, <3>2, <4>2
      <4>4. Total(T \ {x}) = f[y] + Total((T \ {x}) \ {y})
        BY <4>3
      <4>5. (T \ {x}) \ {y} = R \ {x}
        OBVIOUS
      <4>6. R \ {x} \in SUBSET S /\ f[x] \in Nat /\ f[y] \in Nat
        BY <2>1
      <4>7. Total(R \ {x}) \in Nat
        <5>1. Cardinality(R \ {x}) <= n
          BY <1>0, <2>3, <4>6, FS_Subset
        <5>2. QED
          BY <1>2, <4>6, <5>1
      <4> HIDE DEF Total, y, R, Fine
      <4>8. Total(T \ {x}) = f[y] + Total(R \ {x})
        BY <4>4, <4>5
      <4>9. Total(T) = f[y] + (f[x] + Total(R \ {x}))
        BY <2>2, <4>1
      <4>10. QED
        BY <4>6, <4>7, <4>8, <4>9
    <3>3. QED
      BY <3>1, <3>2
  <2>7. QED
    BY <2>5, <2>6
<1> HIDE DEF Good
<1>3. Nat \subseteq Good
  BY <1>1, <1>2, NumbersByInduction
<1>4. QED
  BY <1>0, <1>3 DEF Good

LEMMA SumAdd ==
  ASSUME NEW T, IsFiniteSet(T), NEW x, x \notin T, NEW f, \A y \in T \cup {x} : f[y] \in Nat
  PROVE  /\ SumFunctionOnSet(f, T) \in Nat
         /\ SumFunctionOnSet(f, T \cup {x}) = f[x] + SumFunctionOnSet(f, T)
<1>1. IsFiniteSet(T \cup {x}) /\ x \in T \cup {x} /\ (T \cup {x}) \ {x} = T
  BY FS_AddElement
<1>2. SumFunctionOnSet(f, T) \in Nat
  BY SumsAreNumbers
<1>3. \A y \in T \cup {x} : SumFunctionOnSet(f, T \cup {x})
                              = f[y] + SumFunctionOnSet(f, (T \cup {x}) \ {y})
  BY <1>1, SumsAreNumbers
<1>4. QED
  BY <1>1, <1>2, <1>3

\* A sum of ones counts.
LEMMA SumOfOnes ==
  ASSUME NEW S, IsFiniteSet(S), NEW f, \A x \in S : f[x] = 1
  PROVE  SumFunctionOnSet(f, S) = Cardinality(S)
<1> DEFINE Good == {T \in SUBSET S : SumFunctionOnSet(f, T) = Cardinality(T)}
<1>1. {} \in Good
  BY SumEmpty, FS_EmptySet
<1>2. ASSUME NEW T \in SUBSET S, T \in Good, NEW x \in S \ T PROVE T \cup {x} \in Good
  <2>1. IsFiniteSet(T)
    BY FS_Subset
  <2>2. Cardinality(T) \in Nat /\ Cardinality(T \cup {x}) = Cardinality(T) + 1
    BY <2>1, FS_AddElement, FS_CardinalityType
  <2>6. x \notin T /\ f[x] = 1 /\ \A y \in T \cup {x} : f[y] \in Nat
    OBVIOUS
  <2>3. SumFunctionOnSet(f, T \cup {x}) = f[x] + SumFunctionOnSet(f, T)
    BY <2>1, <2>6, SumAdd
  <2>4. SumFunctionOnSet(f, T \cup {x}) = Cardinality(T \cup {x})
    BY <1>2, <2>2, <2>6, <2>3
  <2>5. QED
    BY <2>4
<1> HIDE DEF Good
<1>3. S \in Good
  BY <1>1, <1>2, SetsByInduction
<1>4. QED
  BY <1>3 DEF Good

\* Sums of parts add up.
LEMMA SumDisjoint ==
  ASSUME NEW R, IsFiniteSet(R), NEW S, IsFiniteSet(S), R \cap S = {},
         NEW f, \A x \in R \cup S : f[x] \in Nat
  PROVE  SumFunctionOnSet(f, R \cup S) = SumFunctionOnSet(f, R) + SumFunctionOnSet(f, S)
<1> DEFINE Total(T) == SumFunctionOnSet(f, T)
           Good == {T \in SUBSET S : Total(R \cup T) = Total(R) + Total(T)}
<1>0. \A T \in SUBSET S : IsFiniteSet(T) /\ IsFiniteSet(R \cup T) /\ Total(T) \in Nat
                          /\ Total(R) \in Nat /\ Total(R \cup T) \in Nat
  <2> SUFFICES ASSUME NEW T \in SUBSET S
               PROVE IsFiniteSet(T) /\ IsFiniteSet(R \cup T) /\ Total(T) \in Nat
                     /\ Total(R) \in Nat /\ Total(R \cup T) \in Nat
    OBVIOUS
  <2>1. IsFiniteSet(T) /\ IsFiniteSet(R \cup T)
    BY FS_Subset, FS_Union
  <2>2. Total(T) \in Nat /\ Total(R) \in Nat
    BY <2>1, SumsAreNumbers
  <2>3. Total(R \cup T) \in Nat
    BY <2>1, SumsAreNumbers
  <2>4. QED
    BY <2>1, <2>2, <2>3
<1>1. {} \in Good
  <2>1. R \cup {} = R /\ Total({}) = 0
    BY SumEmpty
  <2>2. Total(R) \in Nat
    BY <1>0
  <2> HIDE DEF Total
  <2>3. Total(R \cup {}) = Total(R) + Total({})
    BY <2>1, <2>2
  <2>4. QED
    BY <2>3
<1>2. ASSUME NEW T \in SUBSET S, T \in Good, NEW x \in S \ T PROVE T \cup {x} \in Good
  <2>1. Total(T \cup {x}) = f[x] + Total(T)
    BY <1>0, SumAdd
  <2>2. R \cup (T \cup {x}) = (R \cup T) \cup {x} /\ x \notin R \cup T /\ f[x] \in Nat
    OBVIOUS
  <2>3. Total((R \cup T) \cup {x}) = f[x] + Total(R \cup T)
    BY <1>0, <2>2, SumAdd
  <2>4. Total(R \cup T) = Total(R) + Total(T)
    BY <1>2
  <2>5. T \cup {x} \in SUBSET S /\ Total(R) \in Nat /\ Total(T) \in Nat
    BY <1>0
  <2>6. Total(R \cup (T \cup {x})) = f[x] + Total(R \cup T)
    BY <2>2, <2>3
  <2> HIDE DEF Total
  <2>7. Total(R \cup (T \cup {x})) = Total(R) + Total(T \cup {x})
    BY <2>1, <2>2, <2>4, <2>5, <2>6
  <2>8. QED
    BY <2>5, <2>7
<1> HIDE DEF Good
<1>3. S \in Good
  BY <1>1, <1>2, SetsByInduction
<1>4. QED
  BY <1>3 DEF Good

Group(S, h, t) == {x \in S : h[x] = t}

\* Summed up group by group, a sum stays what it was.
LEMMA SumByGroups ==
  ASSUME NEW S, IsFiniteSet(S), NEW f, \A x \in S : f[x] \in Nat,
         NEW G, IsFiniteSet(G), NEW h, \A x \in S : h[x] \in G,
         NEW g, \A t \in G : g[t] = SumFunctionOnSet(f, Group(S, h, t))
  PROVE  SumFunctionOnSet(g, G) = SumFunctionOnSet(f, S)
<1> DEFINE Part(T) == {x \in S : h[x] \in T}
           Good == {T \in SUBSET G : SumFunctionOnSet(g, T) = SumFunctionOnSet(f, Part(T))}
<1>0. \A t \in G : IsFiniteSet(Group(S, h, t)) /\ g[t] = SumFunctionOnSet(f, Group(S, h, t)) /\ g[t] \in Nat
  <2> SUFFICES ASSUME NEW t \in G
               PROVE IsFiniteSet(Group(S, h, t)) /\ g[t] = SumFunctionOnSet(f, Group(S, h, t)) /\ g[t] \in Nat
    OBVIOUS
  <2>1. IsFiniteSet(Group(S, h, t)) /\ Group(S, h, t) \in SUBSET S
    BY FS_Subset DEF Group
  <2>2. SumFunctionOnSet(f, Group(S, h, t)) \in Nat
    BY <2>1, SumsAreNumbers
  <2>3. QED
    BY <2>1, <2>2
<1>1. {} \in Good
  <2>1. Part({}) = {}
    OBVIOUS
  <2>2. QED
    BY <2>1, SumEmpty
<1>2. ASSUME NEW T \in SUBSET G, T \in Good, NEW t \in G \ T PROVE T \cup {t} \in Good
  <2>1. IsFiniteSet(T) /\ IsFiniteSet(Part(T))
    BY FS_Subset
  <2>2. SumFunctionOnSet(g, T \cup {t}) = g[t] + SumFunctionOnSet(g, T)
        /\ SumFunctionOnSet(g, T) \in Nat
    BY <1>0, <2>1, SumAdd
  <2>3. Part(T \cup {t}) = Part(T) \cup Group(S, h, t) /\ Part(T) \cap Group(S, h, t) = {}
        /\ Group(S, h, t) \in SUBSET S
    BY DEF Group
  <2>4. SumFunctionOnSet(f, Part(T) \cup Group(S, h, t))
          = SumFunctionOnSet(f, Part(T)) + SumFunctionOnSet(f, Group(S, h, t))
    BY <1>0, <2>1, <2>3, SumDisjoint
  <2>5. g[t] = SumFunctionOnSet(f, Group(S, h, t)) /\ g[t] \in Nat
    BY <1>0
  <2>6. SumFunctionOnSet(g, T) = SumFunctionOnSet(f, Part(T))
    BY <1>2
  <2> HIDE DEF Part
  <2>7. SumFunctionOnSet(f, Part(T \cup {t}))
          = SumFunctionOnSet(f, Part(T)) + SumFunctionOnSet(f, Group(S, h, t))
    BY <2>3, <2>4
  <2>8. SumFunctionOnSet(g, T \cup {t}) = SumFunctionOnSet(f, Part(T \cup {t}))
    BY <2>2, <2>5, <2>6, <2>7
  <2>9. QED
    BY <2>8
<1> HIDE DEF Good
<1>3. G \in Good
  BY <1>1, <1>2, SetsByInduction
<1>4. Part(G) = S
  OBVIOUS
<1>5. QED
  BY <1>3, <1>4 DEF Good

-----------------------------------------------------------------------------
(* The sweep.                                                               *)

Rows == [address : Addresses, status : Statuses, at : (Nat \X Nat) \cup {Nowhere},
         retry : Retries]
Outcomes == [status : {"OK", "NOT_FOUND", "FAILED"}, at : (Nat \X Nat) \cup {Nowhere},
             retry : {"none", "later"}]

\* The batch fits the sweep, and the sweep its bounds.
BatchFits ==
  /\ DOMAIN batch.loaded \subseteq Complexes /\ DOMAIN batch.results \subseteq DOMAIN batch.loaded
  /\ \A c \in DOMAIN batch.loaded : batch.loaded[c] \in Rows
  /\ \A c \in DOMAIN batch.results : batch.results[c] \in Outcomes
  /\ batch.requests \in Nat /\ sweep.requests + batch.requests <= MaxRequests
  /\ batch # NoBatch => sweep.on
  /\ sweep.on => sweep.batches < MaxBatches /\ sweep.requests < MaxRequests

\* Coordinates go with the status OK, and no complex of the batch has them.
PlacedWhenOK ==
  /\ \A c \in Complexes : complex[c].status = "OK" <=> complex[c].at # Nowhere
  /\ \A c \in DOMAIN batch.loaded :
       batch.loaded[c].status # "OK" /\ batch.loaded[c].at = Nowhere /\ complex[c].status # "OK"
  /\ \A c \in DOMAIN batch.results :
       batch.results[c].status = "OK" <=> batch.results[c].at # Nowhere

\* While no address changed under a batch, coordinates are those of the address, also
\* the ones the batch is about to write.
PlacedRight ==
  ~disturbed =>
   /\ \A c \in Complexes : complex[c].status = "OK" => complex[c].at = Place[complex[c].address]
   /\ \A c \in DOMAIN batch.loaded : complex[c] = batch.loaded[c]
   /\ \A c \in DOMAIN batch.results :
        batch.results[c].status = "OK" => batch.results[c].at = Place[batch.loaded[c].address]

SweepInv == SweepTypeOK /\ BatchFits /\ PlacedWhenOK /\ PlacedRight

ImageOf(f, S) == {f[x] : x \in S}

LEMMA ImageIsFinite ==
  ASSUME NEW S, IsFiniteSet(S), NEW f
  PROVE  IsFiniteSet(ImageOf(f, S)) /\ Cardinality(ImageOf(f, S)) <= Cardinality(S)
<1> DEFINE T == ImageOf(f, S)
           g == [x \in S |-> f[x]]
<1>1. g \in Surjection(S, T)
  BY DEF Surjection, ImageOf
<1>2. QED
  BY <1>1, FS_Surjection

LEMMA NowhereIsNoPlace ==
  /\ \A a \in Addresses : Place[a] \in Nat \X Nat /\ Place[a] # Nowhere
  /\ Nowhere \notin Nat \X Nat
BY SweepAssumption

LEMMA BoundsAreNumbers ==
  /\ BatchSize \in Nat /\ MaxBatches \in Nat /\ MaxRequests \in Nat
  /\ BatchSize # 0 /\ MaxBatches # 0 /\ MaxRequests # 0
  /\ MaxMoves \in Nat /\ MaxDeaths \in Nat
BY SweepAssumption

LEMMA NoSweepIs ==
  /\ NoSweep \in [on : BOOLEAN, batches : 0..MaxBatches, requests : 0..MaxRequests]
  /\ NoSweep.on = FALSE /\ NoSweep.batches = 0 /\ NoSweep.requests = 0
BY BoundsAreNumbers DEF NoSweep

LEMMA NoBatchIsEmpty ==
  /\ DOMAIN NoBatch.loaded = {} /\ DOMAIN NoBatch.results = {} /\ NoBatch.requests = 0
BY DEF NoBatch

LEMMA NewIs ==
  ASSUME NEW a \in Addresses
  PROVE  /\ New(a) \in Rows /\ New(a).address = a /\ New(a).status = "PENDING"
         /\ New(a).at = Nowhere /\ New(a).retry = "none"
BY DEF New, Rows, Statuses, Retries

\* The batch stops before the request that would be one too many.
LEMMA RequestsFit ==
  ASSUME SweepTypeOK, NEW cs \in SUBSET Complexes, NEW limit \in Nat
  PROVE  /\ IsFiniteSet(Asked(Processed(cs, limit)))
         /\ Cardinality(Asked(Processed(cs, limit))) <= limit
<1> DEFINE done == Processed(cs, limit)
           Upto(m) == {d \in cs : d <= m}
<1>1. \A T \in SUBSET Complexes : IsFiniteSet(T) /\ IsFiniteSet(Asked(T))
  <2> SUFFICES ASSUME NEW T \in SUBSET Complexes PROVE IsFiniteSet(T) /\ IsFiniteSet(Asked(T))
    OBVIOUS
  <2> DEFINE f == [c \in T |-> complex[c].address]
  <2>1. IsFiniteSet(T)
    BY SweepAssumption, FS_Subset
  <2>2. IsFiniteSet(ImageOf(f, T))
    BY <2>1, ImageIsFinite
  <2>3. Asked(T) \in SUBSET ImageOf(f, T)
    BY DEF Asked, ImageOf
  <2>4. QED
    BY <2>1, <2>2, <2>3, FS_Subset
<1>2. done \in SUBSET cs /\ \A m \in done : Cardinality(Asked(Upto(m))) <= limit
  BY DEF Processed
<1>3. CASE done = {}
  <2>1. Asked({}) = {}
    BY DEF Asked
  <2>2. QED
    BY <1>3, <2>1, FS_EmptySet
<1>4. CASE done # {}
  <2> DEFINE m == Max(done)
  <2>1. done \in SUBSET Nat
    BY <1>2, SweepAssumption
  <2>2. IsFiniteSet(done)
    BY <1>1, <1>2
  <2>3. m \in done /\ \A c \in done : m >= c
    BY <1>4, <2>1, <2>2, MaxIsGreatest
  <2>4. Upto(m) \in SUBSET Complexes /\ IsFiniteSet(Asked(Upto(m)))
    BY <1>1
  <2>5. done \in SUBSET Upto(m)
    BY <1>2, <2>1, <2>3
  <2>6. Asked(done) \in SUBSET Asked(Upto(m))
    BY <2>5 DEF Asked
  <2>7. IsFiniteSet(Asked(done)) /\ Cardinality(Asked(done)) <= Cardinality(Asked(Upto(m)))
    BY <2>4, <2>6, FS_Subset
  <2>8. Cardinality(Asked(Upto(m))) \in Nat /\ Cardinality(Asked(done)) \in Nat
    BY <2>4, <2>7, FS_CardinalityType
  <2>9. Cardinality(Asked(Upto(m))) <= limit
    BY <1>2, <2>3
  <2>10. QED
    BY <2>7, <2>8, <2>9
<1>5. QED
  BY <1>3, <1>4

\* SweepInv holds at the start, and each action keeps it.
LEMMA SweepStarts == SweepInit => SweepInv
<1> SUFFICES ASSUME SweepInit PROVE SweepInv
  OBVIOUS
<1> USE NoBatchIsEmpty, NowhereIsNoPlace DEF SweepInit
<1>1. \A c \in Complexes : complex[c] \in Rows /\ complex[c].status = "PENDING"
                           /\ complex[c].at = Nowhere
  BY NewIs
<1>2. complex = [c \in Complexes |-> complex[c]]
  OBVIOUS
<1>3. SweepTypeOK
  <2>1. complex \in [Complexes -> Rows]
    BY <1>1, <1>2
  <2>2. moves \in 0..MaxMoves /\ deaths \in 0..MaxDeaths /\ disturbed \in BOOLEAN
    <3>1. moves = 0 /\ deaths = 0 /\ disturbed = FALSE
      OBVIOUS
    <3>2. 0 \in 0..MaxMoves /\ 0 \in 0..MaxDeaths
      BY BoundsAreNumbers
    <3>3. QED
      BY <3>1, <3>2
  <2>3. QED
    BY <2>1, <2>2, NoSweepIs DEF SweepTypeOK, Rows
<1>4. BatchFits
  BY BoundsAreNumbers, NoSweepIs DEF BatchFits
<1>5. PlacedWhenOK
  BY <1>1 DEF PlacedWhenOK
<1>6. PlacedRight
  BY <1>1 DEF PlacedRight
<1>7. QED
  BY <1>3, <1>4, <1>5, <1>6 DEF SweepInv

LEMMA AddressChangesKeeps ==
  ASSUME SweepInv, NEW c \in Complexes, NEW a \in Addresses, AddressChanges(c, a)
  PROVE  SweepInv'
<1> USE DEF SweepInv, AddressChanges
<1>1. New(a) \in Rows /\ New(a).status = "PENDING" /\ New(a).at = Nowhere
  BY NewIs
<1>2. \A d \in Complexes : complex'[d] = IF d = c THEN New(a) ELSE complex[d]
  BY DEF SweepTypeOK
<1>3. SweepTypeOK'
  BY <1>1, SweepAssumption DEF SweepTypeOK, Rows
<1>4. BatchFits'
  BY DEF BatchFits
<1>5. PlacedWhenOK'
  <2>1. \A d \in Complexes : complex'[d].status = "OK" <=> complex'[d].at # Nowhere
    BY <1>1, <1>2 DEF PlacedWhenOK
  <2>2. \A d \in DOMAIN batch.loaded : complex'[d].status # "OK"
    BY <1>1, <1>2 DEF PlacedWhenOK, BatchFits
  <2>3. QED
    BY <2>1, <2>2 DEF PlacedWhenOK
<1>6. PlacedRight'
  <2> SUFFICES ASSUME ~disturbed, c \notin DOMAIN batch.loaded PROVE PlacedRight'
    BY DEF PlacedRight
  <2>1. \A d \in Complexes : complex'[d].status = "OK" => complex'[d].at = Place[complex'[d].address]
    BY <1>1, <1>2 DEF PlacedRight
  <2>2. \A d \in DOMAIN batch.loaded : complex'[d] = batch.loaded[d]
    BY <1>2 DEF PlacedRight, BatchFits
  <2>3. QED
    BY <2>1, <2>2 DEF PlacedRight
<1>7. QED
  BY <1>3, <1>4, <1>5, <1>6

LEMMA StartSweepKeeps ==
  ASSUME SweepInv, NEW passed \in BOOLEAN, StartSweep(passed)
  PROVE  SweepInv'
<1> USE NoBatchIsEmpty, NoSweepIs, BoundsAreNumbers DEF SweepInv, StartSweep
<1>1. batch = NoBatch
  BY DEF BatchFits
<1>2. \A d \in Complexes :
        /\ complex'[d] \in Rows /\ complex'[d].address = complex[d].address
        /\ complex'[d].status = complex[d].status /\ complex'[d].at = complex[d].at
  BY DEF SweepTypeOK, Rows, Retries
<1>3. sweep' = [on |-> TRUE, batches |-> 0, requests |-> 0]
  BY DEF NoSweep
<1>4. SweepTypeOK'
  <2>1. complex' \in [Complexes -> Rows]
    BY <1>2
  <2>2. sweep' \in [on : BOOLEAN, batches : 0..MaxBatches, requests : 0..MaxRequests]
    BY <1>3
  <2>3. QED
    BY <2>1, <2>2 DEF SweepTypeOK, Rows
<1>5. BatchFits'
  BY <1>1, <1>3 DEF BatchFits
<1>6. PlacedWhenOK'
  BY <1>1, <1>2 DEF PlacedWhenOK
<1>7. PlacedRight'
  BY <1>1, <1>2 DEF PlacedRight
<1>8. QED
  BY <1>4, <1>5, <1>6, <1>7

LEMMA SweepEndsKeeps ==
  ASSUME SweepInv, NothingDue \/ SweepDies
  PROVE  SweepInv'
<1> USE NoBatchIsEmpty, NoSweepIs, BoundsAreNumbers DEF SweepInv
<1>1. sweep' = NoSweep /\ batch' = NoBatch /\ complex' = complex /\ disturbed' = disturbed
  BY DEF NothingDue, SweepDies
<1>2. SweepTypeOK'
  <2>1. moves' \in 0..MaxMoves /\ deaths' \in 0..MaxDeaths
    BY DEF NothingDue, SweepDies, SweepTypeOK
  <2>2. QED
    BY <1>1, <2>1 DEF SweepTypeOK
<1>3. BatchFits'
  BY <1>1 DEF BatchFits
<1>4. PlacedWhenOK'
  BY <1>1 DEF PlacedWhenOK
<1>5. PlacedRight'
  BY <1>1 DEF PlacedRight
<1>6. QED
  BY <1>2, <1>3, <1>4, <1>5

LEMMA ResultIs ==
  ASSUME NEW status \in {"OK", "NOT_FOUND", "FAILED"}, NEW p \in Nat \X Nat
  PROVE  /\ Result(status, p) \in Outcomes /\ Result(status, p).status = status
         /\ Result(status, p).at = IF status = "OK" THEN p ELSE Nowhere
BY DEF Result, Outcomes, Retry

LEMMA LoadBatchKeeps ==
  ASSUME SweepInv, LoadBatch
  PROVE  SweepInv'
<1> USE DEF SweepInv
<1> DEFINE done == Processed(Candidates, MaxRequests - sweep.requests)
<1>1. Candidates \in SUBSET Complexes /\ done \in SUBSET Candidates
      /\ \A c \in Candidates : Due(c)
  BY DEF Candidates, Processed
<1>2. PICK answer \in [Asked(done) -> {"OK", "NOT_FOUND", "FAILED"}],
           source \in [Known -> {c \in Complexes : complex[c].status = "OK"}] :
        /\ \A a \in Known : complex[source[a]].address = a
        /\ batch' = [loaded |-> [c \in Candidates |-> complex[c]],
                     results |-> [c \in done |->
                                   LET a == complex[c].address
                                   IN  IF a \in Known
                                       THEN Result("OK", complex[source[a]].at)
                                       ELSE Result(answer[a], Place[a])],
                     requests |-> Cardinality(Asked(done))]
  BY DEF LoadBatch
<1> DEFINE outcome(c) == LET a == complex[c].address
                         IN  IF a \in Known THEN Result("OK", complex[source[a]].at)
                             ELSE Result(answer[a], Place[a])
<1>3. complex' = complex /\ sweep' = sweep /\ disturbed' = disturbed /\ moves' = moves
      /\ deaths' = deaths /\ sweep.on
  BY DEF LoadBatch
<1>4. /\ DOMAIN batch'.loaded = Candidates /\ DOMAIN batch'.results = done
      /\ \A c \in Candidates : batch'.loaded[c] = complex[c]
      /\ \A c \in done : batch'.results[c] = outcome(c)
      /\ batch'.requests = Cardinality(Asked(done))
  BY <1>2
<1>5. \A c \in Complexes : complex[c] \in Rows
  BY DEF SweepTypeOK, Rows
<1>6. ASSUME NEW c \in done
      PROVE  /\ outcome(c) \in Outcomes
             /\ outcome(c).status = "OK" <=> outcome(c).at # Nowhere
             /\ ~disturbed /\ outcome(c).status = "OK" => outcome(c).at = Place[complex[c].address]
  <2> DEFINE a == complex[c].address
  <2>1. c \in Complexes /\ a \in Addresses
    BY <1>1, <1>5 DEF Rows
  <2>2. CASE a \in Known
    <3> DEFINE d == source[a]
    <3>1. d \in Complexes /\ complex[d].status = "OK" /\ complex[d].address = a
      BY <1>2, <2>2
    <3>2. complex[d].at \in Nat \X Nat /\ complex[d].at # Nowhere
      BY <1>5, <3>1 DEF PlacedWhenOK, Rows
    <3>3. ~disturbed => complex[d].at = Place[a]
      BY <3>1 DEF PlacedRight
    <3>4. outcome(c) = Result("OK", complex[d].at)
      BY <2>2
    <3> HIDE DEF a, d, outcome
    <3>5. outcome(c) \in Outcomes /\ outcome(c).status = "OK" /\ outcome(c).at = complex[d].at
      BY <3>2, <3>4, ResultIs
    <3>6. QED
      BY <3>2, <3>3, <3>5 DEF a
  <2>3. CASE a \notin Known
    <3>1. a \in Asked(done)
      BY <2>3 DEF Asked
    <3>2. answer[a] \in {"OK", "NOT_FOUND", "FAILED"} /\ Place[a] \in Nat \X Nat
          /\ Place[a] # Nowhere
      BY <1>2, <2>1, <3>1, NowhereIsNoPlace
    <3>3. outcome(c) = Result(answer[a], Place[a])
      BY <2>3
    <3> HIDE DEF a, outcome
    <3>4. outcome(c) \in Outcomes /\ outcome(c).status = answer[a]
          /\ outcome(c).at = IF answer[a] = "OK" THEN Place[a] ELSE Nowhere
      BY <3>2, <3>3, ResultIs
    <3>5. QED
      BY <3>2, <3>4 DEF a
  <2>4. QED
    BY <2>2, <2>3
<1> HIDE DEF done, outcome
<1>7. SweepTypeOK'
  BY <1>3 DEF SweepTypeOK
<1>8. BatchFits'
  <2>1. MaxRequests - sweep.requests \in Nat /\ sweep.requests \in Nat
    BY BoundsAreNumbers DEF SweepTypeOK
  <2>2. IsFiniteSet(Asked(done)) /\ Cardinality(Asked(done)) <= MaxRequests - sweep.requests
    BY <1>1, <2>1, RequestsFit DEF done
  <2>3. batch'.requests \in Nat /\ sweep'.requests + batch'.requests <= MaxRequests
    BY <1>3, <1>4, <2>1, <2>2, FS_CardinalityType, BoundsAreNumbers
  <2>4. \A c \in done : batch'.results[c] \in Outcomes
    BY <1>4, <1>6
  <2>5. \A c \in Candidates : batch'.loaded[c] \in Rows
    BY <1>1, <1>4, <1>5
  <2>6. QED
    BY <1>1, <1>3, <1>4, <2>3, <2>4, <2>5 DEF BatchFits
<1>9. PlacedWhenOK'
  <2>1. \A c \in Candidates : complex[c].status # "OK" /\ complex[c].at = Nowhere
    BY <1>1 DEF Due, PlacedWhenOK
  <2>2. \A c \in done : batch'.results[c].status = "OK" <=> batch'.results[c].at # Nowhere
    BY <1>4, <1>6
  <2>3. QED
    BY <1>3, <1>4, <2>1, <2>2 DEF PlacedWhenOK
<1>10. PlacedRight'
  <2> SUFFICES ASSUME ~disturbed PROVE PlacedRight'
    BY <1>3 DEF PlacedRight
  <2>1. \A c \in done : batch'.results[c].status = "OK"
                          => batch'.results[c].at = Place[batch'.loaded[c].address]
    BY <1>1, <1>4, <1>6
  <2>2. QED
    BY <1>3, <1>4, <2>1 DEF PlacedRight
<1>11. QED
  BY <1>7, <1>8, <1>9, <1>10

LEMMA CommitBatchKeeps ==
  ASSUME SweepInv, CommitBatch
  PROVE  SweepInv'
<1> USE NoBatchIsEmpty DEF SweepInv, CommitBatch
<1> DEFINE written == DOMAIN batch.results
           after(c) == Flushed(complex[c], batch.loaded[c], batch.results[c])
<1>1. written \in SUBSET DOMAIN batch.loaded /\ written \in SUBSET Complexes
      /\ batch' = NoBatch /\ disturbed' = disturbed /\ sweep.on
  BY DEF BatchFits
<1>2. \A c \in Complexes : complex'[c] = IF c \in written THEN after(c) ELSE complex[c]
  OBVIOUS
<1>3. ASSUME NEW c \in written
      PROVE  /\ after(c) \in Rows
             /\ after(c).status = "OK" <=> after(c).at # Nowhere
             /\ after(c).address = complex[c].address
             /\ ~disturbed /\ after(c).status = "OK" => after(c).at = Place[complex[c].address]
  <2> DEFINE now == complex[c]
             loaded == batch.loaded[c]
             result == batch.results[c]
  <2>1. now \in Rows /\ loaded \in Rows /\ result \in Outcomes
    BY <1>1 DEF SweepTypeOK, BatchFits, Rows
  <2>2. /\ loaded.status # "OK" /\ loaded.at = Nowhere
        /\ now.status # "OK" /\ now.at = Nowhere
        /\ result.status = "OK" <=> result.at # Nowhere
    BY <1>1 DEF PlacedWhenOK
  <2>3. after(c) = [now EXCEPT !.status = IF result.status # loaded.status THEN result.status ELSE @,
                               !.at = IF result.at # loaded.at THEN result.at ELSE @,
                               !.retry = IF result.retry # loaded.retry THEN result.retry ELSE @]
    BY DEF Flushed
  <2>4. ~disturbed => now = loaded
    BY <1>1 DEF PlacedRight
  <2>5. ~disturbed /\ result.status = "OK" => result.at = Place[loaded.address]
    BY DEF PlacedRight
  <2> HIDE DEF now, loaded, result, after
  <2>6. /\ after(c).address = now.address
        /\ after(c).status = IF result.status # loaded.status THEN result.status ELSE now.status
        /\ after(c).at = IF result.at # loaded.at THEN result.at ELSE now.at
        /\ after(c).retry = IF result.retry # loaded.retry THEN result.retry ELSE now.retry
        /\ after(c) \in Rows
    BY <2>1, <2>3 DEF Rows, Outcomes, Statuses, Retries
  <2>7. after(c).status = "OK" <=> after(c).at # Nowhere
    BY <2>2, <2>6
  <2>8. ~disturbed /\ after(c).status = "OK" => after(c).at = Place[now.address]
    BY <2>2, <2>4, <2>5, <2>6
  <2>9. QED
    BY <2>6, <2>7, <2>8 DEF now
<1> HIDE DEF after
<1>4. \A c \in Complexes :
        /\ complex'[c] \in Rows
        /\ complex'[c].status = "OK" <=> complex'[c].at # Nowhere
        /\ ~disturbed /\ complex'[c].status = "OK"
             => complex'[c].at = Place[complex'[c].address]
  <2> SUFFICES ASSUME NEW c \in Complexes
               PROVE /\ complex'[c] \in Rows
                     /\ complex'[c].status = "OK" <=> complex'[c].at # Nowhere
                     /\ ~disturbed /\ complex'[c].status = "OK"
                          => complex'[c].at = Place[complex'[c].address]
    OBVIOUS
  <2>1. CASE c \in written
    BY <1>2, <1>3, <2>1
  <2>2. CASE c \notin written
    <3>1. complex'[c] = complex[c] /\ complex[c] \in Rows
      BY <1>2, <2>2 DEF SweepTypeOK, Rows
    <3>2. QED
      BY <3>1 DEF PlacedWhenOK, PlacedRight
  <2>3. QED
    BY <2>1, <2>2
<1>5. /\ sweep' \in [on : BOOLEAN, batches : 0..MaxBatches, requests : 0..MaxRequests]
      /\ sweep'.on => sweep'.batches < MaxBatches /\ sweep'.requests < MaxRequests
      /\ sweep'.requests <= MaxRequests
  <2> DEFINE batches == sweep.batches + 1
             requests == sweep.requests + batch.requests
  <2>1. sweep.batches \in Nat /\ sweep.batches < MaxBatches /\ sweep.requests \in Nat
        /\ batch.requests \in Nat /\ requests <= MaxRequests
    BY <1>1, BoundsAreNumbers DEF BatchFits, SweepTypeOK
  <2>2. CASE batches = MaxBatches \/ requests >= MaxRequests
    BY <2>2, NoSweepIs, BoundsAreNumbers
  <2>3. CASE ~(batches = MaxBatches \/ requests >= MaxRequests)
    <3>1. sweep' = [on |-> TRUE, batches |-> batches, requests |-> requests]
      BY <2>3
    <3>2. batches \in 0..MaxBatches /\ requests \in 0..MaxRequests /\ batches < MaxBatches
          /\ requests < MaxRequests
      BY <2>1, <2>3, BoundsAreNumbers
    <3> HIDE DEF batches, requests
    <3>3. sweep'.on = TRUE /\ sweep'.batches = batches /\ sweep'.requests = requests
          /\ sweep' \in [on : BOOLEAN, batches : 0..MaxBatches, requests : 0..MaxRequests]
      BY ONLY <3>1, <3>2
    <3>4. requests <= MaxRequests
      BY <2>1 DEF requests
    <3>5. QED
      BY ONLY <3>2, <3>3, <3>4
  <2>4. QED
    BY <2>2, <2>3
<1>6. SweepTypeOK'
  <2>1. complex' \in [Complexes -> Rows]
    BY <1>4
  <2>2. QED
    BY <1>5, <2>1 DEF SweepTypeOK, Rows
<1>7. BatchFits'
  <2>1. sweep'.requests \in Nat
    BY <1>5
  <2>2. QED
    BY <1>1, <1>5, <2>1 DEF BatchFits
<1>8. PlacedWhenOK'
  BY <1>1, <1>4 DEF PlacedWhenOK
<1>9. PlacedRight'
  BY <1>1, <1>4 DEF PlacedRight
<1>10. QED
  BY <1>6, <1>7, <1>8, <1>9

LEMMA SweepStutters ==
  ASSUME SweepInv, UNCHANGED sweepVars
  PROVE  SweepInv'
BY DEF SweepInv, SweepTypeOK, BatchFits, PlacedWhenOK, PlacedRight, sweepVars

MapInv == SweepInv /\ listed \in SUBSET Articles

\* SweepInv holds of every reachable state of the sweep with the crawl beside it.
THEOREM MapInvHolds == ViewportSpec => []MapInv
<1>1. ViewportInit => MapInv
  BY SweepStarts DEF ViewportInit, MapInv
<1>2. MapInv /\ [ViewportNext]_viewportVars => MapInv'
  <2> SUFFICES ASSUME MapInv, [ViewportNext]_viewportVars PROVE MapInv'
    OBVIOUS
  <2> USE DEF MapInv
  <2>1. CASE UNCHANGED viewportVars
    BY <2>1, SweepStutters DEF viewportVars
  <2>2. CASE ViewportNext
    <3>1. listed' = listed /\ SweepNext
      BY <2>2 DEF ViewportNext
    <3>2. ASSUME NEW c \in Complexes, NEW a \in Addresses, AddressChanges(c, a) PROVE SweepInv'
      BY <3>2, AddressChangesKeeps
    <3>3. ASSUME NEW passed \in BOOLEAN, StartSweep(passed) PROVE SweepInv'
      BY <3>3, StartSweepKeeps
    <3>4. ASSUME LoadBatch PROVE SweepInv'
      BY <3>4, LoadBatchKeeps
    <3>5. ASSUME NothingDue \/ SweepDies PROVE SweepInv'
      BY <3>5, SweepEndsKeeps
    <3>6. ASSUME CommitBatch PROVE SweepInv'
      BY <3>6, CommitBatchKeeps
    <3>7. SweepInv'
      BY <3>1, <3>2, <3>3, <3>4, <3>5, <3>6 DEF SweepNext
    <3>8. QED
      BY <3>1, <3>7
  <2>3. QED
    BY <2>1, <2>2
<1>3. QED
  BY <1>1, <1>2, PTL DEF ViewportSpec

-----------------------------------------------------------------------------
(* The stream of rows.                                                      *)

Mine(rows, c) == {r \in rows : InComplex[r] = c}
PricesOf(rows, c) == {price[r] : r \in Mine(rows, c)}
SummaryOf(rows, c) ==
  [text |-> Min(Mine(rows, c)), count |-> Cardinality(Mine(rows, c)),
   min |-> Min(PricesOf(rows, c)), max |-> Max(PricesOf(rows, c))]
AllSummaries(rows) == [c \in {InComplex[r] : r \in rows} |-> SummaryOf(rows, c)]

LEMMA MinIs ==
  ASSUME NEW S \in SUBSET Nat, NEW m \in S, \A y \in S : m <= y
  PROVE  Min(S) = m
<1>1. Min(S) \in S /\ Min(S) <= m
  BY MinIsLeast
<1>2. m \in Nat /\ Min(S) \in Nat /\ m <= Min(S)
  BY <1>1
<1>3. QED
  BY <1>1, <1>2

LEMMA MaxIs ==
  ASSUME NEW S \in SUBSET Nat, NEW m \in S, \A y \in S : m >= y
  PROVE  Max(S) = m
<1>1. Max(S) \in S /\ Max(S) >= m
  BY DEF Max
<1>2. m \in Nat /\ Max(S) \in Nat /\ m >= Max(S)
  BY <1>1
<1>3. QED
  BY <1>1, <1>2

LEMMA MinAdds ==
  ASSUME NEW S \in SUBSET Nat, S # {}, NEW x \in Nat
  PROVE  Min(S \cup {x}) = Min({Min(S), x})
<1>1. Min(S) \in S /\ Min(S) \in Nat /\ \A y \in S : Min(S) <= y
  BY MinIsLeast
<1> DEFINE m == IF Min(S) <= x THEN Min(S) ELSE x
<1>2. m \in S \cup {x} /\ \A y \in S \cup {x} : m <= y
  BY <1>1
<1>3. Min(S \cup {x}) = m
  BY <1>1, <1>2, MinIs
<1>4. Min({Min(S), x}) = m
  BY <1>1, MinIs
<1>5. QED
  BY <1>3, <1>4

LEMMA MaxAdds ==
  ASSUME NEW S \in SUBSET Nat, IsFiniteSet(S), S # {}, NEW x \in Nat
  PROVE  Max(S \cup {x}) = Max({Max(S), x})
<1>1. Max(S) \in S /\ Max(S) \in Nat /\ \A y \in S : Max(S) >= y
  BY MaxIsGreatest
<1> DEFINE m == IF Max(S) >= x THEN Max(S) ELSE x
<1>2. m \in S \cup {x} /\ \A y \in S \cup {x} : m >= y
  BY <1>1
<1>3. Max(S \cup {x}) = m
  BY <1>1, <1>2, MaxIs
<1>4. Max({Max(S), x}) = m
  BY <1>1, MaxIs
<1>5. QED
  BY <1>3, <1>4

LEMMA MineIs ==
  ASSUME NEW rows \in SUBSET Articles, NEW c
  PROVE  /\ Mine(rows, c) \in SUBSET Nat /\ IsFiniteSet(Mine(rows, c))
         /\ PricesOf(rows, c) \in SUBSET Nat /\ IsFiniteSet(PricesOf(rows, c))
         /\ Cardinality(Mine(rows, c)) \in Nat
         /\ Mine(rows, c) # {} => PricesOf(rows, c) # {}
<1>1. Mine(rows, c) \in SUBSET Nat /\ Mine(rows, c) \in SUBSET Articles
  BY ViewportAssumption DEF Mine
<1>2. IsFiniteSet(Mine(rows, c))
  BY <1>1, ViewportAssumption, FS_Subset
<1>3. IsFiniteSet(PricesOf(rows, c))
  BY <1>2, ImageIsFinite DEF PricesOf, ImageOf
<1>4. PricesOf(rows, c) \in SUBSET Nat
  BY <1>1, ViewportAssumption DEF PricesOf
<1>5. QED
  BY <1>1, <1>2, <1>3, <1>4, FS_CardinalityType DEF PricesOf

\* A row after all others makes of their summaries those of all.
LEMMA AddRowAdds ==
  ASSUME NEW rows \in SUBSET Articles, NEW n \in Articles, \A r \in rows : r < n
  PROVE  AddRow(AllSummaries(rows), n) = AllSummaries(rows \cup {n})
<1> DEFINE c == InComplex[n]
           p == price[n]
           all == rows \cup {n}
           sums == AllSummaries(rows)
           s == IF c \in DOMAIN sums THEN sums[c]
                ELSE [text |-> n, count |-> 0, min |-> p, max |-> p]
           next == [text |-> s.text, count |-> s.count + 1,
                    min |-> Min({s.min, p}), max |-> Max({s.max, p})]
<1>1. n \in Nat /\ p \in Nat /\ n \notin rows /\ all \in SUBSET Articles
  BY ViewportAssumption
<1>2. Mine(all, c) = Mine(rows, c) \cup {n} /\ PricesOf(all, c) = PricesOf(rows, c) \cup {p}
  BY DEF Mine, PricesOf
<1>3. next = SummaryOf(all, c)
  <2>1. CASE c \in DOMAIN sums
    <3>1. s = SummaryOf(rows, c)
      BY <2>1 DEF AllSummaries
    <3>2. Mine(rows, c) # {}
      BY <2>1 DEF AllSummaries, Mine
    <3>3. next = [text |-> Min(Mine(rows, c)), count |-> Cardinality(Mine(rows, c)) + 1,
                  min |-> Min({Min(PricesOf(rows, c)), p}),
                  max |-> Max({Max(PricesOf(rows, c)), p})]
      <4> HIDE DEF s
      <4>1. s.text = Min(Mine(rows, c)) /\ s.count = Cardinality(Mine(rows, c))
            /\ s.min = Min(PricesOf(rows, c)) /\ s.max = Max(PricesOf(rows, c))
        BY <3>1 DEF SummaryOf
      <4>2. QED
        BY <4>1
    <3> HIDE DEF next, s, sums, c, p, all
    <3>4. Min(Mine(all, c)) = Min(Mine(rows, c))
      <4>1. Min(Mine(rows, c)) \in Mine(rows, c) /\ \A y \in Mine(rows, c) : Min(Mine(rows, c)) <= y
        BY <3>2, MineIs, MinIsLeast
      <4>2. Min(Mine(rows, c)) < n /\ Mine(all, c) \in SUBSET Nat
        BY <1>1, <4>1, MineIs DEF Mine
      <4>3. Min(Mine(rows, c)) \in Mine(all, c) /\ \A y \in Mine(all, c) : Min(Mine(rows, c)) <= y
        BY <1>1, <1>2, <4>1, <4>2, MineIs
      <4>4. QED
        BY <4>2, <4>3, MinIs
    <3>5. Cardinality(Mine(all, c)) = Cardinality(Mine(rows, c)) + 1
      <4>1. n \notin Mine(rows, c) /\ IsFiniteSet(Mine(rows, c))
        BY <1>1, MineIs DEF Mine
      <4>2. QED
        BY <1>2, <4>1, FS_AddElement
    <3>6. Min(PricesOf(all, c)) = Min({Min(PricesOf(rows, c)), p})
          /\ Max(PricesOf(all, c)) = Max({Max(PricesOf(rows, c)), p})
      BY <1>1, <1>2, <3>2, MineIs, MinAdds, MaxAdds
    <3>7. QED
      BY <3>3, <3>4, <3>5, <3>6 DEF SummaryOf
  <2>2. CASE c \notin DOMAIN sums
    <3>1. s = [text |-> n, count |-> 0, min |-> p, max |-> p]
      BY <2>2
    <3>2. next = [text |-> n, count |-> 0 + 1, min |-> Min({p, p}), max |-> Max({p, p})]
      BY <3>1
    <3>3. Mine(all, c) = {n} /\ PricesOf(all, c) = {p}
      <4>1. Mine(rows, c) = {}
        BY <2>2 DEF Mine, AllSummaries
      <4>2. QED
        BY <1>2, <4>1 DEF PricesOf
    <3>4. Cardinality({n}) = 1 /\ {p, p} = {p}
      BY FS_Singleton
    <3>5. Min({n}) = n
      BY <1>1, MinIs
    <3> HIDE DEF next, s, sums, c, p, all
    <3>6. QED
      BY <3>2, <3>3, <3>4, <3>5 DEF SummaryOf
  <2>3. QED
    BY <2>1, <2>2
<1>4. ASSUME NEW d, d # c PROVE SummaryOf(all, d) = SummaryOf(rows, d)
  <2>1. Mine(all, d) = Mine(rows, d)
    BY <1>4 DEF Mine
  <2>2. QED
    BY <2>1 DEF SummaryOf, PricesOf
<1>5. DOMAIN sums \cup {c} = {InComplex[r] : r \in all}
  BY DEF AllSummaries
<1>6. AddRow(sums, n) = [d \in DOMAIN sums \cup {c} |-> IF d = c THEN next ELSE sums[d]]
  BY DEF AddRow
<1>7. \A d \in DOMAIN sums : sums[d] = SummaryOf(rows, d)
  BY DEF AllSummaries
<1> HIDE DEF next, s, sums, c, p, all
<1>8. AddRow(sums, n) = [d \in {InComplex[r] : r \in all} |-> SummaryOf(all, d)]
  BY <1>3, <1>4, <1>5, <1>6, <1>7
<1>9. QED
  BY <1>8 DEF AllSummaries, all, sums

Upto(rows, n) == {r \in rows : r <= n}
Before(rows, n) == {r \in rows : r < n}

LEMMA RowsBefore ==
  ASSUME NEW rows \in SUBSET Nat, NEW n \in Nat
  PROVE  /\ Before(rows, 0) = {} /\ Upto(rows, n) = Before(rows, n + 1)
         /\ Before(rows, n + 1) = Before(rows, n) \cup (rows \cap {n})
<1>1. \A r \in rows : r \in Nat /\ ~(r < 0) /\ (r <= n <=> r < n + 1)
                      /\ (r < n + 1 <=> r < n \/ r = n)
  OBVIOUS
<1>2. Before(rows, 0) = {} /\ Upto(rows, n) = Before(rows, n + 1)
  BY <1>1 DEF Before, Upto
<1>3. Before(rows, n + 1) = Before(rows, n) \cup (rows \cap {n})
  BY <1>1 DEF Before
<1>4. QED
  BY <1>2, <1>3

\* The stream of rows sums up to what a GROUP BY of all rows gives.
LEMMA SummariesAre ==
  ASSUME NEW rows \in SUBSET Articles
  PROVE  Summaries(rows) = AllSummaries(rows)
<1> DEFINE last == Max(rows \cup {0})
           Step(after, n) ==
             LET before == IF n = 0 THEN <<>> ELSE after[n - 1]
             IN  IF n \in rows THEN AddRow(before, n) ELSE before
           Runs(after) == after = [n \in 0..last |-> Step(after, n)]
           right == [n \in 0..last |-> AllSummaries(Upto(rows, n))]
<1>1. /\ last \in Nat /\ \A r \in rows : r <= last
  <2>0. Articles \in SUBSET Nat /\ IsFiniteSet(Articles)
    BY ViewportAssumption
  <2>1. rows \cup {0} \in SUBSET Nat
    BY <2>0
  <2>2. IsFiniteSet(rows)
    BY <2>0, FS_Subset
  <2>3. IsFiniteSet(rows \cup {0})
    BY <2>2, FS_AddElement
  <2>4. QED
    BY <2>1, <2>3, MaxIsGreatest
<1>2. Summaries(rows) = (CHOOSE after : Runs(after))[last]
  BY DEF Summaries
<1>3. right = [n \in 0..last |-> Step(right, n)]
  <2> SUFFICES ASSUME NEW n \in 0..last PROVE AllSummaries(Upto(rows, n)) = Step(right, n)
    OBVIOUS
  <2> DEFINE before == IF n = 0 THEN <<>> ELSE right[n - 1]
             earlier == Before(rows, n)
  <2>0. Articles \in SUBSET Nat /\ rows \in SUBSET Nat /\ n \in Nat
    BY ViewportAssumption
  <2>1. before = AllSummaries(earlier)
    <3>1. CASE n = 0
      <4>1. earlier = {}
        BY <2>0, <3>1, RowsBefore
      <4>2. AllSummaries({}) = <<>>
        BY DEF AllSummaries
      <4>3. QED
        BY <3>1, <4>1, <4>2
    <3>2. CASE n # 0
      <4>1. n - 1 \in 0..last /\ n - 1 \in Nat /\ (n - 1) + 1 = n
        BY <1>1, <3>2
      <4>4. Upto(rows, n - 1) = Before(rows, (n - 1) + 1)
        BY <2>0, <4>1, RowsBefore
      <4>2. Upto(rows, n - 1) = earlier
        BY <4>1, <4>4
      <4>3. QED
        BY <3>2, <4>1, <4>2
    <3>3. QED
      BY <3>1, <3>2
  <2> HIDE DEF before
  <2>2. CASE n \in rows
    <3>1. Upto(rows, n) = earlier \cup {n}
      BY <2>0, <2>2, RowsBefore
    <3>2. AddRow(AllSummaries(earlier), n) = AllSummaries(earlier \cup {n})
      BY <2>2, AddRowAdds DEF Before
    <3>3. Step(right, n) = AddRow(before, n)
      BY <2>2 DEF before
    <3> HIDE DEF Step
    <3>4. QED
      BY <2>1, <3>1, <3>2, <3>3
  <2>3. CASE n \notin rows
    <3>1. Upto(rows, n) = earlier
      <4>1. Upto(rows, n) = earlier \cup (rows \cap {n})
        BY <2>0, RowsBefore
      <4>2. rows \cap {n} = {}
        BY <2>3
      <4> HIDE DEF earlier
      <4>3. QED
        BY <4>1, <4>2
    <3>2. Step(right, n) = before
      BY <2>3 DEF before
    <3> HIDE DEF Step
    <3>3. QED
      BY <2>1, <3>1, <3>2
  <2>4. QED
    BY <2>2, <2>3
<1> DEFINE after == CHOOSE f : Runs(f)
<1>4. Runs(after)
  <2> HIDE DEF right, Step
  <2>1. Runs(right)
    BY <1>3
  <2> HIDE DEF Runs
  <2>2. QED
    BY <2>1
<1> HIDE DEF after
<1> DEFINE Good == {n \in Nat : n \in 0..last => after[n] = right[n]}
<1>5. \A n \in 0..last : after[n] = Step(after, n) /\ right[n] = Step(right, n)
  <2> HIDE DEF Step, right
  <2>1. QED
    BY <1>3, <1>4
<1>6. 0 \in Good
  <2>1. Step(after, 0) = Step(right, 0)
    OBVIOUS
  <2> HIDE DEF Step, right
  <2>2. QED
    BY <1>5, <2>1
<1>7. ASSUME NEW n \in Nat, n \in Good PROVE n + 1 \in Good
  <2> SUFFICES ASSUME n + 1 \in 0..last PROVE after[n + 1] = right[n + 1]
    OBVIOUS
  <2> HIDE DEF right
  <2>1. after[n] = right[n]
    BY <1>1, <1>7
  <2>2. (n + 1) - 1 = n /\ n + 1 # 0
    OBVIOUS
  <2>3. Step(after, n + 1) = Step(right, n + 1)
    BY <2>1, <2>2
  <2> HIDE DEF Step
  <2>4. QED
    BY <1>5, <2>3
<1> HIDE DEF Good
<1>8. last \in Good
  BY <1>1, <1>6, <1>7, NumbersByInduction
<1>9. after[last] = right[last]
  BY <1>1, <1>8 DEF Good
<1>10. Upto(rows, last) = rows
  BY <1>1 DEF Upto
<1>11. QED
  BY <1>1, <1>2, <1>9, <1>10 DEF after

-----------------------------------------------------------------------------
(* What clusters count.                                                     *)

ListingsOf(markers) == Sum(LAMBDA m : m.listings, markers)
ComplexesIn(clusters) == Sum(LAMBDA k : k.cluster.complexes, clusters)
ListingsIn(clusters) == Sum(LAMBDA k : k.cluster.listings, clusters)

\* The sums of the viewport, as sums of functions.
LEMMA ListingsAre ==
  ASSUME NEW M, IsFiniteSet(M), NEW f, \A m \in M : f[m] = m.listings
  PROVE  ListingsOf(M) = SumFunctionOnSet(f, M)
<1> DEFINE g == [m \in M |-> m.listings]
<1>1. ListingsOf(M) = SumFunctionOnSet(g, M)
  BY DEF ListingsOf, Sum, SumFunction
<1>2. \A m \in M : g[m] = f[m]
  OBVIOUS
<1> HIDE DEF g
<1>3. QED
  BY <1>1, <1>2, SumSame

LEMMA ListingsInAre ==
  ASSUME NEW G, IsFiniteSet(G), NEW f, \A k \in G : f[k] = k.cluster.listings
  PROVE  ListingsIn(G) = SumFunctionOnSet(f, G)
<1> DEFINE g == [k \in G |-> k.cluster.listings]
<1>1. ListingsIn(G) = SumFunctionOnSet(g, G)
  BY DEF ListingsIn, Sum, SumFunction
<1>2. \A k \in G : g[k] = f[k]
  OBVIOUS
<1> HIDE DEF g
<1>3. QED
  BY <1>1, <1>2, SumSame

LEMMA ComplexesInAre ==
  ASSUME NEW G, IsFiniteSet(G), NEW f, \A k \in G : f[k] = k.cluster.complexes
  PROVE  ComplexesIn(G) = SumFunctionOnSet(f, G)
<1> DEFINE g == [k \in G |-> k.cluster.complexes]
<1>1. ComplexesIn(G) = SumFunctionOnSet(g, G)
  BY DEF ComplexesIn, Sum, SumFunction
<1>2. \A k \in G : g[k] = f[k]
  OBVIOUS
<1> HIDE DEF g
<1>3. QED
  BY <1>1, <1>2, SumSame

LEMMA ClusterOfIs ==
  ASSUME NEW M
  PROVE  /\ ClusterOf(M).complexes = Cardinality(M) /\ ClusterOf(M).listings = ListingsOf(M)
         /\ ClusterOf(M).west = Min({m.at[1] : m \in M})
         /\ ClusterOf(M).south = Min({m.at[2] : m \in M})
BY DEF ClusterOf, ListingsOf

\* When each marker is in the cluster it counts for, the clusters count what the markers do.
LEMMA ClustersCountMarkers ==
  ASSUME NEW M, IsFiniteSet(M), \A m \in M : m.listings \in Nat,
         NEW h, NEW G, G = ImageOf(h, M),
         \A k \in G : k.cluster = ClusterOf(Group(M, h, k))
  PROVE  ComplexesIn(G) = Cardinality(M) /\ ListingsIn(G) = ListingsOf(M)
<1> DEFINE one == [m \in M |-> 1]
           listings == [m \in M |-> m.listings]
           complexesOf == [k \in G |-> k.cluster.complexes]
           listingsOf == [k \in G |-> k.cluster.listings]
<1>1. IsFiniteSet(G)
  BY ImageIsFinite
<1>2. ASSUME NEW k \in G
      PROVE  /\ complexesOf[k] = SumFunctionOnSet(one, Group(M, h, k))
             /\ listingsOf[k] = SumFunctionOnSet(listings, Group(M, h, k))
  <2>1. IsFiniteSet(Group(M, h, k)) /\ Group(M, h, k) \in SUBSET M
    BY FS_Subset DEF Group
  <2>2. k.cluster = ClusterOf(Group(M, h, k))
    OBVIOUS
  <2>3. /\ \A m \in Group(M, h, k) : one[m] = 1
        /\ \A m \in Group(M, h, k) : listings[m] = m.listings
    BY <2>1
  <2>4. complexesOf[k] = k.cluster.complexes /\ listingsOf[k] = k.cluster.listings
    OBVIOUS
  <2> HIDE DEF one, listings, complexesOf, listingsOf
  <2>5. SumFunctionOnSet(one, Group(M, h, k)) = Cardinality(Group(M, h, k))
    BY <2>1, <2>3, SumOfOnes
  <2>6. SumFunctionOnSet(listings, Group(M, h, k)) = ListingsOf(Group(M, h, k))
    BY <2>1, <2>3, ListingsAre
  <2>7. QED
    BY <2>2, <2>4, <2>5, <2>6, ClusterOfIs
<1>3. (\A m \in M : h[m] \in G /\ one[m] = 1 /\ one[m] \in Nat)
      /\ \A m \in M : listings[m] \in Nat /\ listings[m] = m.listings
  BY DEF ImageOf
<1>4. \A k \in G : complexesOf[k] = k.cluster.complexes /\ listingsOf[k] = k.cluster.listings
  OBVIOUS
<1> HIDE DEF one, listings, complexesOf, listingsOf
<1>5. SumFunctionOnSet(complexesOf, G) = SumFunctionOnSet(one, M)
  <2>1. \A m \in M : one[m] \in Nat
    BY <1>3
  <2>2. \A m \in M : h[m] \in G
    BY <1>3
  <2>3. \A k \in G : complexesOf[k] = SumFunctionOnSet(one, Group(M, h, k))
    BY <1>2
  <2>4. QED
    BY ONLY IsFiniteSet(M), <1>1, <2>1, <2>2, <2>3, SumByGroups
<1>6. SumFunctionOnSet(listingsOf, G) = SumFunctionOnSet(listings, M)
  <2>1. \A m \in M : listings[m] \in Nat
    BY <1>3
  <2>2. \A m \in M : h[m] \in G
    BY <1>3
  <2>3. \A k \in G : listingsOf[k] = SumFunctionOnSet(listings, Group(M, h, k))
    BY <1>2
  <2>4. QED
    BY ONLY IsFiniteSet(M), <1>1, <2>1, <2>2, <2>3, SumByGroups
<1>7. SumFunctionOnSet(one, M) = Cardinality(M)
  BY <1>3, SumOfOnes
<1>8. SumFunctionOnSet(listings, M) = ListingsOf(M)
  BY <1>3, ListingsAre
<1>9. ComplexesIn(G) = SumFunctionOnSet(complexesOf, G)
  BY <1>1, <1>4, ComplexesInAre
<1>10. ListingsIn(G) = SumFunctionOnSet(listingsOf, G)
  BY <1>1, <1>4, ListingsInAre
<1>11. QED
  BY <1>5, <1>6, <1>7, <1>8, <1>9, <1>10

LEMMA ListingsAdd ==
  ASSUME NEW A, IsFiniteSet(A), NEW B, IsFiniteSet(B), A \cap B = {},
         \A m \in A \cup B : m.listings \in Nat
  PROVE  /\ ListingsOf(A \cup B) = ListingsOf(A) + ListingsOf(B)
         /\ Cardinality(A \cup B) = Cardinality(A) + Cardinality(B)
<1> DEFINE f == [m \in A \cup B |-> m.listings]
<1>1. \A m \in A \cup B : f[m] = m.listings /\ f[m] \in Nat
  OBVIOUS
<1>2. IsFiniteSet(A \cup B) /\ Cardinality(A \cup B) = Cardinality(A) + Cardinality(B)
  <2>1. IsFiniteSet(A \cup B)
        /\ Cardinality(A \cup B) = Cardinality(A) + Cardinality(B) - Cardinality(A \cap B)
    BY FS_Union
  <2>2. Cardinality(A \cap B) = 0 /\ Cardinality(A) \in Nat /\ Cardinality(B) \in Nat
    BY FS_EmptySet, FS_CardinalityType
  <2>3. QED
    BY <2>1, <2>2
<1> HIDE DEF f
<1>3. ListingsOf(A \cup B) = SumFunctionOnSet(f, A \cup B)
  BY <1>1, <1>2, ListingsAre
<1>4. ListingsOf(A) = SumFunctionOnSet(f, A) /\ ListingsOf(B) = SumFunctionOnSet(f, B)
  BY <1>1, ListingsAre
<1>5. SumFunctionOnSet(f, A \cup B) = SumFunctionOnSet(f, A) + SumFunctionOnSet(f, B)
  BY <1>1, SumDisjoint
<1>6. QED
  BY <1>2, <1>3, <1>4, <1>5

-----------------------------------------------------------------------------
(* Regions and cells.                                                       *)

Clusters(M, key) ==
  {[code |-> code, cluster |-> ClusterOf({m \in M : key[m] = code})] : code \in {key[m] : m \in M}}

\* One cluster per region counts every marker once.
LEMMA RegionsCountMarkers ==
  ASSUME NEW M, IsFiniteSet(M), \A m \in M : m.listings \in Nat, NEW key
  PROVE  ComplexesIn(Clusters(M, key)) = Cardinality(M)
         /\ ListingsIn(Clusters(M, key)) = ListingsOf(M)
<1> DEFINE Region1(code) == [code |-> code, cluster |-> ClusterOf({m \in M : key[m] = code})]
           h == [m \in M |-> Region1(key[m])]
           G == Clusters(M, key)
<1>1. G = ImageOf(h, M)
  BY DEF Clusters, ImageOf
<1>2. ASSUME NEW k \in G PROVE k.cluster = ClusterOf(Group(M, h, k))
  <2>1. PICK n \in M : k = Region1(key[n])
    BY <1>1 DEF ImageOf
  <2>2. k.code = key[n] /\ k.cluster = ClusterOf({m \in M : key[m] = key[n]})
    BY <2>1
  <2>3. \A m \in M : h[m].code = key[m] /\ (key[m] = key[n] => h[m] = k)
    BY <2>1
  <2> HIDE DEF h
  <2>4. Group(M, h, k) = {m \in M : key[m] = key[n]}
    BY <2>2, <2>3 DEF Group
  <2>5. QED
    BY <2>2, <2>4
<1> HIDE DEF h, G
<1>3. ComplexesIn(G) = Cardinality(M) /\ ListingsIn(G) = ListingsOf(M)
  BY <1>1, <1>2, ClustersCountMarkers
<1>4. QED
  BY <1>3 DEF G

\* So do clusters of cells, with the markers that stand alone.
LEMMA CellsCountMarkers ==
  ASSUME NEW M, IsFiniteSet(M), NEW zoom,
         \A m \in M : m.listings \in Nat /\ m.at \in Nat \X Nat
  PROVE  LET v == cluster_map_complexes(M, zoom)
         IN  /\ Cardinality(v.markers) + ComplexesIn(v.clusters) = Cardinality(M)
             /\ ListingsOf(v.markers) + ListingsIn(v.clusters) = ListingsOf(M)
<1> DEFINE size == map_cell_size(zoom)
           cell(m) == <<m.at[1] \div size, m.at[2] \div size>>
           of(n) == {m \in M : cell(m) = cell(n)}
           cells == {{m \in M : cell(m) = k} : k \in {cell(m) : m \in M}}
           alone == UNION {ms \in cells : Cardinality(ms) = 1}
           crowd == {m \in M : Cardinality(of(m)) > 1}
           h == [m \in crowd |-> [code |-> 0, cluster |-> ClusterOf(of(m))]]
           G == {[code |-> 0, cluster |-> ClusterOf(ms)] : ms \in {ms \in cells : Cardinality(ms) > 1}}
<1>1. cells = {of(m) : m \in M}
  OBVIOUS
<1>2. \A m \in M : m \in of(m) /\ of(m) \in SUBSET M /\ (\A n \in of(m) : of(n) = of(m))
  OBVIOUS
<1>3. \A m \in M : Cardinality(of(m)) \in Nat /\ Cardinality(of(m)) # 0
  BY <1>2, FS_Subset, FS_CardinalityType, FS_EmptySet
<1>4. cluster_map_complexes(M, zoom).markers = alone
      /\ cluster_map_complexes(M, zoom).clusters = G
  BY DEF cluster_map_complexes
<1>5. ASSUME NEW a \in M, NEW b \in M, ClusterOf(of(a)) = ClusterOf(of(b)) PROVE of(a) = of(b)
  <2> DEFINE xs(ms) == {m.at[1] : m \in ms}
             ys(ms) == {m.at[2] : m \in ms}
  <2>1. ASSUME NEW n \in M
        PROVE  Min(xs(of(n))) \in xs(of(n)) /\ Min(ys(of(n))) \in ys(of(n))
    <3>1. n.at[1] \in xs(of(n)) /\ n.at[2] \in ys(of(n))
      BY <1>2
    <3>2. xs(of(n)) \in SUBSET Nat /\ ys(of(n)) \in SUBSET Nat
      BY <1>2
    <3> HIDE DEF xs, ys
    <3>3. QED
      BY <3>1, <3>2, MinIsLeast
  <2>2. Min(xs(of(a))) = Min(xs(of(b))) /\ Min(ys(of(a))) = Min(ys(of(b)))
    BY <1>5, ClusterOfIs
  <2>3. PICK p \in of(a), q \in of(b) : p.at[1] = q.at[1]
    BY <2>1, <2>2
  <2>4. PICK r \in of(a), s \in of(b) : r.at[2] = s.at[2]
    BY <2>1, <2>2
  <2>5. cell(p) = cell(a) /\ cell(r) = cell(a) /\ cell(q) = cell(b) /\ cell(s) = cell(b)
    OBVIOUS
  <2>6. cell(p)[1] = cell(q)[1] /\ cell(r)[2] = cell(s)[2]
    BY <2>3, <2>4
  <2>7. cell(a) = <<cell(a)[1], cell(a)[2]>> /\ cell(b) = <<cell(b)[1], cell(b)[2]>>
    OBVIOUS
  <2> HIDE DEF cell
  <2>8. cell(a) = cell(b)
    BY <2>5, <2>6, <2>7
  <2>9. QED
    BY <2>8
<1> HIDE DEF cell
<1>6. alone = {m \in M : Cardinality(of(m)) = 1}
  <2>1. \A m \in alone : m \in M /\ Cardinality(of(m)) = 1
    BY <1>1, <1>2
  <2>2. \A m \in M : Cardinality(of(m)) = 1 => m \in alone
    BY <1>1, <1>2
  <2>3. QED
    BY <2>1, <2>2
<1>7. alone \cup crowd = M /\ alone \cap crowd = {} /\ IsFiniteSet(alone) /\ IsFiniteSet(crowd)
  <2>1. \A m \in M : Cardinality(of(m)) = 1 \/ Cardinality(of(m)) > 1
    BY <1>3
  <2>2. \A m \in M : ~(Cardinality(of(m)) = 1 /\ Cardinality(of(m)) > 1)
    BY <1>3
  <2> HIDE DEF of, alone
  <2>3. alone \in SUBSET M /\ crowd \in SUBSET M
    BY <1>6
  <2>4. QED
    BY <1>6, <2>1, <2>2, <2>3, FS_Subset
<1>8. G = ImageOf(h, crowd)
  <2>1. {ms \in cells : Cardinality(ms) > 1} = {of(m) : m \in crowd}
    BY <1>1
  <2>2. \A m \in crowd : h[m] = [code |-> 0, cluster |-> ClusterOf(of(m))]
    OBVIOUS
  <2>3. G = {[code |-> 0, cluster |-> ClusterOf(ms)] : ms \in {of(m) : m \in crowd}}
    BY <2>1
  <2> HIDE DEF h, of, cells, crowd, G
  <2>4. \A m \in crowd : h[m] \in G
    BY <2>2, <2>3
  <2>5. \A k \in G : \E m \in crowd : k = h[m]
    BY <2>2, <2>3
  <2>6. QED
    BY <2>4, <2>5 DEF ImageOf
<1>9. ASSUME NEW k \in G PROVE k.cluster = ClusterOf(Group(crowd, h, k))
  <2>1. PICK n \in crowd : k = [code |-> 0, cluster |-> ClusterOf(of(n))]
    BY <1>8 DEF ImageOf
  <2>2. \A m \in crowd : h[m] = k => of(m) = of(n)
    BY <1>5, <2>1
  <2>3. \A m \in of(n) : m \in crowd /\ h[m] = k
    BY <1>2, <2>1
  <2>4. \A m \in crowd : of(m) = of(n) => m \in of(n)
    BY <1>2
  <2>5. Group(crowd, h, k) = of(n)
    BY <2>2, <2>3, <2>4 DEF Group
  <2>6. QED
    BY <2>1, <2>5
<1> HIDE DEF h, G, crowd, alone, cells, of
<1>10. \A m \in crowd : m.listings \in Nat
  BY <1>7
<1>11. ComplexesIn(G) = Cardinality(crowd) /\ ListingsIn(G) = ListingsOf(crowd)
  BY <1>7, <1>8, <1>9, <1>10, ClustersCountMarkers
<1>12. /\ ListingsOf(M) = ListingsOf(alone) + ListingsOf(crowd)
       /\ Cardinality(M) = Cardinality(alone) + Cardinality(crowd)
  BY <1>7, ListingsAdd
<1>13. QED
  BY <1>4, <1>11, <1>12

-----------------------------------------------------------------------------
(* The markers.                                                             *)

Ids(rows) == {InComplex[r] : r \in rows}
ShownIds(rows) == {c \in Ids(rows) : Located(c)}
MarkersOf(rows) == {Aggregate(rows, c) : c \in ShownIds(rows)}
ShownRows(rows) == {r \in rows : Located(InComplex[r])}

LEMMA AggregateIs ==
  ASSUME NEW rows, NEW c
  PROVE  /\ Aggregate(rows, c).complex = c /\ Aggregate(rows, c).at = complex[c].at
         /\ Aggregate(rows, c).listings = Cardinality(Mine(rows, c))
         /\ Aggregate(rows, c).region = Region[c]
BY DEF Aggregate, Marker, Mine

LEMMA IdsAre ==
  ASSUME NEW rows \in SUBSET Articles
  PROVE  /\ IsFiniteSet(rows) /\ IsFiniteSet(Ids(rows)) /\ IsFiniteSet(ShownIds(rows))
         /\ IsFiniteSet(ShownRows(rows)) /\ Ids(rows) \in SUBSET Complexes
         /\ Ids(ShownRows(rows)) = ShownIds(rows)
         /\ Ids(rows \ ShownRows(rows)) = Ids(rows) \ ShownIds(rows)
<1>1. IsFiniteSet(rows) /\ \A r \in rows : InComplex[r] \in Complexes
  BY ViewportAssumption, FS_Subset
<1>2. IsFiniteSet(Ids(rows))
  BY <1>1, ImageIsFinite DEF Ids, ImageOf
<1>3. IsFiniteSet(ShownIds(rows)) /\ IsFiniteSet(ShownRows(rows))
  BY <1>1, <1>2, FS_Subset DEF ShownIds, ShownRows
<1>4. Ids(ShownRows(rows)) = ShownIds(rows)
      /\ Ids(rows \ ShownRows(rows)) = Ids(rows) \ ShownIds(rows)
  BY DEF Ids, ShownIds, ShownRows
<1>5. QED
  BY <1>1, <1>2, <1>3, <1>4 DEF Ids

\* The markers of the rows: one per located complex, counting its rows.
LEMMA MarkersAre ==
  ASSUME SweepInv, NEW rows \in SUBSET Articles, NEW M, M = MarkersOf(rows)
  PROVE  /\ IsFiniteSet(M)
         /\ \A m \in M : /\ m.listings \in Nat /\ m.at \in Nat \X Nat
                         /\ m.complex \in ShownIds(rows) /\ m = Aggregate(rows, m.complex)
         /\ ListingsOf(M) = Cardinality(ShownRows(rows))
         /\ Cardinality(M) = Cardinality(ShownIds(rows))
<1> DEFINE ids == ShownIds(rows)
           f == [c \in ids |-> Aggregate(rows, c)]
<1>1. \A m \in M : m.complex \in ids /\ m = Aggregate(rows, m.complex)
  BY AggregateIs DEF MarkersOf
<1>2. \A m \in M : m.listings \in Nat /\ m.at \in Nat \X Nat
  <2> SUFFICES ASSUME NEW m \in M PROVE m.listings \in Nat /\ m.at \in Nat \X Nat
    OBVIOUS
  <2> DEFINE c == m.complex
  <2>1. c \in Complexes /\ Located(c) /\ m = Aggregate(rows, c)
    BY <1>1, IdsAre DEF ShownIds
  <2>2. complex[c].at \in Nat \X Nat
    BY <2>1 DEF Located, SweepInv, SweepTypeOK
  <2>3. Cardinality(Mine(rows, c)) \in Nat
    BY MineIs
  <2> HIDE DEF c
  <2>4. QED
    BY <2>1, <2>2, <2>3, AggregateIs
<1>3. IsFiniteSet(M) /\ Cardinality(M) = Cardinality(ids)
  <2>1. f \in Bijection(ids, M)
    <3>1. f \in [ids -> M] /\ \A m \in M : \E c \in ids : f[c] = m
      BY DEF MarkersOf
    <3>2. \A c \in ids : f[c].complex = c
      BY AggregateIs
    <3> HIDE DEF f, ids
    <3>3. \A c, d \in ids : f[c] = f[d] => c = d
      BY <3>2
    <3>4. f \in Injection(ids, M)
      BY <3>1, <3>3 DEF Injection, IsInjective
    <3>5. f \in Surjection(ids, M)
      BY <3>1 DEF Surjection
    <3>6. QED
      BY <3>4, <3>5 DEF Bijection
  <2>2. IsFiniteSet(ids) /\ ExistsBijection(ids, M)
    BY <2>1, IdsAre DEF ExistsBijection
  <2>3. QED
    BY <2>2, FS_Bijection
<1>4. ListingsOf(M) = Cardinality(ShownRows(rows))
  <2> DEFINE S == ShownRows(rows)
             one == [r \in S |-> 1]
             h == [r \in S |-> Aggregate(rows, InComplex[r])]
             g == [m \in M |-> m.listings]
  <2>1. \A r \in S : h[r] \in M
    BY DEF MarkersOf, ShownIds, ShownRows, Ids
  <2>2. ASSUME NEW m \in M PROVE g[m] = SumFunctionOnSet(one, Group(S, h, m))
    <3> DEFINE c == m.complex
    <3>1. m = Aggregate(rows, c) /\ Located(c)
      BY <1>1 DEF ShownIds
    <3>2. \A r \in S : h[r].complex = InComplex[r]
      BY AggregateIs
    <3>3. \A r \in S : InComplex[r] = c => h[r] = m
      BY <3>1
    <3>4. \A r \in rows : InComplex[r] = c => r \in S
      BY <3>1 DEF ShownRows
    <3>5. S \in SUBSET rows
      BY DEF ShownRows
    <3> HIDE DEF S, h
    <3>6. Group(S, h, m) = Mine(rows, c)
      BY <3>2, <3>3, <3>4, <3>5 DEF Group, Mine
    <3>7. IsFiniteSet(Mine(rows, c)) /\ \A r \in Mine(rows, c) : one[r] = 1
      BY <3>4, MineIs DEF Mine
    <3>8. SumFunctionOnSet(one, Mine(rows, c)) = Cardinality(Mine(rows, c))
      <4> HIDE DEF one
      <4>1. QED
        BY <3>7, SumOfOnes
    <3>9. g[m] = Cardinality(Mine(rows, c))
      BY <3>1, AggregateIs
    <3>10. QED
      BY <3>6, <3>8, <3>9
  <2>3. (\A r \in S : one[r] = 1) /\ (\A r \in S : one[r] \in Nat)
        /\ (\A m \in M : g[m] = m.listings)
    OBVIOUS
  <2>4. IsFiniteSet(S)
    BY IdsAre
  <2> HIDE DEF S, one, h, g
  <2>5. SumFunctionOnSet(g, M) = SumFunctionOnSet(one, S)
    BY <1>3, <2>1, <2>2, <2>3, <2>4, SumByGroups
  <2>6. SumFunctionOnSet(one, S) = Cardinality(S)
    BY <2>3, <2>4, SumOfOnes
  <2>7. ListingsOf(M) = SumFunctionOnSet(g, M)
    BY <1>3, <2>3, ListingsAre
  <2>8. QED
    BY <2>5, <2>6, <2>7 DEF S
<1>5. QED
  BY <1>1, <1>2, <1>3, <1>4

-----------------------------------------------------------------------------
(* One viewport, built in two ways.                                         *)

LEMMA ModeIs ==
  ASSUME NEW zoom \in Zooms, NEW mode, mode = map_viewport_mode(zoom)
  PROVE  \/ mode \in {"sido", "sigungu"}
         \/ mode = "clusters" \/ mode = "markers"
<1>1. zoom \in 0..21
  BY ViewportAssumption
<1>2. QED
  BY <1>1 DEF map_viewport_mode

LEMMA EmptySums == ListingsOf({}) = 0 /\ ListingsIn({}) = 0 /\ ComplexesIn({}) = 0
<1> DEFINE f == [x \in {} |-> 0]
<1>1. IsFiniteSet({}) /\ SumFunctionOnSet(f, {}) = 0
  BY FS_EmptySet, SumEmpty
<1> HIDE DEF f
<1>2. QED
  BY <1>1, ListingsAre, ListingsInAre, ComplexesInAre

\* The region of each marker.
Keys(M, mode) == [m \in M |-> Region[m.complex][mode]]

LEMMA SqlRegionViewportIs ==
  ASSUME NEW M, NEW mode, NEW matching
  PROVE  SqlRegionViewport(mode, M, matching)
           = Viewport(mode, {}, Clusters(M, Keys(M, mode)), matching,
                      ComplexesIn(Clusters(M, Keys(M, mode))), ListingsIn(Clusters(M, Keys(M, mode))))
<1> DEFINE region(m) == Region[m.complex][mode]
           clusters == {[code |-> code, cluster |-> ClusterOf({m \in M : region(m) = code})]
                          : code \in {region(m) : m \in M}}
<1>1. clusters = Clusters(M, Keys(M, mode))
  BY DEF Clusters, Keys
<1>2. SqlRegionViewport(mode, M, matching)
        = Viewport(mode, {}, clusters, matching, ComplexesIn(clusters), ListingsIn(clusters))
  BY DEF SqlRegionViewport, ComplexesIn, ListingsIn
<1>3. QED
  BY <1>1, <1>2

\* The page built in SQL, and the one built from the stream, mode by mode.
LEMMA SqlViewportIs ==
  ASSUME SweepInv, NEW rows \in SUBSET Articles, NEW zoom,
         NEW M, M = MarkersOf(rows), NEW mode, mode = map_viewport_mode(zoom),
         NEW total, total = Cardinality(Ids(rows))
  PROVE  /\ mode \in {"sido", "sigungu"} =>
              SqlViewport(rows, zoom) = Viewport(mode, {}, Clusters(M, Keys(M, mode)), total,
                                                 Cardinality(M), ListingsOf(M))
         /\ mode = "clusters" =>
              SqlViewport(rows, zoom) = Viewport(mode, cluster_map_complexes(M, zoom).markers,
                                                 cluster_map_complexes(M, zoom).clusters, total,
                                                 Cardinality(M), ListingsOf(M))
         /\ mode = "markers" =>
              SqlViewport(rows, zoom) = Viewport(mode, M, {}, total, Cardinality(M), ListingsOf(M))
<1>1. MarkersOf(rows) = {Aggregate(rows, c) : c \in {d \in {InComplex[r] : r \in rows} : Located(d)}}
      /\ Ids(rows) = {InComplex[r] : r \in rows}
  BY DEF MarkersOf, ShownIds, Ids
<1>2. SqlViewport(rows, zoom) =
        IF mode \in {"sido", "sigungu"} THEN SqlRegionViewport(mode, M, total)
        ELSE IF mode = "clusters"
             THEN Viewport(mode, cluster_map_complexes(M, zoom).markers,
                           cluster_map_complexes(M, zoom).clusters, total,
                           Cardinality(M), ListingsOf(M))
             ELSE Viewport(mode, M, {}, total, Cardinality(M), ListingsOf(M))
  BY <1>1 DEF SqlViewport, ListingsOf
<1>3. ComplexesIn(Clusters(M, Keys(M, mode))) = Cardinality(M)
      /\ ListingsIn(Clusters(M, Keys(M, mode))) = ListingsOf(M)
  BY MarkersAre, RegionsCountMarkers
<1>4. QED
  BY <1>2, <1>3, SqlRegionViewportIs

LEMMA StreamViewportIs ==
  ASSUME SweepInv, NEW rows \in SUBSET Articles, NEW zoom,
         NEW M, M = MarkersOf(rows), NEW mode, mode = map_viewport_mode(zoom),
         NEW total, total = Cardinality(Ids(rows))
  PROVE  /\ mode \in {"sido", "sigungu"} =>
              StreamViewport(rows, zoom) = Viewport(mode, {}, Clusters(M, Keys(M, mode)), total,
                                                    Cardinality(M), ListingsOf(M))
         /\ mode = "clusters" =>
              StreamViewport(rows, zoom) = Viewport(mode, cluster_map_complexes(M, zoom).markers,
                                                    cluster_map_complexes(M, zoom).clusters, total,
                                                    Cardinality(M), ListingsOf(M))
         /\ mode = "markers" =>
              StreamViewport(rows, zoom) = Viewport(mode, M, {}, total, Cardinality(M), ListingsOf(M))
<1> DEFINE sums == Summaries(rows)
           located == {Marker(c, sums[c].text, sums[c].count, sums[c].min, sums[c].max)
                         : c \in {d \in DOMAIN sums : Located(d)}}
<1>1. DOMAIN sums = Ids(rows) /\ \A c \in Ids(rows) : sums[c] = SummaryOf(rows, c)
  BY SummariesAre DEF AllSummaries, Ids
<1>2. \A c \in Ids(rows) : Marker(c, sums[c].text, sums[c].count, sums[c].min, sums[c].max)
                             = Aggregate(rows, c)
  <2> SUFFICES ASSUME NEW c \in Ids(rows)
               PROVE Marker(c, sums[c].text, sums[c].count, sums[c].min, sums[c].max)
                       = Aggregate(rows, c)
    OBVIOUS
  <2>1. /\ sums[c].text = Min(Mine(rows, c)) /\ sums[c].count = Cardinality(Mine(rows, c))
        /\ sums[c].min = Min(PricesOf(rows, c)) /\ sums[c].max = Max(PricesOf(rows, c))
    BY <1>1 DEF SummaryOf
  <2> HIDE DEF sums
  <2>2. QED
    BY <2>1 DEF Aggregate, Mine, PricesOf
<1>3. located = M
  <2> HIDE DEF sums
  <2>1. QED
    BY <1>1, <1>2 DEF MarkersOf, ShownIds
<1>4. StreamViewport(rows, zoom) =
        LET shape == CASE mode = "clusters" -> cluster_map_complexes(M, zoom)
                       [] mode = "markers" -> [markers |-> M, clusters |-> {}]
                       [] OTHER -> [markers |-> {}, clusters |-> aggregate_map_regions(M, mode)]
        IN  Viewport(mode, shape.markers, shape.clusters, total, Cardinality(M), ListingsOf(M))
  <2>1. StreamViewport(rows, zoom) =
          LET shape == CASE mode = "clusters" -> cluster_map_complexes(located, zoom)
                         [] mode = "markers" -> [markers |-> located, clusters |-> {}]
                         [] OTHER -> [markers |-> {},
                                      clusters |-> aggregate_map_regions(located, mode)]
          IN  Viewport(mode, shape.markers, shape.clusters, Cardinality(DOMAIN sums),
                       Cardinality(located), ListingsOf(located))
    BY DEF StreamViewport, ListingsOf
  <2> HIDE DEF located, sums
  <2>2. QED
    BY <1>1, <1>3, <2>1
<1>5. aggregate_map_regions(M, mode) = Clusters(M, Keys(M, mode))
  <2>1. \A m \in M : m.region[mode] = Keys(M, mode)[m]
    BY MarkersAre, AggregateIs DEF Keys
  <2>2. {m.region[mode] : m \in M} = {Keys(M, mode)[m] : m \in M}
    BY <2>1
  <2>3. \A code : {m \in M : m.region[mode] = code} = {m \in M : Keys(M, mode)[m] = code}
    BY <2>1
  <2> DEFINE one(code) == [code |-> code, cluster |-> ClusterOf({m \in M : m.region[mode] = code})]
             other(code) == [code |-> code,
                             cluster |-> ClusterOf({m \in M : Keys(M, mode)[m] = code})]
  <2>4. \A code : one(code) = other(code)
    BY <2>3
  <2>5. aggregate_map_regions(M, mode) = {one(code) : code \in {m.region[mode] : m \in M}}
    BY DEF aggregate_map_regions
  <2>6. Clusters(M, Keys(M, mode)) = {other(code) : code \in {Keys(M, mode)[m] : m \in M}}
    BY DEF Clusters
  <2> HIDE DEF one, other
  <2>7. {one(code) : code \in {m.region[mode] : m \in M}}
          = {other(code) : code \in {m.region[mode] : m \in M}}
    BY <2>4
  <2>8. QED
    BY <2>2, <2>5, <2>6, <2>7
<1>6. QED
  BY <1>4, <1>5

\* The three properties, from the invariant.
LEMMA ViewportsAgree ==
  ASSUME SweepInv, listed \in SUBSET Articles
  PROVE  SqlAndStreamAgree
<1> SUFFICES ASSUME NEW zoom \in Zooms
             PROVE SqlViewport(listed, zoom) = StreamViewport(listed, zoom)
  BY DEF SqlAndStreamAgree
<1> DEFINE mode == map_viewport_mode(zoom)
           M == MarkersOf(listed)
           total == Cardinality(Ids(listed))
           page(markers, clusters) ==
             Viewport(mode, markers, clusters, total, Cardinality(M), ListingsOf(M))
<1>1. mode \in {"sido", "sigungu"} \/ mode = "clusters" \/ mode = "markers"
  BY ModeIs
<1>2. CASE mode \in {"sido", "sigungu"}
  <2>1. SqlViewport(listed, zoom) = page({}, Clusters(M, Keys(M, mode)))
    BY <1>2, SqlViewportIs
  <2>2. StreamViewport(listed, zoom) = page({}, Clusters(M, Keys(M, mode)))
    BY <1>2, StreamViewportIs
  <2>3. QED
    BY <2>1, <2>2
<1>3. CASE mode = "clusters"
  <2> DEFINE cells == cluster_map_complexes(M, zoom)
  <2>1. SqlViewport(listed, zoom) = page(cells.markers, cells.clusters)
    BY <1>3, SqlViewportIs
  <2>2. StreamViewport(listed, zoom) = page(cells.markers, cells.clusters)
    BY <1>3, StreamViewportIs
  <2>3. QED
    BY <2>1, <2>2
<1>4. CASE mode = "markers"
  <2>1. SqlViewport(listed, zoom) = page(M, {})
    BY <1>4, SqlViewportIs
  <2>2. StreamViewport(listed, zoom) = page(M, {})
    BY <1>4, StreamViewportIs
  <2>3. QED
    BY <2>1, <2>2
<1>5. QED
  BY <1>1, <1>2, <1>3, <1>4

LEMMA ViewportLosesNothing ==
  ASSUME SweepInv, listed \in SUBSET Articles
  PROVE  NothingIsLostOnTheMap
<1> SUFFICES ASSUME NEW zoom \in Zooms
             PROVE LET v == SqlViewport(listed, zoom)
                       known == ShownRows(listed)
                       missing == {InComplex[r] : r \in listed \ known}
                   IN  /\ ListingsOf(v.markers) + ListingsIn(v.clusters) = Cardinality(known)
                       /\ v.listings = Cardinality(known)
                       /\ Cardinality(v.markers) + ComplexesIn(v.clusters)
                            = Cardinality({InComplex[r] : r \in known})
                       /\ v.unmapped = Cardinality(missing)
  BY DEF NothingIsLostOnTheMap, ListingsOf, ListingsIn, ComplexesIn, ShownRows
<1> DEFINE M == MarkersOf(listed)
           mode == map_viewport_mode(zoom)
           v == SqlViewport(listed, zoom)
           total == Cardinality(Ids(listed))
           cells == cluster_map_complexes(M, zoom)
           regions == Clusters(M, Keys(M, mode))
<1>1. mode \in {"sido", "sigungu"} \/ mode = "clusters" \/ mode = "markers"
  BY ModeIs
<1>2. /\ IsFiniteSet(M) /\ \A m \in M : m.listings \in Nat /\ m.at \in Nat \X Nat
      /\ ListingsOf(M) = Cardinality(ShownRows(listed))
      /\ Cardinality(M) = Cardinality(ShownIds(listed))
  BY MarkersAre
<1>3. Cardinality(M) \in Nat /\ ListingsOf(M) \in Nat
  BY <1>2, IdsAre, FS_CardinalityType
<1>4. /\ v.listings = ListingsOf(M) /\ v.unmapped = total - Cardinality(M)
      /\ ListingsOf(v.markers) + ListingsIn(v.clusters) = ListingsOf(M)
      /\ Cardinality(v.markers) + ComplexesIn(v.clusters) = Cardinality(M)
  <2>1. CASE mode \in {"sido", "sigungu"}
    <3>1. v = Viewport(mode, {}, regions, total, Cardinality(M), ListingsOf(M))
      BY <2>1, SqlViewportIs
    <3>2. ComplexesIn(regions) = Cardinality(M) /\ ListingsIn(regions) = ListingsOf(M)
      BY <1>2, RegionsCountMarkers
    <3> HIDE DEF v, regions, M, mode, total
    <3>3. v.markers = {} /\ v.clusters = regions /\ v.listings = ListingsOf(M)
          /\ v.unmapped = total - Cardinality(M)
      BY <3>1 DEF Viewport
    <3>4. QED
      BY <1>3, <3>2, <3>3, EmptySums, FS_EmptySet
  <2>2. CASE mode = "clusters"
    <3>1. v = Viewport(mode, cells.markers, cells.clusters, total, Cardinality(M), ListingsOf(M))
      BY <2>2, SqlViewportIs
    <3>2. /\ Cardinality(cells.markers) + ComplexesIn(cells.clusters) = Cardinality(M)
          /\ ListingsOf(cells.markers) + ListingsIn(cells.clusters) = ListingsOf(M)
      BY <1>2, CellsCountMarkers
    <3> HIDE DEF v, cells, M, mode, total
    <3>3. v.markers = cells.markers /\ v.clusters = cells.clusters /\ v.listings = ListingsOf(M)
          /\ v.unmapped = total - Cardinality(M)
      BY <3>1 DEF Viewport
    <3>4. QED
      BY <3>2, <3>3
  <2>3. CASE mode = "markers"
    <3>1. v = Viewport(mode, M, {}, total, Cardinality(M), ListingsOf(M))
      BY <2>3, SqlViewportIs
    <3> HIDE DEF v, M, mode, total
    <3>2. v.markers = M /\ v.clusters = {} /\ v.listings = ListingsOf(M)
          /\ v.unmapped = total - Cardinality(M)
      BY <3>1 DEF Viewport
    <3>3. QED
      BY <1>3, <3>2, EmptySums
  <2>4. QED
    BY <1>1, <2>1, <2>2, <2>3
<1>5. total - Cardinality(ShownIds(listed)) = Cardinality(Ids(listed) \ ShownIds(listed))
  <2>1. ShownIds(listed) \in SUBSET Ids(listed) /\ IsFiniteSet(Ids(listed))
    BY IdsAre DEF ShownIds
  <2>2. Ids(listed) \cap ShownIds(listed) = ShownIds(listed)
    BY <2>1
  <2>3. Cardinality(Ids(listed) \ ShownIds(listed))
          = Cardinality(Ids(listed)) - Cardinality(Ids(listed) \cap ShownIds(listed))
    BY <2>1, FS_Difference
  <2>4. QED
    BY <2>2, <2>3
<1>6. {InComplex[r] : r \in ShownRows(listed)} = ShownIds(listed)
      /\ {InComplex[r] : r \in listed \ ShownRows(listed)} = Ids(listed) \ ShownIds(listed)
  BY IdsAre DEF Ids
<1> HIDE DEF v, M, mode, total
<1>7. QED
  BY <1>2, <1>4, <1>5, <1>6 DEF v

LEMMA MarkersStandRight ==
  ASSUME SweepInv, listed \in SUBSET Articles
  PROVE  MarkersStandAtTheirAddress
<1> SUFFICES ASSUME ~disturbed, NEW m \in StreamViewport(listed, 15).markers
             PROVE m.at = Place[complex[m.complex].address]
  BY DEF MarkersStandAtTheirAddress
<1> DEFINE M == MarkersOf(listed)
<1>1. m \in M
  <2>1. map_viewport_mode(15) = "markers"
    BY DEF map_viewport_mode
  <2>2. StreamViewport(listed, 15) = Viewport("markers", M, {}, Cardinality(Ids(listed)),
                                              Cardinality(M), ListingsOf(M))
    BY <2>1, StreamViewportIs
  <2> HIDE DEF M
  <2>3. StreamViewport(listed, 15).markers = M
    BY <2>2 DEF Viewport
  <2>4. QED
    BY <2>3
<1>2. m.complex \in ShownIds(listed) /\ m = Aggregate(listed, m.complex)
  BY <1>1, MarkersAre
<1>3. m.complex \in Complexes /\ Located(m.complex) /\ m.at = complex[m.complex].at
  <2>1. m.complex \in Ids(listed) /\ Located(m.complex)
    BY <1>2 DEF ShownIds
  <2>2. Ids(listed) \in SUBSET Complexes
    BY IdsAre
  <2>3. m.at = complex[m.complex].at
    BY <1>2, AggregateIs
  <2>4. QED
    BY <2>1, <2>2, <2>3
<1>4. QED
  BY <1>3 DEF SweepInv, PlacedRight, Located

-----------------------------------------------------------------------------
(* What holds of the map, whatever the crawl, the sweep and deaths do.      *)

\* SqlAndStreamAgree: both ways of listing_map_service.py build the same page.
THEOREM SqlAndStreamAgreeHolds == ViewportSpec => []SqlAndStreamAgree
<1>1. MapInv => SqlAndStreamAgree
  BY ViewportsAgree DEF MapInv
<1>2. QED
  BY <1>1, MapInvHolds, PTL

\* NothingIsLostOnTheMap: every listing of a located complex is in exactly one marker
\* or cluster, at every zoom.
THEOREM NothingIsLostHolds == ViewportSpec => []NothingIsLostOnTheMap
<1>1. MapInv => NothingIsLostOnTheMap
  BY ViewportLosesNothing DEF MapInv
<1>2. QED
  BY <1>1, MapInvHolds, PTL

\* MarkersStandAtTheirAddress: a marker stands where its address is, as long as no
\* address changed under a batch that had loaded it.
THEOREM MarkersStandHolds == ViewportSpec => []MarkersStandAtTheirAddress
<1>1. MapInv => MarkersStandAtTheirAddress
  BY MarkersStandRight DEF MapInv
<1>2. QED
  BY <1>1, MapInvHolds, PTL

\* The sweep never asks the geocoder more often than its quota, the requests of the
\* batch under way included: the cut of a batch in ComplexGeocodeBackfill.run.
QuotaKept == sweep.requests + batch.requests <= MaxRequests

THEOREM QuotaKeptHolds == ViewportSpec => []QuotaKept
<1>1. MapInv => QuotaKept
  BY DEF MapInv, SweepInv, BatchFits, QuotaKept
<1>2. QED
  BY <1>1, MapInvHolds, PTL

\* Coordinates that were found stay until the address changes: neither a retry, nor a
\* batch that read the complex before, nor a process that dies takes them away, not even
\* when addresses change under a batch.
CoordinatesKept(c) ==
  complex[c].status = "OK" /\ complex'[c].address = complex[c].address
    => complex'[c].status = "OK" /\ complex'[c].at = complex[c].at

CoordinatesStay == [][\A c \in Complexes : CoordinatesKept(c)]_viewportVars

THEOREM CoordinatesStayHolds == ViewportSpec => CoordinatesStay
<1>1. MapInv /\ [ViewportNext]_viewportVars
        => [\A c \in Complexes : CoordinatesKept(c)]_viewportVars
  <2> SUFFICES ASSUME SweepInv, SweepNext, NEW c \in Complexes,
                      complex[c].status = "OK", complex'[c].address = complex[c].address
               PROVE  complex'[c].status = "OK" /\ complex'[c].at = complex[c].at
    BY DEF MapInv, ViewportNext, CoordinatesKept
  <2>1. ASSUME NEW d \in Complexes, NEW a \in Addresses, AddressChanges(d, a)
        PROVE  complex'[c] = complex[c]
    <3>1. c # d
      <4>1. c = d => complex'[c] = New(a) /\ a # complex[c].address
        BY <2>1 DEF AddressChanges, SweepInv, SweepTypeOK
      <4>2. QED
        BY <4>1, NewIs
    <3>2. QED
      BY <2>1, <3>1 DEF AddressChanges, SweepInv, SweepTypeOK
  <2>2. ASSUME NEW passed \in BOOLEAN, StartSweep(passed)
        PROVE  complex'[c].status = "OK" /\ complex'[c].at = complex[c].at
    <3>1. complex[c] \in Rows
      BY DEF SweepInv, SweepTypeOK, Rows
    <3>2. QED
      BY <2>2, <3>1 DEF StartSweep, Rows
  <2>3. CASE LoadBatch \/ NothingDue \/ SweepDies
    BY <2>3 DEF LoadBatch, NothingDue, SweepDies
  <2>4. CASE CommitBatch
    <3>1. c \notin DOMAIN batch.results
      BY DEF SweepInv, BatchFits, PlacedWhenOK
    <3>2. QED
      BY <2>4, <3>1 DEF CommitBatch
  <2>5. QED
    BY <2>1, <2>2, <2>3, <2>4 DEF SweepNext
<1>2. QED
  BY <1>1, MapInvHolds, PTL DEF ViewportSpec, CoordinatesStay

-----------------------------------------------------------------------------
(* The page in the browser.                                                *)
Network ==
  [timer : [Kinds -> Views \cup {Nil}], last : [Kinds -> Views \cup {Nil}],
   live : [Kinds -> Requests \cup {Nil}],
   pending : [Kinds -> BOOLEAN], failed : [Kinds -> BOOLEAN]]

Lists == [view : Views \cup {Everywhere}, key : Views \cup {Everywhere},
          query : Queries, clean : BOOLEAN]

TypeOK ==
  /\ at \in Views /\ motion \in {"still", "dragged", "moving"}
  /\ dirty \in BOOLEAN /\ manual \in BOOLEAN /\ soon \in BOOLEAN
  /\ form \in Queries /\ base \in Queries /\ search \in Queries \cup {Nil}
  /\ delayed \in BOOLEAN /\ late \in BOOLEAN
  /\ net \in Network
  /\ shown \in [map : Requests \cup {Nil}, cards : Lists]

(* A map that is dragged is dirty, and a dirty map will come to rest. *)
MotionOK ==
  /\ motion = "dragged" => dirty /\ ~soon
  /\ dirty => motion # "still" \/ soon

(* What is shown or under way is of the last search, unless the form had   *)
(* run ahead of it; what the map shows may be older when no key is kept.   *)
AsksForBase ==
  /\ net.live["map"] # Nil /\ net.live["map"].clean =>
        CacheKey(net.live["map"].query) = CacheKey(base)
  /\ net.live["cards"] # Nil /\ net.live["cards"].clean =>
        net.live["cards"].query = base
  /\ net.last["map"] # Nil /\ shown.map.clean =>
        CacheKey(shown.map.query) = CacheKey(base)
  /\ shown.cards.clean => shown.cards.query = base

ShownView(k) == IF k = "map" THEN shown.map.view ELSE shown.cards.view

(* The last key is that of what is shown, and the key of a request that    *)
(* of its viewport.                                                        *)
KeysOK(k) ==
  /\ net.live[k] # Nil => net.live[k].key = net.live[k].view
  /\ net.last[k] # Nil =>
        ShownView(k) = net.last[k] \/ (k = "cards" /\ ShownView(k) = Everywhere)

(* A request that is not for where the map is has no last key before it. *)
AsksForHere(k) ==
  /\ net.live[k] # Nil /\ net.last[k] # Nil => net.live[k].view = at
  /\ motion = "dragged" /\ net.live[k] # Nil => net.last[k] = Nil

Wanted(k) == ~dirty /\ (k = "map" \/ (~manual /\ at \in Close))

(* What a map at rest wants, it has or gets. *)
Follows(k) ==
  /\ ~dirty => net.timer[k] \in {Nil, at}
  /\ Wanted(k) =>
       /\ \/ net.last[k] = at
          \/ net.timer[k] = at
          \/ net.live[k] # Nil /\ net.live[k].view = at
          \/ net.failed[k]
       /\ net.live[k] # Nil => net.live[k].view = at \/ net.timer[k] = at

IInv ==
  /\ TypeOK /\ MotionOK /\ AsksForBase
  /\ ~late => \A k \in Kinds : KeysOK(k) /\ AsksForHere(k) /\ Follows(k)

-----------------------------------------------------------------------------
(* What the functions of the page do to the network.                        *)

LEMMA KindsAre == Kinds = {"map", "cards"} /\ "map" # "cards"
BY DEF Kinds

LEMMA NoneIsNowhere ==
  /\ Nil \notin Views /\ Everywhere \notin Views /\ Nil # Everywhere /\ Nil \notin Requests
  /\ Start \in Close /\ Close \subseteq Views
  /\ \A query \in Queries : Centre[query] \in Views \cup {Nil}
BY MapPageAssumption

LEMMA RequestIs ==
  ASSUME NEW view \in Views, NEW key \in Views, NEW asked \in Queries, form \in Queries,
         NEW r, r = Request(view, key, asked)
  PROVE  /\ r \in Requests /\ r # Nil /\ r.view = view /\ r.key = key
         /\ r.clean => r.query = asked
<1>1. asked \cup form \in Queries
  BY DEF Queries
<1>2. r \in Requests /\ r.view = view /\ r.key = key
  BY <1>1 DEF Request, Requests
<1>3. r.clean => r.query = asked
  BY DEF Request
<1>4. QED
  BY <1>2, <1>3, NoneIsNowhere

LEMMA EndedIs ==
  ASSUME NEW n \in Network, NEW kind \in Kinds, NEW m, m = Ended(n, kind)
  PROVE  /\ m \in Network /\ m.timer = n.timer /\ m.last = n.last /\ m.failed = n.failed
         /\ m.live[kind] = Nil
         /\ \A k \in Kinds : k # kind => m.live[k] = n.live[k]
BY DEF Ended, Network

LEMMA SendIs ==
  ASSUME NEW n \in Network, NEW kind \in Kinds, NEW view \in Views, NEW key \in Views,
         NEW asked \in Queries, form \in Queries,
         NEW m, m = Send(n, kind, view, key, asked)
  PROVE  /\ m \in Network /\ m.timer = n.timer /\ m.last = n.last
         /\ \A k \in Kinds : k # kind => m.live[k] = n.live[k] /\ m.failed[k] = n.failed[k]
         /\ n.last[kind] = key => m = n
         /\ n.last[kind] # key => m.live[kind] = Request(view, key, asked)
<1>1. CASE n.last[kind] = key
  BY <1>1 DEF Send
<1>2. CASE n.last[kind] # key
  <2> DEFINE r == Request(view, key, asked)
  <2>1. r \in Requests
    BY RequestIs
  <2>2. PICK e : e = Ended(n, kind)
    OBVIOUS
  <2>3. /\ e \in Network /\ e.timer = n.timer /\ e.last = n.last /\ e.failed = n.failed
        /\ \A k \in Kinds : k # kind => e.live[k] = n.live[k]
    BY <2>2, EndedIs
  <2>4. m = [e EXCEPT !.live[kind] = r, !.pending[kind] = TRUE, !.failed[kind] = FALSE]
    BY <1>2, <2>2 DEF Send, Cancel
  <2> HIDE DEF r
  <2>5. /\ m \in Network /\ m.timer = e.timer /\ m.last = e.last /\ m.live[kind] = r
        /\ \A k \in Kinds : k # kind => m.live[k] = e.live[k] /\ m.failed[k] = e.failed[k]
    <3>1. PICK e1 : e1 = [e EXCEPT !.live[kind] = r]
      OBVIOUS
    <3>2. /\ e1 \in Network /\ e1.timer = e.timer /\ e1.last = e.last
          /\ e1.failed = e.failed /\ e1.live[kind] = r
          /\ \A k \in Kinds : k # kind => e1.live[k] = e.live[k]
      BY <2>1, <2>3, <3>1 DEF Network
    <3>3. PICK e2 : e2 = [e1 EXCEPT !.pending[kind] = TRUE]
      OBVIOUS
    <3>4. /\ e2 \in Network /\ e2.timer = e1.timer /\ e2.last = e1.last
          /\ e2.failed = e1.failed /\ e2.live = e1.live
      BY <3>2, <3>3 DEF Network
    <3>5. m = [e2 EXCEPT !.failed[kind] = FALSE]
      BY <2>4, <3>1, <3>3
    <3>6. /\ m \in Network /\ m.timer = e2.timer /\ m.last = e2.last /\ m.live = e2.live
          /\ \A k \in Kinds : k # kind => m.failed[k] = e2.failed[k]
      <4>1. m = [e2 EXCEPT !.failed = [e2.failed EXCEPT ![kind] = FALSE]]
        BY <3>5
      <4>2. PICK f : f = [e2.failed EXCEPT ![kind] = FALSE]
        OBVIOUS
      <4>3. /\ f \in [Kinds -> BOOLEAN]
            /\ \A k \in Kinds : k # kind => f[k] = e2.failed[k]
        BY <3>4, <4>2 DEF Network
      <4>4. m = [e2 EXCEPT !.failed = f]
        BY <4>1, <4>2
      <4>5. QED
        BY <3>4, <4>3, <4>4 DEF Network
    <3>7. QED
      BY <3>2, <3>4, <3>6
  <2>6. QED
    BY <1>2, <2>3, <2>5 DEF r
<1>3. QED
  BY <1>1, <1>2

LEMMA MarkedIs ==
  ASSUME NEW n \in Network, NEW m, m = markViewportDirty(n)
  PROVE  /\ m \in Network /\ m.timer = n.timer /\ m.last = n.last /\ m.failed = n.failed
         /\ \A k \in Kinds : m.live[k] = Nil
<1>1. PICK e : e = Ended(n, "map")
  OBVIOUS
<1>2. m = Ended(e, "cards")
  BY <1>1 DEF markViewportDirty, Cancel
<1>3. QED
  BY <1>1, <1>2, EndedIs, KindsAre

LEMMA ScheduledIs ==
  ASSUME NEW n \in Network, NEW view \in Views, NEW m, m = scheduleViewportRefresh(n, view)
  PROVE  /\ m \in Network /\ m.last = n.last /\ m.live = n.live /\ m.failed = n.failed
         /\ \A k \in Kinds : m.timer[k] \in {Nil, view}
         /\ n.last["map"] # view => m.timer["map"] = view
         /\ ~manual /\ view \in Close /\ n.last["cards"] # view => m.timer["cards"] = view
BY KindsAre DEF scheduleViewportRefresh, Network

LEMMA ForgottenIs ==
  ASSUME NEW n \in Network, NEW m, m = ForgetKeys(n)
  PROVE  /\ m \in Network /\ m.timer = n.timer /\ m.live = n.live /\ m.failed = n.failed
         /\ \A k \in Kinds : m.last[k] = Nil
BY KindsAre DEF ForgetKeys, Network

LEMMA NewQueryIs ==
  ASSUME NEW n \in Network, NEW m, m = NewQuery(n)
  PROVE  /\ m \in Network
         /\ \A k \in Kinds : m.timer[k] = Nil /\ m.last[k] = Nil /\ m.live[k] = Nil
<1>1. PICK f : f = ForgetKeys(n)
  OBVIOUS
<1>2. PICK e : e = markViewportDirty(f)
  OBVIOUS
<1>3. e \in Network /\ \A k \in Kinds : e.last[k] = Nil /\ e.live[k] = Nil
  BY <1>1, <1>2, ForgottenIs, MarkedIs
<1>4. m = [e EXCEPT !.timer = [k \in Kinds |-> Nil]]
  BY <1>1, <1>2 DEF NewQuery
<1>5. QED
  BY <1>3, <1>4 DEF Network

\* Sent when no key is kept, both requests go out, the list's if it is wanted.
LEMMA RequestBothIs ==
  ASSUME NEW n \in Network, NEW view \in Views, NEW asked \in Queries, form \in Queries,
         \A k \in Kinds : n.last[k] = Nil,
         NEW m, m = RequestBoth(n, view, asked)
  PROVE  /\ m \in Network /\ m.timer = n.timer /\ \A k \in Kinds : m.last[k] = Nil
         /\ m.live["map"] = Request(view, view, asked)
         /\ IF view \in Close THEN m.live["cards"] = Request(view, view, asked)
            ELSE m.live["cards"] = n.live["cards"]
<1>1. PICK e : e = requestMapData(n, view, view, asked)
  OBVIOUS
<1>2. /\ e \in Network /\ e.timer = n.timer /\ e.last = n.last
      /\ e.live["map"] = Request(view, view, asked)
      /\ e.live["cards"] = n.live["cards"]
  <2>1. e = Send(n, "map", view, view, asked) /\ "map" \in Kinds /\ "cards" \in Kinds
    BY <1>1, KindsAre DEF requestMapData
  <2>2. n.last["map"] = Nil /\ view # Nil
    BY <2>1, NoneIsNowhere
  <2>3. /\ e \in Network /\ e.timer = n.timer /\ e.last = n.last
        /\ \A k \in Kinds : k # "map" => e.live[k] = n.live[k] /\ e.failed[k] = n.failed[k]
        /\ n.last["map"] # view => e.live["map"] = Request(view, view, asked)
    BY <2>1, SendIs
  <2>4. QED
    BY <2>1, <2>2, <2>3
<1>3. m = requestCards(e, view, view, asked)
  BY <1>1 DEF RequestBoth
<1>4. CASE view \in Close
  <2>1. m = Send(e, "cards", view, view, asked) /\ "map" \in Kinds /\ "cards" \in Kinds
    BY <1>3, <1>4, KindsAre DEF requestCards
  <2>2. e.last["cards"] = Nil /\ view # Nil
    BY <1>2, <2>1, NoneIsNowhere
  <2>3. /\ m \in Network /\ m.timer = e.timer /\ m.last = e.last
        /\ \A k \in Kinds : k # "cards" => m.live[k] = e.live[k] /\ m.failed[k] = e.failed[k]
        /\ e.last["cards"] # view => m.live["cards"] = Request(view, view, asked)
    BY <1>2, <2>1, SendIs
  <2>4. QED
    BY <1>2, <1>4, <2>1, <2>2, <2>3
<1>5. CASE view \notin Close
  BY <1>2, <1>3, <1>5 DEF requestCards
<1>6. QED
  BY <1>4, <1>5

-----------------------------------------------------------------------------
(* The user and the map.                                                    *)

LEMMA InitInv == Init => IInv
<1> SUFFICES ASSUME Init PROVE IInv
  OBVIOUS
<1>1. at \in Views /\ form \in Queries /\ at # Nil
  BY NoneIsNowhere, MapPageAssumption DEF Init
<1>2. WholeList(base) \in Lists /\ WholeList(base).query = base
  BY <1>1 DEF Init, WholeList, Lists
<1>3. net \in Network /\ \A k \in Kinds : /\ net.timer[k] = at /\ net.last[k] = Nil
                                          /\ net.live[k] = Nil /\ net.failed[k] = FALSE
  <2>1. net.timer = [k \in Kinds |-> at]
    BY KindsAre DEF Init
  <2>2. QED
    BY <1>1, <2>1 DEF Init, Network
<1>4. TypeOK /\ MotionOK
  BY <1>1, <1>2, <1>3 DEF Init, TypeOK, MotionOK
<1>5. AsksForBase
  BY <1>2, <1>3, KindsAre DEF Init, AsksForBase
<1>6. \A k \in Kinds : KeysOK(k) /\ AsksForHere(k) /\ Follows(k)
  BY <1>3 DEF Init, KeysOK, AsksForHere, Follows, Wanted
<1>7. QED
  BY <1>4, <1>5, <1>6 DEF IInv

\* A move that is told to the page leaves no request under way.
LEMMA MovedStep ==
  ASSUME IInv, net' = markViewportDirty(net), dirty' = TRUE,
         at' \in Views, motion' \in {"dragged", "moving"}, manual' \in BOOLEAN,
         soon' \in BOOLEAN, motion' = "dragged" => ~soon',
         UNCHANGED <<form, base, delayed, search, shown, late>>
  PROVE  IInv'
<1>1. /\ net' \in Network /\ net'.last = net.last
      /\ \A k \in Kinds : net'.live[k] = Nil
  BY MarkedIs DEF IInv, TypeOK
<1>2. TypeOK' /\ MotionOK'
  BY <1>1 DEF IInv, TypeOK, MotionOK
<1>3. AsksForBase'
  BY <1>1, KindsAre DEF IInv, AsksForBase
<1>4. ASSUME ~late', NEW k \in Kinds
      PROVE  KeysOK(k)' /\ AsksForHere(k)' /\ Follows(k)'
  BY <1>1, <1>4 DEF IInv, KeysOK, ShownView, AsksForHere, Follows, Wanted
<1>5. QED
  BY <1>2, <1>3, <1>4 DEF IInv

\* A step that the requests and the timers do not notice.
LEMMA QuietStep ==
  ASSUME IInv, TypeOK', UNCHANGED <<net, shown, base, dirty, motion, soon, late>>,
         manual => manual',
         at' = at \/ motion = "dragged"
  PROVE  IInv'
<1>1. MotionOK' /\ AsksForBase'
  BY DEF IInv, MotionOK, AsksForBase
<1>2. at' = at \/ (motion = "dragged" /\ dirty)
  BY DEF IInv, MotionOK
<1>3. ASSUME ~late', NEW k \in Kinds
      PROVE  KeysOK(k)' /\ AsksForHere(k)' /\ Follows(k)'
  <2>1. ~late /\ KeysOK(k) /\ AsksForHere(k) /\ Follows(k)
    BY <1>3 DEF IInv
  <2>2. KeysOK(k)'
    BY <2>1 DEF KeysOK, ShownView
  <2>3. AsksForHere(k)'
    BY <1>2, <2>1 DEF AsksForHere
  <2>4. Follows(k)'
    BY <1>2, <2>1 DEF Follows, Wanted
  <2>5. QED
    BY <2>2, <2>3, <2>4
<1>4. QED
  BY <1>1, <1>3 DEF IInv

\* At rest the page sets the timers for what it does not have.
LEMMA RestStep ==
  ASSUME IInv, Rest, motion' \in {"still", "moving"}, soon' \in BOOLEAN
  PROVE  IInv'
<1>1. /\ dirty' = FALSE
      /\ UNCHANGED <<at, manual, form, base, delayed, search, shown, late>>
  BY DEF Rest, formVars
<1>2. CASE dirty
  <2>1. net' = scheduleViewportRefresh(net, at)
    BY <1>2 DEF Rest
  <2>2. /\ net' \in Network /\ net'.last = net.last /\ net'.live = net.live
        /\ net'.failed = net.failed
        /\ \A k \in Kinds : net'.timer[k] \in {Nil, at}
        /\ net.last["map"] # at => net'.timer["map"] = at
        /\ ~manual /\ at \in Close /\ net.last["cards"] # at => net'.timer["cards"] = at
    BY <2>1, ScheduledIs DEF IInv, TypeOK
  <2>3. TypeOK' /\ MotionOK' /\ AsksForBase'
    BY <1>1, <2>2 DEF IInv, TypeOK, MotionOK, AsksForBase
  <2>4. ASSUME ~late', NEW k \in Kinds
        PROVE  KeysOK(k)' /\ AsksForHere(k)' /\ Follows(k)'
    <3>1. ~late /\ KeysOK(k) /\ AsksForHere(k)
      BY <1>1, <2>4 DEF IInv
    <3>2. KeysOK(k)' /\ AsksForHere(k)'
      BY <1>1, <2>2, <3>1 DEF KeysOK, ShownView, AsksForHere
    <3>3. at # Nil
      BY NoneIsNowhere DEF IInv, TypeOK
    <3>4. Wanted(k)' => net.last[k] = at \/ net'.timer[k] = at
      BY <1>1, <2>2, KindsAre DEF Wanted
    <3>5. Follows(k)'
      BY <1>1, <2>2, <3>1, <3>3, <3>4 DEF Follows, AsksForHere
    <3>6. QED
      BY <3>2, <3>5
  <2>5. QED
    BY <2>3, <2>4 DEF IInv
<1>3. CASE ~dirty
  <2>1. net' = net
    BY <1>3 DEF Rest
  <2>2. TypeOK' /\ MotionOK' /\ AsksForBase'
    BY <1>1, <2>1 DEF IInv, TypeOK, MotionOK, AsksForBase
  <2>3. ASSUME ~late', NEW k \in Kinds
        PROVE  KeysOK(k)' /\ AsksForHere(k)' /\ Follows(k)'
    <3>1. ~late /\ KeysOK(k) /\ AsksForHere(k) /\ Follows(k)
      BY <1>1, <2>3 DEF IInv
    <3>2. QED
      BY <1>1, <1>3, <2>1, <3>1 DEF KeysOK, ShownView, AsksForHere, Follows, Wanted
  <2>4. QED
    BY <2>2, <2>3 DEF IInv
<1>4. QED
  BY <1>2, <1>3

-----------------------------------------------------------------------------
(* Timers and answers.                                                      *)

LEMMA TimerSends ==
  ASSUME NEW kind \in Kinds, net \in Network, net.timer[kind] # Nil,
         at \in Views, base \in Queries, form \in Queries,
         NEW unset, unset = [net EXCEPT !.timer[kind] = Nil],
         \/ net' = Send(unset, kind, at, net.timer[kind], base)
         \/ kind = "cards" /\ at \notin Close /\ net' = unset
  PROVE  /\ net' \in Network /\ net'.last = net.last /\ net'.timer[kind] = Nil
         /\ \A k \in Kinds : k # kind =>
               /\ net'.live[k] = net.live[k] /\ net'.failed[k] = net.failed[k]
               /\ net'.timer[k] = net.timer[k]
         /\ \/ net'.live[kind] = net.live[kind]
               /\ \/ net.last[kind] = net.timer[kind]
                  \/ kind = "cards" /\ at \notin Close
            \/ net'.live[kind] = Request(at, net.timer[kind], base)
<1>1. PICK x : x = net.timer[kind]
  OBVIOUS
<1>2. x \in Views
  BY <1>1 DEF Network
<1>3. /\ unset \in Network /\ unset.last = net.last /\ unset.live = net.live
      /\ unset.failed = net.failed /\ unset.timer[kind] = Nil
      /\ \A k \in Kinds : k # kind => unset.timer[k] = net.timer[k]
  BY DEF Network
<1>4. CASE net' = Send(unset, kind, at, net.timer[kind], base)
  <2>1. ASSUME NEW n \in Network, NEW m, m = Send(n, kind, at, x, base)
        PROVE  /\ m \in Network /\ m.timer = n.timer /\ m.last = n.last
               /\ \A k \in Kinds : k # kind =>
                     m.live[k] = n.live[k] /\ m.failed[k] = n.failed[k]
               /\ n.last[kind] = x => m = n
               /\ n.last[kind] # x => m.live[kind] = Request(at, x, base)
    BY <1>2, <2>1, SendIs
  <2>2. net' = Send(unset, kind, at, x, base)
    BY <1>1, <1>4
  <2>3. /\ net' \in Network /\ net'.timer = unset.timer /\ net'.last = unset.last
        /\ \A k \in Kinds : k # kind =>
              net'.live[k] = unset.live[k] /\ net'.failed[k] = unset.failed[k]
        /\ unset.last[kind] = x => net' = unset
        /\ unset.last[kind] # x => net'.live[kind] = Request(at, x, base)
    <3>1. unset \in Network
      BY <1>3
    <3>2. QED
      BY <2>1, <2>2, <3>1, Zenon
  <2>4. QED
    BY <1>1, <1>3, <2>3
<1>5. CASE kind = "cards" /\ at \notin Close /\ net' = unset
  BY <1>3, <1>5
<1>6. QED
  BY <1>4, <1>5

\* A timer that is not late asks for where the map is, unless the page has it.
LEMMA TimerStep ==
  ASSUME IInv, NEW kind \in Kinds, net.timer[kind] # Nil, Late(net.timer[kind]),
         NEW unset, unset = [net EXCEPT !.timer[kind] = Nil],
         \/ net' = Send(unset, kind, at, net.timer[kind], base)
         \/ kind = "cards" /\ at \notin Close /\ net' = unset,
         UNCHANGED <<mapVars, formVars, shown>>
  PROVE  IInv'
<1> DEFINE key == net.timer[kind]
           sent == Request(at, key, base)
<1>1. key \in Views /\ key # Nil /\ at \in Views /\ base \in Queries /\ form \in Queries
  BY DEF IInv, TypeOK, Network
<1>2. /\ net' \in Network /\ net'.last = net.last /\ net'.timer[kind] = Nil
      /\ \A k \in Kinds : k # kind =>
            /\ net'.live[k] = net.live[k] /\ net'.failed[k] = net.failed[k]
            /\ net'.timer[k] = net.timer[k]
      /\ \/ net'.live[kind] = net.live[kind]
            /\ \/ net.last[kind] = key
               \/ kind = "cards" /\ at \notin Close
         \/ net'.live[kind] = sent
  BY TimerSends DEF IInv, TypeOK
<1>3. /\ sent # Nil /\ sent.view = at /\ sent.key = key
      /\ sent.clean => sent.query = base
  BY <1>1, RequestIs
<1>4. UNCHANGED <<at, motion, dirty, manual, soon, form, base, delayed, search, shown>>
  BY DEF mapVars, formVars
<1>5. late' \in BOOLEAN /\ (~late' => ~late /\ key = at /\ motion # "dragged")
  BY DEF Late, IInv, TypeOK
<1>6. TypeOK' /\ MotionOK'
  BY <1>2, <1>4, <1>5 DEF IInv, TypeOK, MotionOK
<1> HIDE DEF key, sent
<1>7. AsksForBase'
  BY <1>2, <1>3, <1>4, KindsAre DEF IInv, AsksForBase
<1>8. ASSUME ~late', NEW k \in Kinds, k # kind
      PROVE  KeysOK(k)' /\ AsksForHere(k)' /\ Follows(k)'
  <2>1. KeysOK(k) /\ AsksForHere(k) /\ Follows(k)
    BY <1>5, <1>8 DEF IInv
  <2>2. /\ net'.live[k] = net.live[k] /\ net'.failed[k] = net.failed[k]
        /\ net'.timer[k] = net.timer[k] /\ net'.last[k] = net.last[k]
    BY <1>2, <1>8
  <2>3. QED
    BY <1>4, <2>1, <2>2 DEF KeysOK, ShownView, AsksForHere, Follows, Wanted
<1>9. ASSUME ~late'
       PROVE  KeysOK(kind)' /\ AsksForHere(kind)' /\ Follows(kind)'
  <2>1. KeysOK(kind) /\ AsksForHere(kind) /\ key = at /\ motion # "dragged"
    BY <1>5, <1>9 DEF IInv
  <2>2. net'.timer[kind] = Nil /\ net'.last[kind] = net.last[kind]
    BY <1>2
  <2>3. KeysOK(kind)'
    BY <1>2, <1>3, <1>4, <2>1, <2>2 DEF KeysOK, ShownView
  <2>4. AsksForHere(kind)'
    BY <1>2, <1>3, <1>4, <2>1, <2>2 DEF AsksForHere
  <2>5. Follows(kind)'
    BY <1>1, <1>2, <1>3, <1>4, <2>1, <2>2, KindsAre DEF Follows, Wanted, AsksForHere
  <2>6. QED
    BY <2>3, <2>4, <2>5
<1>10. QED
  BY <1>5, <1>6, <1>7, <1>8, <1>9 DEF IInv

LEMMA TimersStep ==
  ASSUME IInv, MapTimerFires \/ CardsTimerFires
  PROVE  IInv'
<1>1. CASE MapTimerFires
  <2>1. PICK u : u = [net EXCEPT !.timer["map"] = Nil]
    OBVIOUS
  <2>2. /\ net.timer["map"] # Nil /\ Late(net.timer["map"])
        /\ net' = Send(u, "map", at, net.timer["map"], base)
        /\ UNCHANGED <<mapVars, formVars, shown>>
    BY <1>1, <2>1 DEF MapTimerFires, requestMapData
  <2>3. QED
    BY <2>1, <2>2, TimerStep, KindsAre
<1>2. CASE CardsTimerFires
  <2>1. PICK u : u = [net EXCEPT !.timer["cards"] = Nil]
    OBVIOUS
  <2>2. /\ net.timer["cards"] # Nil /\ Late(net.timer["cards"])
        /\ \/ net' = Send(u, "cards", at, net.timer["cards"], base)
           \/ at \notin Close /\ net' = u
        /\ UNCHANGED <<mapVars, formVars, shown>>
    BY <1>2, <2>1 DEF CardsTimerFires, requestCards
  <2>3. QED
    BY <2>1, <2>2, TimerStep, KindsAre
<1>3. QED
  BY <1>1, <1>2

\* An answer becomes what is shown, and its key the last one.
LEMMA AnswerStep ==
  ASSUME IInv, NEW kind \in Kinds, NEW r \in Requests, NEW ended, ended = Ended(net, kind),
         r.view = net.live[kind].view, r.key = net.live[kind].key,
         r.clean = net.live[kind].clean, net.live[kind] # Nil,
         net' = [ended EXCEPT !.last[kind] = r.key],
         IF kind = "map" THEN /\ shown' = [shown EXCEPT !.map = r]
                              /\ CacheKey(r.query) = CacheKey(net.live[kind].query)
                         ELSE /\ shown' = [shown EXCEPT !.cards = r]
                              /\ r.query = net.live[kind].query,
         UNCHANGED <<mapVars, formVars, late>>
  PROVE  IInv'
<1>1. /\ ended \in Network /\ ended.timer = net.timer /\ ended.last = net.last
      /\ ended.failed = net.failed /\ ended.live[kind] = Nil
      /\ \A k \in Kinds : k # kind => ended.live[k] = net.live[k]
  BY EndedIs DEF IInv, TypeOK
<1>2. r.view \in Views /\ r.key \in Views /\ r.key # Nil /\ r \in Lists
  BY NoneIsNowhere DEF Requests, Lists
<1>3. /\ net' \in Network /\ net'.timer = net.timer /\ net'.live = ended.live
      /\ net'.failed = net.failed /\ net'.last[kind] = r.key
      /\ \A k \in Kinds : k # kind => net'.last[k] = net.last[k]
  BY <1>1, <1>2 DEF Network
<1>4. UNCHANGED <<at, motion, dirty, manual, soon, form, base, delayed, search>>
  BY DEF mapVars, formVars
<1>5. /\ shown' \in [map : Requests \cup {Nil}, cards : Lists]
      /\ kind = "map" => shown'.map = r /\ shown'.cards = shown.cards
      /\ kind # "map" => shown'.cards = r /\ shown'.map = shown.map
  BY <1>2 DEF IInv, TypeOK
<1>6. TypeOK' /\ MotionOK'
  BY <1>3, <1>4, <1>5 DEF IInv, TypeOK, MotionOK
<1>7. AsksForBase'
  <2>1. CASE kind = "map"
    BY <1>1, <1>3, <1>4, <1>5, <2>1, KindsAre DEF IInv, AsksForBase
  <2>2. CASE kind = "cards"
    BY <1>1, <1>3, <1>4, <1>5, <2>2, KindsAre DEF IInv, AsksForBase
  <2>3. QED
    BY <2>1, <2>2, KindsAre
<1>8. ASSUME ~late', NEW k \in Kinds, k # kind
      PROVE  KeysOK(k)' /\ AsksForHere(k)' /\ Follows(k)'
  <2>1. KeysOK(k) /\ AsksForHere(k) /\ Follows(k)
    BY <1>8 DEF IInv
  <2>2. /\ net'.live[k] = net.live[k] /\ net'.failed[k] = net.failed[k]
        /\ net'.timer[k] = net.timer[k] /\ net'.last[k] = net.last[k]
    BY <1>1, <1>3, <1>8
  <2>3. ShownView(k)' = ShownView(k)
    BY <1>5, <1>8, KindsAre DEF ShownView
  <2>4. QED
    BY <1>4, <2>1, <2>2, <2>3 DEF KeysOK, AsksForHere, Follows, Wanted
<1>9. ASSUME ~late'
      PROVE  KeysOK(kind)' /\ AsksForHere(kind)' /\ Follows(kind)'
  <2>1. KeysOK(kind) /\ AsksForHere(kind) /\ Follows(kind)
    BY <1>9 DEF IInv
  <2>2. r.key = r.view /\ net'.live[kind] = Nil
    BY <1>1, <1>3, <2>1 DEF KeysOK
  <2>3. ShownView(kind)' = r.view
    BY <1>5 DEF ShownView
  <2>4. KeysOK(kind)' /\ AsksForHere(kind)'
    BY <1>3, <2>2, <2>3 DEF KeysOK, AsksForHere
  <2>5. Follows(kind)'
    BY <1>3, <1>4, <2>1, <2>2 DEF Follows, Wanted
  <2>6. QED
    BY <2>4, <2>5
<1>10. QED
  BY <1>6, <1>7, <1>8, <1>9 DEF IInv

LEMMA AnswersStep ==
  ASSUME IInv, (\E query \in Queries : MapAnswer(query)) \/ CardsAnswer
  PROVE  IInv'
<1>1. ASSUME NEW query \in Queries, MapAnswer(query) PROVE IInv'
  <2>1. /\ net.live["map"] # Nil /\ net.live["map"] \in Requests
        /\ net' = [Ended(net, "map") EXCEPT !.last["map"] = net.live["map"].key]
        /\ UNCHANGED <<mapVars, formVars, late>>
        /\ CacheKey(query) = CacheKey(net.live["map"].query)
        /\ shown' = [shown EXCEPT !.map = [net.live["map"] EXCEPT !.query = query]]
    BY <1>1, KindsAre DEF MapAnswer, Answered, IInv, TypeOK, Network
  <2>2. PICK r : r = [net.live["map"] EXCEPT !.query = query]
    OBVIOUS
  <2>3. /\ r \in Requests /\ r.query = query /\ r.view = net.live["map"].view
        /\ r.key = net.live["map"].key /\ r.clean = net.live["map"].clean
    BY <2>1, <2>2 DEF Requests
  <2>4. PICK e : e = Ended(net, "map")
    OBVIOUS
  <2>5. /\ net' = [e EXCEPT !.last["map"] = r.key] /\ "map" \in Kinds
        /\ shown' = [shown EXCEPT !.map = r]
        /\ CacheKey(r.query) = CacheKey(net.live["map"].query)
    BY <2>1, <2>2, <2>3, <2>4, KindsAre
  <2>6. QED
    BY <2>1, <2>3, <2>4, <2>5, AnswerStep
<1>2. CASE CardsAnswer
  <2>1. /\ net.live["cards"] # Nil /\ net.live["cards"] \in Requests
        /\ net' = [Ended(net, "cards") EXCEPT !.last["cards"] = net.live["cards"].key]
        /\ UNCHANGED <<mapVars, formVars, late>>
        /\ shown' = [shown EXCEPT !.cards = net.live["cards"]]
    BY <1>2, KindsAre DEF CardsAnswer, Answered, IInv, TypeOK, Network
  <2>2. PICK e : e = Ended(net, "cards")
    OBVIOUS
  <2>3. PICK r : r = net.live["cards"]
    OBVIOUS
  <2>4. /\ net' = [e EXCEPT !.last["cards"] = r.key] /\ "cards" \in Kinds
        /\ r \in Requests /\ shown' = [shown EXCEPT !.cards = r]
    BY <2>1, <2>2, <2>3, KindsAre
  <2>5. QED
    BY <2>1, <2>2, <2>3, <2>4, AnswerStep, KindsAre
<1>3. QED
  BY <1>1, <1>2

\* A request that fails leaves its sign on the page.
LEMMA FailsStep ==
  ASSUME IInv, NEW kind \in Kinds, RequestFails(kind)
  PROVE  IInv'
<1>1. PICK e : e = Ended(net, kind)
  OBVIOUS
<1>2. /\ e \in Network /\ e.timer = net.timer /\ e.last = net.last
      /\ e.failed = net.failed /\ e.live[kind] = Nil
      /\ \A k \in Kinds : k # kind => e.live[k] = net.live[k]
  BY <1>1, EndedIs DEF IInv, TypeOK
<1>3. /\ net' = [e EXCEPT !.failed = [e.failed EXCEPT ![kind] = TRUE]]
      /\ UNCHANGED <<mapVars, formVars, shown, late>>
  BY <1>1 DEF RequestFails
<1>4. PICK f : f = [e.failed EXCEPT ![kind] = TRUE]
  OBVIOUS
<1>5. /\ f \in [Kinds -> BOOLEAN] /\ f[kind] = TRUE
      /\ \A k \in Kinds : k # kind => f[k] = e.failed[k]
  BY <1>2, <1>4 DEF Network
<1>6. net' = [e EXCEPT !.failed = f]
  BY <1>3, <1>4
<1>7. /\ net' \in Network /\ net'.timer = net.timer /\ net'.last = net.last
      /\ net'.live = e.live /\ net'.failed = f
  BY <1>2, <1>5, <1>6 DEF Network
<1>8. UNCHANGED <<at, motion, dirty, manual, soon, form, base, delayed, search, shown, late>>
  BY <1>3 DEF mapVars, formVars
<1>9. TypeOK' /\ MotionOK'
  BY <1>7, <1>8 DEF IInv, TypeOK, MotionOK
<1>10. \A k \in Kinds : net'.live[k] = Nil \/ net'.live[k] = net.live[k]
  BY <1>2, <1>7
<1>11. AsksForBase'
  BY <1>7, <1>8, <1>10, KindsAre DEF IInv, AsksForBase
<1>12. ASSUME ~late', NEW k \in Kinds
       PROVE  KeysOK(k)' /\ AsksForHere(k)' /\ Follows(k)'
  <2>1. KeysOK(k) /\ AsksForHere(k) /\ Follows(k)
    BY <1>8, <1>12 DEF IInv
  <2>2. KeysOK(k)' /\ AsksForHere(k)'
    BY <1>7, <1>8, <1>10, <2>1 DEF KeysOK, ShownView, AsksForHere
  <2>3. Follows(k)'
    <3>1. CASE k = kind
      BY <1>2, <1>5, <1>7, <1>8, <2>1, <3>1 DEF Follows, Wanted
    <3>2. CASE k # kind
      BY <1>2, <1>5, <1>7, <1>8, <2>1, <3>2 DEF Follows, Wanted
    <3>3. QED
      BY <3>1, <3>2
  <2>4. QED
    BY <2>2, <2>3
<1>13. QED
  BY <1>9, <1>11, <1>12 DEF IInv

-----------------------------------------------------------------------------
(* Searches.                                                                *)

\* The keys forgotten, the requests of `asked` sent for where the map is.
LEMMA SentStep ==
  ASSUME IInv, NEW k \in Kinds, net'.last[k] = Nil, net'.timer[k] \in {Nil, net.timer[k]},
         at' \in Views, base' \in Queries,
         k = "map" \/ at' \in Close => net'.live[k] = Request(at', at', base'),
         \/ k = "map" \/ at' \in Close
         \/ net'.live[k] = net.live[k] /\ UNCHANGED <<at, late>>
         \/ net'.live[k] = Nil,
         net'.timer[k] = Nil \/ UNCHANGED <<at, dirty>>,
         late' => late, late => late'
  PROVE  ~late' => KeysOK(k)' /\ AsksForHere(k)' /\ Follows(k)'
<1> SUFFICES ASSUME ~late' PROVE KeysOK(k)' /\ AsksForHere(k)' /\ Follows(k)'
  OBVIOUS
<1>1. PICK r : r = Request(at', at', base')
  OBVIOUS
<1>2. r # Nil /\ r.view = at' /\ r.key = at'
  BY <1>1, RequestIs DEF IInv, TypeOK
<1>3. KeysOK(k) /\ Follows(k)
  BY DEF IInv
<1>4. KeysOK(k)'
  BY <1>1, <1>2, <1>3 DEF KeysOK
<1>5. AsksForHere(k)'
  BY DEF AsksForHere
<1>6. Follows(k)'
  BY <1>1, <1>2, <1>3 DEF Follows, Wanted
<1>7. QED
  BY <1>4, <1>5, <1>6

\* A new query starts from nothing; an old one changes only the list.
LEMMA SearchAnswerStep ==
  ASSUME IInv, SearchAnswer
  PROVE  IInv'
<1>1. /\ search # Nil /\ search' = Nil /\ base' = search /\ search \in Queries
      /\ shown' = [shown EXCEPT !.cards = WholeList(search)]
      /\ UNCHANGED <<form, delayed, late>>
  BY DEF SearchAnswer, IInv, TypeOK
<1>2. /\ shown' \in [map : Requests \cup {Nil}, cards : Lists]
      /\ shown'.map = shown.map /\ shown'.cards.query = search
      /\ shown'.cards.view = Everywhere
  <2>1. /\ WholeList(search) \in Lists /\ WholeList(search).query = search
        /\ WholeList(search).view = Everywhere
    BY <1>1 DEF WholeList, Lists
  <2>2. QED
    BY <1>1, <2>1 DEF IInv, TypeOK
<1>3. CASE search = base
  <2>1. UNCHANGED <<at, motion, dirty, manual, soon, net>> /\ base' = base
    BY <1>1, <1>3 DEF SearchAnswer, mapVars
  <2>2. TypeOK' /\ MotionOK'
    BY <1>1, <1>2, <2>1 DEF IInv, TypeOK, MotionOK
  <2>3. AsksForBase'
    BY <1>1, <1>2, <1>3, <2>1 DEF IInv, AsksForBase
  <2>4. ASSUME ~late', NEW k \in Kinds
        PROVE  KeysOK(k)' /\ AsksForHere(k)' /\ Follows(k)'
    <3>1. KeysOK(k) /\ AsksForHere(k) /\ Follows(k)
      BY <1>1, <2>4 DEF IInv
    <3>2. k = "cards" \/ ShownView(k)' = ShownView(k)
      BY <1>2, KindsAre DEF ShownView
    <3>3. k = "cards" => ShownView(k)' = Everywhere
      BY <1>2, KindsAre DEF ShownView
    <3>4. KeysOK(k)'
      BY <2>1, <3>1, <3>2, <3>3 DEF KeysOK
    <3>5. QED
      BY <2>1, <3>1, <3>4 DEF AsksForHere, Follows, Wanted
  <2>5. QED
    BY <2>2, <2>3, <2>4 DEF IInv
<1>4. CASE search # base
  <2>1. /\ at' = IF Centre[search] = Nil THEN at ELSE Centre[search]
        /\ motion' = IF at' # at THEN "moving" ELSE motion
        /\ dirty' = (dirty \/ Zoomed[at'] # Zoomed[at])
        /\ manual' = FALSE /\ soon' = soon
        /\ net' = RequestBoth(NewQuery(net), at', search)
    BY <1>4 DEF SearchAnswer
  <2>2. at' \in Views
    BY <1>1, <2>1, NoneIsNowhere DEF IInv, TypeOK
  <2>3. PICK f : f = NewQuery(net)
    OBVIOUS
  <2>4. /\ f \in Network
        /\ \A k \in Kinds : f.timer[k] = Nil /\ f.last[k] = Nil /\ f.live[k] = Nil
    BY <2>3, NewQueryIs DEF IInv, TypeOK
  <2>5. PICK v : v = at'
    OBVIOUS
  <2>6. PICK r : r = Request(v, v, search)
    OBVIOUS
  <2>7. /\ net' \in Network /\ net'.timer = f.timer /\ \A k \in Kinds : net'.last[k] = Nil
        /\ net'.live["map"] = r
        /\ IF v \in Close THEN net'.live["cards"] = r ELSE net'.live["cards"] = f.live["cards"]
    <3>1. v \in Views /\ net' = RequestBoth(f, v, search) /\ form \in Queries
      BY <2>1, <2>2, <2>3, <2>5 DEF IInv, TypeOK
    <3>2. QED
      BY <1>1, <2>4, <2>6, <3>1, RequestBothIs
  <2>8. r.clean => r.query = search
    BY <1>1, <2>2, <2>5, <2>6, RequestIs DEF IInv, TypeOK
  <2>9. /\ dirty' \in BOOLEAN /\ motion' \in {"still", "dragged", "moving"}
        /\ motion' = motion \/ motion' = "moving"
        /\ dirty => dirty'
    BY <2>1 DEF IInv, TypeOK
  <2>10. TypeOK'
    BY <1>1, <1>2, <2>1, <2>2, <2>7, <2>9 DEF IInv, TypeOK
  <2>11. MotionOK'
    <3>1. at' = at => motion' = motion /\ dirty' = dirty
      BY <2>1 DEF IInv, TypeOK
    <3>2. at' # at => motion' = "moving"
      BY <2>1
    <3>3. QED
      BY <2>1, <2>9, <3>1, <3>2 DEF IInv, MotionOK
  <2>12. AsksForBase'
    BY <1>1, <1>2, <2>4, <2>7, <2>8, KindsAre DEF AsksForBase
  <2>13. ASSUME NEW k \in Kinds
         PROVE  ~late' => KeysOK(k)' /\ AsksForHere(k)' /\ Follows(k)'
    <3>1. /\ at' \in Views /\ base' \in Queries /\ net'.last[k] = Nil
          /\ net'.timer[k] = Nil /\ (late' => late) /\ (late => late')
      BY <1>1, <2>2, <2>4, <2>7
    <3>2. k = "map" \/ at' \in Close => net'.live[k] = Request(at', at', base')
      BY <1>1, <2>5, <2>6, <2>7, KindsAre
    <3>3. \/ k = "map" \/ at' \in Close
          \/ net'.live[k] = Nil
      BY <2>4, <2>5, <2>7, KindsAre
    <3>4. QED
      BY <3>1, <3>2, <3>3, SentStep
  <2>14. QED
    BY <2>10, <2>11, <2>12, <2>13 DEF IInv
<1>5. QED
  BY <1>3, <1>4

-----------------------------------------------------------------------------
LEMMA UserStep ==
  ASSUME IInv, UserNext
  PROVE  IInv'
<1> USE DEF mapVars, formVars
<1>1. CASE Drag
  <2>1. /\ net' = markViewportDirty(net) /\ dirty' = TRUE /\ motion' = "dragged"
        /\ manual' = FALSE /\ ~soon /\ soon' = soon
        /\ UNCHANGED <<at, form, base, delayed, search, shown, late>>
    BY <1>1 DEF Drag, Acts
  <2>2. at' \in Views /\ soon' \in BOOLEAN
    BY <2>1 DEF IInv, TypeOK
  <2>3. QED
    BY <2>1, <2>2, MovedStep
<1>2. ASSUME NEW view \in Views, Zoom(view) PROVE IInv'
  <2>1. /\ net' = markViewportDirty(net) /\ dirty' = TRUE /\ motion' = "moving"
        /\ at' = view /\ manual' = manual /\ soon' = soon
        /\ UNCHANGED <<form, base, delayed, search, shown, late>>
    BY <1>2 DEF Zoom, Acts
  <2>2. manual' \in BOOLEAN /\ soon' \in BOOLEAN
    BY <2>1 DEF IInv, TypeOK
  <2>3. QED
    BY <2>1, <2>2, MovedStep
<1>3. ASSUME NEW view \in Views, focus(view) PROVE IInv'
  <2>1. /\ net' = markViewportDirty(net) /\ dirty' = TRUE /\ motion' = "moving"
        /\ at' = view /\ manual' = TRUE /\ soon' = TRUE
        /\ UNCHANGED <<form, base, delayed, search, shown, late>>
    BY <1>3 DEF focus, Acts
  <2>2. QED
    BY <2>1, MovedStep
<1>4. ASSUME NEW view \in Views, Slide(view) PROVE IInv'
  <2>1. /\ motion = "dragged" /\ at' = view
        /\ UNCHANGED <<motion, dirty, manual, soon, form, base, delayed, search,
                       net, shown, late>>
    BY <1>4 DEF Slide, Acts
  <2>2. TypeOK'
    BY <2>1 DEF IInv, TypeOK
  <2>3. QED
    BY <2>1, <2>2, QuietStep
<1>5. CASE openComplexModal
  <2>1. /\ manual' = TRUE
        /\ UNCHANGED <<at, motion, dirty, soon, form, base, delayed, search,
                       net, shown, late>>
    BY <1>5 DEF openComplexModal, Acts
  <2>2. TypeOK'
    BY <2>1 DEF IInv, TypeOK
  <2>3. QED
    BY <2>1, <2>2, QuietStep
<1>6. ASSUME NEW query \in Forms, Edit(query) PROVE IInv'
  <2>1. /\ form' = query /\ delayed' \in {delayed, TRUE} /\ query \in Queries
        /\ UNCHANGED <<at, motion, dirty, manual, soon, base, search, net, shown, late>>
    BY <1>6, MapPageAssumption DEF Edit, Acts
  <2>2. TypeOK'
    BY <2>1 DEF IInv, TypeOK
  <2>3. QED
    BY <2>1, <2>2, QuietStep
<1>7. CASE Submit
  <2>1. /\ search' = form /\ delayed' = FALSE
        /\ UNCHANGED <<at, motion, dirty, manual, soon, form, base, net, shown, late>>
    BY <1>7 DEF Submit, Acts
  <2>2. TypeOK'
    BY <2>1 DEF IInv, TypeOK
  <2>3. QED
    BY <2>1, <2>2, QuietStep
<1>8. QED
  BY <1>1, <1>2, <1>3, <1>4, <1>5, <1>6, <1>7 DEF UserNext

LEMMA NextInv == IInv /\ [Next]_vars => IInv'
<1> SUFFICES ASSUME IInv, [Next]_vars PROVE IInv'
  OBVIOUS
<1>1. CASE Idle
  <2>1. Rest /\ motion' = "still" /\ soon' = soon
    BY <1>1 DEF Idle
  <2>2. soon' \in BOOLEAN
    BY <2>1 DEF IInv, TypeOK
  <2>3. QED
    BY <2>1, <2>2, RestStep
<1>2. CASE FocusTimeout
  <2>1. Rest /\ soon /\ soon' = FALSE /\ motion' = motion
    BY <1>2 DEF FocusTimeout
  <2>2. motion' \in {"still", "moving"}
    BY <2>1 DEF IInv, TypeOK, MotionOK
  <2>3. QED
    BY <2>1, <2>2, RestStep
<1>3. CASE SearchDue \/ SearchFails \/ UNCHANGED vars
  <2>1. /\ search' \in {search, form, Nil} /\ delayed' \in {delayed, FALSE}
        /\ UNCHANGED <<at, motion, dirty, manual, soon, form, base, net, shown, late>>
    BY <1>3 DEF SearchDue, SearchFails, vars, mapVars, formVars
  <2>2. TypeOK'
    BY <2>1 DEF IInv, TypeOK
  <2>3. QED
    BY <2>1, <2>2, QuietStep
<1>4. ASSUME NEW kind \in Kinds, RequestFails(kind) PROVE IInv'
  BY <1>4, FailsStep
<1>5. QED
  BY <1>1, <1>2, <1>3, <1>4, UserStep, TimersStep, AnswersStep, SearchAnswerStep, KindsAre
     DEF Next, MapRequestEnds, CardsRequestEnds

-----------------------------------------------------------------------------
\* The types, and that a map at rest has what it wants, or a timer or a request
\* that will bring it, as long as no timer was late.
THEOREM PageInvariant == Spec => []IInv
BY InitInv, NextInv, PTL DEF Spec

\* When nothing is under way, no timer was late and the map has not failed, the map
\* shown is that of the viewport, and of the query as far as the cache key holds it.
THEOREM MapFollowsTheViewport == Spec => []SettledMapShowsViewport
<1>1. ASSUME IInv, Settled, Trusted("map"), ~late
      PROVE  shown.map.view = at /\ CacheKey(shown.map.query) = CacheKey(base)
  <2>1. /\ net.timer["map"] = Nil /\ net.live["map"] = Nil /\ ~net.failed["map"]
        /\ shown.map.clean /\ ~dirty /\ at # Nil
    BY <1>1, KindsAre, NoneIsNowhere DEF IInv, TypeOK, MotionOK, Settled, Trusted
  <2>2. KeysOK("map") /\ Follows("map")
    BY <1>1, KindsAre DEF IInv
  <2>3. net.last["map"] = at
    BY <2>1, <2>2 DEF Follows, Wanted
  <2>4. shown.map.view = at
    BY <2>1, <2>2, <2>3, KindsAre DEF KeysOK, ShownView
  <2>5. QED
    BY <1>1, <2>1, <2>3, <2>4 DEF IInv, AsksForBase
<1>2. IInv => SettledMapShowsViewport
  BY <1>1 DEF SettledMapShowsViewport
<1>3. QED
  BY <1>2, PageInvariant, PTL

\* The list beside it is that of the viewport or the whole list of the search, and of
\* the query exactly, when the map is close enough and was not moved by a click.
THEOREM ListFollowsTheViewport == Spec => []SettledListShowsViewport
<1>1. ASSUME IInv, Settled, Trusted("cards"), ~manual, ~late, at \in Close
      PROVE  shown.cards.view \in {at, Everywhere} /\ shown.cards.query = base
  <2>1. /\ net.timer["cards"] = Nil /\ net.live["cards"] = Nil /\ ~net.failed["cards"]
        /\ shown.cards.clean /\ ~dirty /\ at # Nil
    BY <1>1, KindsAre, NoneIsNowhere DEF IInv, TypeOK, MotionOK, Settled, Trusted
  <2>2. KeysOK("cards") /\ Follows("cards")
    BY <1>1, KindsAre DEF IInv
  <2>3. net.last["cards"] = at
    BY <1>1, <2>1, <2>2 DEF Follows, Wanted
  <2>4. shown.cards.view \in {at, Everywhere}
    BY <2>1, <2>2, <2>3, KindsAre DEF KeysOK, ShownView
  <2>5. QED
    BY <1>1, <2>1, <2>4 DEF IInv, AsksForBase
<1>2. IInv => SettledListShowsViewport
  BY <1>1 DEF SettledListShowsViewport
<1>3. QED
  BY <1>2, PageInvariant, PTL
==============================================================================
