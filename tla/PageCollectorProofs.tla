------------------------- MODULE PageCollectorProofs -------------------------
(***************************************************************************)
(* Why a dong that is not partial was read to its last page, and why a     *)
(* collect_dong that returns leaves no worker behind.                      *)
(*                                                                         *)
(* join() knows only a count: the argument is that the count is what waits *)
(* and what is worked on, so that nothing is left of either when it is     *)
(* zero.  A page that is not submitted is then still to be asked for, or   *)
(* an earlier page of its complex is, since the next page is put before    *)
(* this one is done.                                                       *)
(***************************************************************************)
EXTENDS PageCollector, FiniteSetTheorems, TLAPS

Busy == {w \in Worker : at[w] \in {"fetch", "submit"}}
Gone == {w \in Worker : at[w] = "returned"}

(* No page beyond the last one is worked on, waits or was submitted. *)
PagesExist ==
  /\ \A w \in Busy : item[w] \in Item /\ item[w].page <= pages[item[w].complex]
  /\ \A i \in 1..Len(queue) :
        queue[i] \in Item => queue[i].page <= pages[queue[i].complex]
  /\ \A c \in Complex : got[c] \subseteq 1..pages[c]

Counted == unfinished = Len(queue) + Cardinality(Busy)

(* Before join() is over there are only pages in the queue, ... *)
OnlyPages ==
  main = "join" => /\ \A i \in 1..Len(queue) : queue[i] \in Item
                   /\ Gone = {}

(* ... and after it only Nones, one for each worker that has not returned. *)
OnlyNones ==
  main \in {"gather", "returned"} =>
    /\ \A i \in 1..Len(queue) : queue[i] = None
    /\ Busy = {}
    /\ Len(queue) + Cardinality(Gone) = WorkerCount

AllReturned == main = "returned" => \A w \in Worker : at[w] = "returned"

(* Page n of c is still to be asked for, by itself or after an earlier one *)
Asked(c, n) ==
  \/ \E w \in Worker : at[w] = "fetch" /\ item[w].complex = c /\ item[w].page <= n
  \/ \E i \in 1..Len(queue) :
        queue[i] \in Item /\ queue[i].complex = c /\ queue[i].page <= n

InSubmit(c, n) ==
  \E w \in Worker : at[w] = "submit" /\ item[w].complex = c /\ item[w].page = n

NoneRaised == \A w \in Worker : at[w] # "raised"

NoPageForgotten ==
  ~partial /\ NoneRaised =>
    \A c \in Complex : \A n \in 1..pages[c] :
      n \in got[c] \/ InSubmit(c, n) \/ Asked(c, n)

IInv ==
  /\ TypeOK /\ PagesExist /\ Counted /\ OnlyPages
  /\ OnlyNones /\ AllReturned /\ NoPageForgotten

-----------------------------------------------------------------------------
LEMMA WorkersCounted ==
  /\ Cardinality(Complex) \in Nat \ {0}
  /\ WorkerCount \in Nat \ {0}
  /\ IsFiniteSet(Worker) /\ Cardinality(Worker) = WorkerCount
<1>1. Cardinality(Complex) \in Nat \ {0}
  BY CollectorAssumption, FS_CardinalityType, FS_EmptySet
<1>2. WorkerCount \in Nat \ {0}
  BY <1>1, CollectorAssumption DEF WorkerCount
<1>3. QED
  BY <1>1, <1>2, FS_Interval DEF Worker

LEMMA ItemIsPage ==
  /\ None \notin Item
  /\ \A x \in Item : x.complex \in Complex /\ x.page \in 1..MaxPages
  /\ \A c \in Complex, p \in 1..MaxPages : [complex |-> c, page |-> p] \in Item
BY CollectorAssumption DEF None, Item

LEMMA SubsetCounted ==
  ASSUME NEW S \in SUBSET Worker
  PROVE  IsFiniteSet(S) /\ Cardinality(S) \in Nat
BY WorkersCounted, FS_Subset, FS_CardinalityType

LEMMA SetToSeqIsOnto ==
  ASSUME NEW S, IsFiniteSet(S)
  PROVE  /\ Cardinality(S) \in Nat
         /\ SetToSeq(S) \in [1..Cardinality(S) -> S]
         /\ \A x \in S : \E i \in 1..Cardinality(S) : SetToSeq(S)[i] = x
<1> DEFINE D == 1..Cardinality(S)
<1>1. Cardinality(S) \in Nat /\ ExistsBijection(D, S)
  BY FS_CardinalityType
<1>2. PICK g \in Bijection(D, S) : TRUE
  BY <1>1 DEF ExistsBijection
<1>3. g \in [D -> S] /\ IsInjective(g)
  BY <1>2 DEF Bijection, Injection, IsInjective
<1>4. SetToSeq(S) \in [D -> S] /\ IsInjective(SetToSeq(S))
  BY <1>3 DEF SetToSeq
<1>5. SetToSeq(S) \in Injection(D, S)
  BY <1>4 DEF Injection, IsInjective
<1>6. IsFiniteSet(D) /\ Cardinality(D) = Cardinality(S)
  BY <1>1, FS_Interval
<1>7. SetToSeq(S) \in Surjection(D, S)
  BY <1>5, <1>6, FS_Injection
<1>8. QED
  BY <1>1, <1>4, <1>7 DEF Surjection

LEMMA QueueTakes ==
  ASSUME NEW S, NEW q \in Seq(S), q # <<>>
  PROVE  /\ Len(q) \in Nat \ {0} /\ 1 \in 1..Len(q)
         /\ Head(q) = q[1] /\ Head(q) \in S
         /\ Tail(q) \in Seq(S) /\ Len(Tail(q)) = Len(q) - 1
         /\ \A i \in 1..Len(Tail(q)) : i + 1 \in 1..Len(q) /\ Tail(q)[i] = q[i + 1]
         /\ \A i \in 1..Len(q) :
               i = 1 \/ (i - 1 \in 1..Len(Tail(q)) /\ Tail(q)[i - 1] = q[i])
<1>1. Len(q) \in Nat \ {0} /\ q \in [1..Len(q) -> S]
  OBVIOUS
<1>2. Head(q) = q[1] /\ Tail(q) \in Seq(S) /\ Len(Tail(q)) = Len(q) - 1
  OBVIOUS
<1>3. \A i \in 1..Len(q) - 1 : Tail(q)[i] = q[i + 1]
  OBVIOUS
<1>4. ASSUME NEW i \in 1..Len(q), i # 1
      PROVE  i - 1 \in 1..Len(q) - 1 /\ Tail(q)[i - 1] = q[i]
  <2>1. i - 1 \in 1..Len(q) - 1 /\ (i - 1) + 1 = i
    BY <1>1, <1>4
  <2>2. QED
    BY <1>3, <2>1
<1>5. Head(q) \in S /\ 1 \in 1..Len(q)
  BY <1>1, <1>2
<1>6. \A i \in 1..Len(q) - 1 : i + 1 \in 1..Len(q)
  BY <1>1
<1>7. PICK t : t = Tail(q)
  OBVIOUS
<1>8. 1..Len(t) = 1..Len(q) - 1 /\ Len(t) = Len(q) - 1 /\ t \in Seq(S)
  BY <1>2, <1>7
<1>9. \A i \in 1..Len(t) : i + 1 \in 1..Len(q) /\ t[i] = q[i + 1]
  BY <1>3, <1>6, <1>7, <1>8
<1>10. \A i \in 1..Len(q) : i = 1 \/ (i - 1 \in 1..Len(t) /\ t[i - 1] = q[i])
  <2>1. ASSUME NEW i \in 1..Len(q), i # 1
        PROVE  i - 1 \in 1..Len(t) /\ t[i - 1] = q[i]
    <3>1. i - 1 \in 1..Len(q) - 1 /\ Tail(q)[i - 1] = q[i]
      BY <1>4, <2>1
    <3>2. QED
      BY <1>7, <1>8, <3>1, Zenon
  <2>2. QED
    BY <2>1, Zenon
<1>11. QED
  BY <1>1, <1>2, <1>5, <1>7, <1>8, <1>9, <1>10, Zenon

LEMMA QueuePuts ==
  ASSUME NEW S, NEW q \in Seq(S), NEW x \in S
  PROVE  /\ Append(q, x) \in Seq(S) /\ Len(Append(q, x)) = Len(q) + 1
         /\ Append(q, x)[Len(q) + 1] = x
         /\ \A i \in 1..Len(q) : Append(q, x)[i] = q[i]
OBVIOUS

LEMMA InitInv == Init => IInv
<1> SUFFICES ASSUME Init PROVE IInv
  OBVIOUS
<1> DEFINE N == Cardinality(Complex)
<1>1. /\ N \in Nat /\ SetToSeq(Complex) \in [1..N -> Complex]
      /\ \A c \in Complex : \E i \in 1..N : SetToSeq(Complex)[i] = c
  BY SetToSeqIsOnto, CollectorAssumption
<1>2. /\ queue \in Seq(Item) /\ Len(queue) = N
      /\ \A i \in 1..N : /\ queue[i] \in Item /\ queue[i].page = 1
                         /\ queue[i].complex = SetToSeq(Complex)[i]
  <2>1. \A i \in 1..N : [complex |-> SetToSeq(Complex)[i], page |-> 1] \in Item
    BY <1>1, ItemIsPage, CollectorAssumption
  <2>2. queue \in [1..N -> Item]
    BY <2>1 DEF Init
  <2>3. queue \in Seq(Item) /\ Len(queue) = N
    BY <1>1, <2>2
  <2>4. QED
    BY <2>1, <2>3 DEF Init
<1>3. Busy = {} /\ Gone = {} /\ Cardinality(Busy) = 0
  BY FS_EmptySet DEF Init, Busy, Gone
<1>4. \A c \in Complex : pages[c] \in 1..MaxPages + 1
  BY DEF Init
<1>5. TypeOK
  <2>1. queue \in Seq(Item \cup {None})
    BY <1>2
  <2>2. at \in [Worker -> {"get"}] /\ item \in [Worker -> {None}]
        /\ got \in [Complex -> {{}}]
    BY DEF Init
  <2>3. QED
    BY <1>1, <2>1, <2>2 DEF Init, TypeOK
<1>6. PagesExist /\ Counted /\ OnlyPages /\ OnlyNones /\ AllReturned
  <2>1. PagesExist
    BY <1>1, <1>2, <1>3, <1>4, CollectorAssumption DEF Init, PagesExist
  <2>2. QED
    BY <2>1, <1>1, <1>2, <1>3 DEF Init, Counted, OnlyPages, OnlyNones, AllReturned
<1>7. NoPageForgotten
  <2> SUFFICES ASSUME NEW c \in Complex, NEW n \in 1..pages[c]
               PROVE  Asked(c, n)
    BY DEF NoPageForgotten
  <2>1. PICK i \in 1..N : SetToSeq(Complex)[i] = c
    BY <1>1
  <2>2. queue[i] \in Item /\ queue[i].complex = c /\ queue[i].page <= n
    BY <1>2, <1>4, <2>1, CollectorAssumption
  <2>3. QED
    BY <1>2, <2>2 DEF Asked
<1>8. QED
  BY <1>5, <1>6, <1>7 DEF IInv

-----------------------------------------------------------------------------
LEMMA BusyIsOpen ==
  ASSUME IInv, NEW w \in Busy
  PROVE  /\ main \notin {"gather", "returned"}
         /\ w \in Worker /\ item[w] \in Item
         /\ item[w].complex \in Complex /\ item[w].page \in 1..MaxPages
         /\ item[w].page <= pages[item[w].complex]
         /\ pages[item[w].complex] \in 1..MaxPages + 1
<1>1. w \in Worker /\ item[w] \in Item /\ item[w].page <= pages[item[w].complex]
  BY DEF IInv, PagesExist, Busy
<1>2. main \notin {"gather", "returned"}
  BY DEF IInv, OnlyNones
<1>3. QED
  BY <1>1, <1>2, ItemIsPage DEF IInv, TypeOK

\* An item that is done is counted no more, and its worker is not busy.
LEMMA DoneStep ==
  ASSUME IInv, NEW w \in Busy, NEW place \in {"get", "raised"}, TaskDone(w, place),
         UNCHANGED <<pages, queue, main>>,
         partial' \in BOOLEAN,
         got' \in [Complex -> SUBSET (1..MaxPages)],
         \A c \in Complex : got'[c] \subseteq 1..pages[c]
  PROVE  TypeOK' /\ PagesExist' /\ Counted' /\ OnlyPages' /\ OnlyNones' /\ AllReturned'
<1>1. w \in Worker /\ main \notin {"gather", "returned"}
  BY BusyIsOpen
<1>2. /\ at' = [at EXCEPT ![w] = place] /\ item' = [item EXCEPT ![w] = None]
      /\ unfinished' = unfinished - 1
  BY DEF TaskDone
<1>3. /\ at'[w] = place /\ item'[w] = None
      /\ \A v \in Worker : v # w => at'[v] = at[v] /\ item'[v] = item[v]
  BY <1>1, <1>2 DEF IInv, TypeOK
<1>4. PICK B : B = Busy
  OBVIOUS
<1>5. Busy' = B \ {w}
  BY <1>1, <1>3, <1>4 DEF Busy
<1>6. /\ IsFiniteSet(B) /\ Cardinality(B) \in Nat
      /\ Cardinality(B \ {w}) = Cardinality(B) - 1 /\ Cardinality(B \ {w}) \in Nat
  <2>1. IsFiniteSet(B) /\ Cardinality(B) \in Nat
    BY <1>4, SubsetCounted DEF Busy
  <2>2. B \ {w} \in SUBSET Worker
    BY <1>4 DEF Busy
  <2>3. Cardinality(B \ {w}) \in Nat
    BY <2>2, SubsetCounted
  <2>4. w \in B
    BY <1>4
  <2>5. QED
    BY <2>1, <2>3, <2>4, FS_RemoveElement
<1>7. Len(queue) \in Nat /\ unfinished = Len(queue) + Cardinality(B)
  BY <1>4 DEF IInv, TypeOK, Counted
<1>8. unfinished' \in Nat /\ Counted'
  BY <1>2, <1>5, <1>6, <1>7 DEF Counted
<1>9. TypeOK'
  <2>1. at' \in [Worker -> {"get", "fetch", "submit", "raised", "returned"}]
        /\ item' \in [Worker -> Item \cup {None}]
    BY <1>2 DEF IInv, TypeOK
  <2>2. QED
    BY <1>8, <2>1 DEF IInv, TypeOK
<1>10. PagesExist'
  BY <1>3, <1>4, <1>5 DEF IInv, PagesExist, Busy
<1>11. OnlyPages'
  BY <1>3 DEF IInv, OnlyPages, Gone
<1>12. QED
  BY <1>1, <1>8, <1>9, <1>10, <1>11 DEF OnlyNones, AllReturned

LEMMA RaisesStep ==
  ASSUME IInv, NEW w \in Worker, FetchRaises(w) \/ SubmitRaises(w)
  PROVE  IInv'
<1>1. /\ w \in Busy /\ TaskDone(w, "raised")
      /\ UNCHANGED <<pages, queue, main, got>>
      /\ partial' \in BOOLEAN
  BY DEF FetchRaises, SubmitRaises, Busy, IInv, TypeOK
<1>2. TypeOK' /\ PagesExist' /\ Counted' /\ OnlyPages' /\ OnlyNones' /\ AllReturned'
  BY <1>1, DoneStep DEF IInv, TypeOK, PagesExist
<1>3. at'[w] = "raised"
  BY <1>1 DEF TaskDone, IInv, TypeOK
<1>4. NoPageForgotten'
  BY <1>3 DEF NoPageForgotten, NoneRaised
<1>5. QED
  BY <1>2, <1>4 DEF IInv

LEMMA PageUnusableStep ==
  ASSUME IInv, NEW w \in Worker, PageUnusable(w)
  PROVE  IInv'
<1>1. /\ w \in Busy /\ TaskDone(w, "get") /\ UNCHANGED <<pages, queue, main, got>>
      /\ partial' = TRUE
  BY DEF PageUnusable, Busy, IInv, TypeOK
<1>2. TypeOK' /\ PagesExist' /\ Counted' /\ OnlyPages' /\ OnlyNones' /\ AllReturned'
  BY <1>1, DoneStep DEF IInv, TypeOK, PagesExist
<1>3. QED
  BY <1>1, <1>2 DEF IInv, NoPageForgotten

\* The page in the worker's hands is in got when it is not in submit.
LEMMA SubmittedStep ==
  ASSUME IInv, NEW w \in Worker, Submitted(w)
  PROVE  IInv'
<1> DEFINE k == item[w].complex
           p == item[w].page
<1>1. /\ w \in Busy /\ at[w] = "submit" /\ TaskDone(w, "get")
      /\ UNCHANGED <<pages, queue, main, partial>>
      /\ got' = [got EXCEPT ![k] = @ \cup {p}]
  BY DEF Submitted, Busy
<1>2. /\ k \in Complex /\ p \in 1..MaxPages /\ p <= pages[k]
      /\ pages[k] \in 1..MaxPages + 1
  BY <1>1, BusyIsOpen
<1>3. /\ got'[k] = got[k] \cup {p}
      /\ \A c \in Complex : c # k => got'[c] = got[c]
      /\ \A c \in Complex : got[c] \subseteq got'[c]
  BY <1>1, <1>2 DEF IInv, TypeOK
<1>4. /\ got' \in [Complex -> SUBSET (1..MaxPages)]
      /\ \A c \in Complex : got'[c] \subseteq 1..pages[c]
  <2>1. got[k] \cup {p} \in SUBSET (1..MaxPages)
    BY <1>2 DEF IInv, TypeOK
  <2>2. p \in 1..pages[k]
    BY <1>2, CollectorAssumption
  <2>3. QED
    BY <1>1, <1>3, <2>1, <2>2 DEF IInv, TypeOK, PagesExist
<1>5. TypeOK' /\ PagesExist' /\ Counted' /\ OnlyPages' /\ OnlyNones' /\ AllReturned'
  BY <1>1, <1>4, DoneStep DEF IInv, TypeOK
<1>6. /\ at'[w] = "get"
      /\ \A v \in Worker : v # w => at'[v] = at[v] /\ item'[v] = item[v]
  BY <1>1 DEF TaskDone, IInv, TypeOK
<1>7. NoPageForgotten'
  <2> SUFFICES ASSUME ~partial', NoneRaised', NEW c \in Complex, NEW n \in 1..pages[c]
               PROVE  n \in got'[c] \/ InSubmit(c, n)' \/ Asked(c, n)'
    BY <1>1 DEF NoPageForgotten
  <2>1. ~partial /\ NoneRaised
    BY <1>1, <1>6 DEF NoneRaised
  <2>2. CASE n \in got[c]
    BY <1>3, <2>2
  <2>3. CASE InSubmit(c, n)
    BY <1>3, <1>6, <2>3 DEF InSubmit
  <2>4. CASE Asked(c, n)
    BY <1>1, <1>6, <2>4 DEF Asked
  <2>5. QED
    BY <2>1, <2>2, <2>3, <2>4 DEF IInv, NoPageForgotten
<1>8. QED
  BY <1>5, <1>7 DEF IInv

-----------------------------------------------------------------------------
\* What a worker takes goes from the queue into its hands, and a None ends it.
LEMMA GetStep ==
  ASSUME IInv, NEW w \in Worker, Get(w)
  PROVE  IInv'
<1> DEFINE h == Head(queue)
<1>1. /\ at[w] = "get" /\ queue # <<>> /\ queue' = Tail(queue)
      /\ item' = [item EXCEPT ![w] = h]
      /\ UNCHANGED <<pages, partial, got, main>>
  BY DEF Get
<1>2. /\ queue \in Seq(Item \cup {None}) /\ Len(queue) \in Nat \ {0}
      /\ h = queue[1] /\ h \in Item \cup {None}
      /\ queue' \in Seq(Item \cup {None}) /\ Len(queue') = Len(queue) - 1
      /\ \A i \in 1..Len(queue') : i + 1 \in 1..Len(queue) /\ queue'[i] = queue[i + 1]
      /\ \A i \in 1..Len(queue) : i = 1 \/ (i - 1 \in 1..Len(queue') /\ queue'[i - 1] = queue[i])
      /\ 1 \in 1..Len(queue)
  <2>1. queue \in Seq(Item \cup {None})
    BY DEF IInv, TypeOK
  <2>2. QED
    BY <1>1, <2>1, QueueTakes
<1>3. /\ item'[w] = h /\ item' \in [Worker -> Item \cup {None}]
      /\ \A v \in Worker : v # w => item'[v] = item[v]
  BY <1>1, <1>2 DEF IInv, TypeOK
<1>4. PICK B : B = Busy
  OBVIOUS
<1>5. PICK G : G = Gone
  OBVIOUS
<1>6. /\ w \notin B /\ w \notin G
      /\ IsFiniteSet(B) /\ Cardinality(B) \in Nat
      /\ IsFiniteSet(G) /\ Cardinality(G) \in Nat
  BY <1>1, <1>4, <1>5, SubsetCounted DEF Busy, Gone
<1>7. /\ Cardinality(B \cup {w}) = Cardinality(B) + 1
      /\ Cardinality(G \cup {w}) = Cardinality(G) + 1
  BY <1>6, FS_AddElement
<1>8. unfinished \in Nat /\ unfinished = Len(queue) + Cardinality(B)
  BY <1>4 DEF IInv, TypeOK, Counted
<1>9. CASE h = None
  <2>1. at' = [at EXCEPT ![w] = "returned"] /\ unfinished' = unfinished - 1
    BY <1>1, <1>9 DEF Get
  <2>2. at'[w] = "returned" /\ \A v \in Worker : v # w => at'[v] = at[v]
    BY <2>1 DEF IInv, TypeOK
  <2>3. Busy' = B /\ Gone' = G \cup {w}
    BY <1>1, <1>4, <1>5, <2>2 DEF Busy, Gone
  <2>4. TypeOK' /\ Counted'
    <3>1. unfinished' \in Nat /\ Counted'
      BY <1>2, <1>6, <1>8, <2>1, <2>3 DEF Counted
    <3>2. QED
      BY <1>1, <1>2, <1>3, <2>1, <3>1 DEF IInv, TypeOK
  <2>5. PagesExist'
    BY <1>1, <1>2, <1>3, <1>4, <2>3 DEF IInv, PagesExist, Busy
  <2>6. main # "join"
    BY <1>2, <1>9, ItemIsPage DEF IInv, OnlyPages
  <2>7. OnlyNones'
    <3> SUFFICES ASSUME main \in {"gather", "returned"}
                 PROVE  /\ \A i \in 1..Len(queue') : queue'[i] = None
                        /\ Busy' = {}
                        /\ Len(queue') + Cardinality(Gone') = WorkerCount
      BY <1>1 DEF OnlyNones
    <3>1. /\ \A i \in 1..Len(queue) : queue[i] = None
          /\ B = {} /\ Len(queue) + Cardinality(G) = WorkerCount
      BY <1>4, <1>5 DEF IInv, OnlyNones
    <3>2. Len(queue') + Cardinality(G \cup {w}) = WorkerCount
      BY <1>2, <1>6, <1>7, <3>1, WorkersCounted
    <3>3. QED
      BY <1>2, <2>3, <3>1, <3>2
  <2>8. AllReturned'
    BY <1>1 DEF IInv, AllReturned
  <2>9. NoPageForgotten'
    <3> SUFFICES ASSUME ~partial', NoneRaised', NEW c \in Complex, NEW n \in 1..pages[c]
                 PROVE  n \in got'[c] \/ InSubmit(c, n)' \/ Asked(c, n)'
      BY <1>1 DEF NoPageForgotten
    <3>1. ~partial /\ NoneRaised
      BY <1>1, <2>2 DEF NoneRaised
    <3>2. CASE InSubmit(c, n)
      BY <1>1, <1>3, <2>2, <3>2 DEF InSubmit
    <3>3. CASE Asked(c, n)
      <4>1. CASE \E v \in Worker : at[v] = "fetch" /\ item[v].complex = c /\ item[v].page <= n
        BY <1>1, <1>3, <2>2, <4>1 DEF Asked
      <4>2. ASSUME NEW i \in 1..Len(queue),
                   queue[i] \in Item, queue[i].complex = c, queue[i].page <= n
            PROVE  Asked(c, n)'
        <5>1. i # 1
          BY <1>2, <1>9, <4>2, ItemIsPage
        <5>2. i - 1 \in 1..Len(queue') /\ queue'[i - 1] = queue[i]
          BY <1>2, <5>1
        <5>3. QED
          BY <4>2, <5>2 DEF Asked
      <4>3. QED
        BY <3>3, <4>1, <4>2 DEF Asked
    <3>4. QED
      BY <1>1, <3>1, <3>2, <3>3 DEF IInv, NoPageForgotten
  <2>10. QED
    BY <1>1, <2>4, <2>5, <2>6, <2>7, <2>8, <2>9 DEF IInv, OnlyPages
<1>10. CASE h # None
  <2>1. at' = [at EXCEPT ![w] = "fetch"] /\ unfinished' = unfinished
    BY <1>1, <1>10 DEF Get
  <2>2. at'[w] = "fetch" /\ \A v \in Worker : v # w => at'[v] = at[v]
    BY <2>1 DEF IInv, TypeOK
  <2>3. Busy' = B \cup {w} /\ Gone' = G
    BY <1>1, <1>4, <1>5, <2>2 DEF Busy, Gone
  <2>4. h \in Item
    BY <1>2, <1>10
  <2>5. TypeOK' /\ Counted'
    <3>1. Counted'
      BY <1>2, <1>6, <1>7, <1>8, <2>1, <2>3 DEF Counted
    <3>2. QED
      BY <1>1, <1>2, <1>3, <2>1, <3>1 DEF IInv, TypeOK
  <2>6. PagesExist'
    <3>1. h.page <= pages[h.complex]
      BY <1>2, <2>4 DEF IInv, PagesExist
    <3>2. QED
      BY <1>1, <1>2, <1>3, <1>4, <2>3, <2>4, <3>1 DEF IInv, PagesExist, Busy
  <2>7. main \notin {"gather", "returned"}
    BY <1>2, <1>10 DEF IInv, OnlyNones
  <2>8. OnlyPages'
    BY <1>1, <1>2, <1>5, <2>3 DEF IInv, OnlyPages
  <2>9. NoPageForgotten'
    <3> SUFFICES ASSUME ~partial', NoneRaised', NEW c \in Complex, NEW n \in 1..pages[c]
                 PROVE  n \in got'[c] \/ InSubmit(c, n)' \/ Asked(c, n)'
      BY <1>1 DEF NoPageForgotten
    <3>1. ~partial /\ NoneRaised
      BY <1>1, <2>2 DEF NoneRaised
    <3>2. CASE InSubmit(c, n)
      BY <1>1, <1>3, <2>2, <3>2 DEF InSubmit
    <3>3. CASE Asked(c, n)
      <4>1. CASE \E v \in Worker : at[v] = "fetch" /\ item[v].complex = c /\ item[v].page <= n
        BY <1>1, <1>3, <2>2, <4>1 DEF Asked
      <4>2. ASSUME NEW i \in 1..Len(queue),
                   queue[i] \in Item, queue[i].complex = c, queue[i].page <= n
            PROVE  Asked(c, n)'
        <5>1. CASE i = 1
          BY <1>2, <1>3, <2>2, <4>2, <5>1 DEF Asked
        <5>2. CASE i - 1 \in 1..Len(queue') /\ queue'[i - 1] = queue[i]
          BY <4>2, <5>2 DEF Asked
        <5>3. QED
          BY <1>2, <5>1, <5>2
      <4>3. QED
        BY <3>3, <4>1, <4>2 DEF Asked
    <3>4. QED
      BY <1>1, <3>1, <3>2, <3>3 DEF IInv, NoPageForgotten
  <2>10. QED
    BY <1>1, <2>5, <2>6, <2>7, <2>8, <2>9 DEF IInv, OnlyNones, AllReturned
<1>11. QED
  BY <1>9, <1>10

\* The rows of page p wait to be submitted, and all pages after p are behind
\* page p + 1, unless the dong is partial.
LEMMA PageArrivesStep ==
  ASSUME IInv, NEW w \in Worker, NEW ids \in BOOLEAN, PageArrives(w, ids)
  PROVE  IInv'
<1> DEFINE k == item[w].complex
           p == item[w].page
           more == p < pages[k]
           next == [complex |-> k, page |-> p + 1]
<1>1. /\ w \in Busy /\ at[w] = "fetch" /\ at' = [at EXCEPT ![w] = "submit"]
      /\ partial' = (partial \/ (more /\ (~ids \/ p >= MaxPages)))
      /\ UNCHANGED <<pages, item, got, main>>
  BY DEF PageArrives, Busy
<1>2. /\ k \in Complex /\ p \in 1..MaxPages /\ p <= pages[k] /\ item[w] \in Item
      /\ pages[k] \in 1..MaxPages + 1 /\ main \notin {"gather", "returned"}
  BY <1>1, BusyIsOpen
<1>3. at'[w] = "submit" /\ \A v \in Worker : v # w => at'[v] = at[v]
  BY <1>1 DEF IInv, TypeOK
<1>4. PICK B : B = Busy
  OBVIOUS
<1>5. Busy' = B /\ Gone' = Gone
  BY <1>1, <1>3, <1>4 DEF Busy, Gone
<1>6. /\ Cardinality(B) \in Nat /\ queue \in Seq(Item \cup {None}) /\ Len(queue) \in Nat
      /\ unfinished \in Nat /\ unfinished = Len(queue) + Cardinality(B)
  BY <1>4, SubsetCounted DEF IInv, TypeOK, Counted, Busy
<1>7. at' \in [Worker -> {"get", "fetch", "submit", "raised", "returned"}]
      /\ partial' \in BOOLEAN
  BY <1>1 DEF IInv, TypeOK
<1>8. \/ UNCHANGED <<queue, unfinished>> /\ (more => partial')
      \/ /\ more /\ p < MaxPages
         /\ queue' = Append(queue, next) /\ unfinished' = unfinished + 1
  <2>1. CASE more /\ ids /\ p < MaxPages
    BY <2>1 DEF PageArrives
  <2>2. CASE ~(more /\ ids /\ p < MaxPages)
    <3>1. UNCHANGED <<queue, unfinished>>
      BY <2>2 DEF PageArrives
    <3>2. ~(p < MaxPages) => p >= MaxPages
      BY <1>2, CollectorAssumption
    <3>3. more => ~ids \/ p >= MaxPages
      BY <2>2, <3>2
    <3>4. QED
      BY <1>1, <3>1, <3>3
  <2>3. QED
    BY <2>1, <2>2
<1>9. /\ queue' \in Seq(Item \cup {None}) /\ unfinished' \in Nat
      /\ unfinished' = Len(queue') + Cardinality(B)
      /\ \A i \in 1..Len(queue) : i \in 1..Len(queue') /\ queue'[i] = queue[i]
      /\ \A i \in 1..Len(queue') :
            \/ i \in 1..Len(queue) /\ queue'[i] = queue[i]
            \/ queue'[i] = next /\ next \in Item /\ more
  <2>1. CASE UNCHANGED <<queue, unfinished>>
    BY <1>6, <2>1
  <2>2. CASE /\ more /\ p < MaxPages
             /\ queue' = Append(queue, next) /\ unfinished' = unfinished + 1
    <3>1. next \in Item
      BY <1>2, <2>2, ItemIsPage, CollectorAssumption
    <3>2. /\ queue' \in Seq(Item \cup {None}) /\ Len(queue') = Len(queue) + 1
          /\ queue'[Len(queue) + 1] = next
          /\ \A i \in 1..Len(queue) : queue'[i] = queue[i]
      BY <1>6, <2>2, <3>1, QueuePuts
    <3>3. more /\ unfinished' = unfinished + 1
      BY <2>2
    <3> HIDE DEF more, next
    <3>4. unfinished' \in Nat /\ unfinished' = Len(queue') + Cardinality(B)
      BY <1>6, <3>2, <3>3
    <3>5. \A i \in 1..Len(queue) : i \in 1..Len(queue') /\ queue'[i] = queue[i]
      BY <1>6, <3>2
    <3>6. \A i \in 1..Len(queue') : i \in 1..Len(queue) \/ i = Len(queue) + 1
      BY <1>6, <3>2
    <3>7. \A i \in 1..Len(queue') :
             \/ i \in 1..Len(queue) /\ queue'[i] = queue[i]
             \/ queue'[i] = next /\ next \in Item /\ more
      BY <3>1, <3>2, <3>3, <3>6
    <3>8. QED
      BY <3>2, <3>4, <3>5, <3>7
  <2>3. QED
    BY <1>8, <2>1, <2>2
<1>10. TypeOK' /\ Counted'
  BY <1>1, <1>5, <1>7, <1>9 DEF IInv, TypeOK, Counted
<1>11. PagesExist'
  <2>1. more => next.page <= pages[next.complex]
    BY <1>2, CollectorAssumption
  <2>2. QED
    BY <1>1, <1>4, <1>5, <1>9, <2>1 DEF IInv, PagesExist
<1>12. OnlyPages'
  BY <1>1, <1>5, <1>9 DEF IInv, OnlyPages
<1>13. NoPageForgotten'
  <2> SUFFICES ASSUME ~partial', NoneRaised', NEW c \in Complex, NEW n \in 1..pages[c]
               PROVE  n \in got'[c] \/ InSubmit(c, n)' \/ Asked(c, n)'
    BY <1>1 DEF NoPageForgotten
  <2>1. ~partial /\ NoneRaised
    BY <1>1, <1>3 DEF NoneRaised
  <2>2. CASE InSubmit(c, n)
    BY <1>1, <1>3, <2>2 DEF InSubmit
  <2>3. ASSUME NEW v \in Worker, at[v] = "fetch", item[v].complex = c, item[v].page <= n
        PROVE  InSubmit(c, n)' \/ Asked(c, n)'
    <3>1. CASE v # w
      BY <1>1, <1>3, <2>3, <3>1 DEF Asked
    <3>2. CASE v = w /\ n = p
      BY <1>1, <1>3, <2>3, <3>2 DEF InSubmit
    <3>3. CASE v = w /\ n # p
      <4>1. c = k /\ n \in Nat /\ p + 1 <= n /\ more
        BY <1>2, <2>3, <3>3, CollectorAssumption
      <4>2. queue' = Append(queue, next) /\ p < MaxPages
        BY <1>8, <4>1
      <4>3. /\ Len(queue') \in 1..Len(queue') /\ queue'[Len(queue')] = next
        BY <1>6, <4>2
      <4>4. next \in Item
        BY <1>2, <4>2, ItemIsPage, CollectorAssumption
      <4>5. QED
        BY <4>1, <4>3, <4>4 DEF Asked
    <3>4. QED
      BY <3>1, <3>2, <3>3
  <2>4. ASSUME NEW i \in 1..Len(queue),
               queue[i] \in Item, queue[i].complex = c, queue[i].page <= n
        PROVE  Asked(c, n)'
    BY <1>9, <2>4 DEF Asked
  <2>5. QED
    BY <1>1, <2>1, <2>2, <2>3, <2>4 DEF IInv, NoPageForgotten, Asked
<1>14. QED
  BY <1>1, <1>2, <1>10, <1>11, <1>12, <1>13 DEF IInv, OnlyNones, AllReturned

-----------------------------------------------------------------------------
LEMMA NonesAreSent ==
  ASSUME IInv, NEW place \in {"gather", "gatherCancelled"}, SendNone(place)
  PROVE  /\ queue' \in Seq(Item \cup {None}) /\ unfinished' \in Nat
         /\ Len(queue') = Len(queue) + WorkerCount
         /\ \A i \in 1..Len(queue) : i \in 1..Len(queue') /\ queue'[i] = queue[i]
         /\ \A i \in 1..Len(queue') :
               \/ i \in 1..Len(queue) /\ queue'[i] = queue[i]
               \/ queue'[i] = None
<1> DEFINE q == [i \in Worker |-> None]
<1>1. WorkerCount \in Nat /\ unfinished \in Nat
      /\ queue \in Seq(Item \cup {None}) /\ Len(queue) \in Nat
  BY WorkersCounted DEF IInv, TypeOK
<1>2. q \in Seq(Item \cup {None}) /\ Len(q) = WorkerCount
  BY <1>1 DEF Worker
<1>3. \A i \in 1..WorkerCount : q[i] = None
  BY DEF Worker
<1> HIDE DEF q
<1>4. /\ queue \o q \in Seq(Item \cup {None})
      /\ Len(queue \o q) = Len(queue) + WorkerCount
      /\ \A i \in 1..Len(queue) : (queue \o q)[i] = queue[i]
      /\ \A i \in 1..Len(queue) + WorkerCount :
            i > Len(queue) => (queue \o q)[i] = q[i - Len(queue)]
  BY <1>1, <1>2
<1>5. queue' = queue \o q /\ unfinished' = unfinished + WorkerCount
  BY DEF SendNone, q
<1>6. ASSUME NEW i \in 1..Len(queue) + WorkerCount, i \notin 1..Len(queue)
      PROVE  (queue \o q)[i] = None
  <2>1. i > Len(queue) /\ i - Len(queue) \in 1..WorkerCount
    BY <1>1, <1>6
  <2>2. QED
    BY <1>3, <1>4, <2>1
<1>7. QED
  BY <1>1, <1>4, <1>5, <1>6

\* The Nones change nothing of what is asked for.
LEMMA NonesStep ==
  ASSUME IInv, NEW place \in {"gather", "gatherCancelled"}, SendNone(place),
         main = "join"
  PROVE  TypeOK' /\ PagesExist' /\ Counted' /\ NoPageForgotten'
<1>1. /\ main' = place /\ unfinished' = unfinished + WorkerCount
      /\ UNCHANGED <<pages, at, item, partial, got>>
  BY DEF SendNone
<1>2. /\ queue' \in Seq(Item \cup {None}) /\ unfinished' \in Nat
      /\ Len(queue') = Len(queue) + WorkerCount
      /\ \A i \in 1..Len(queue) : i \in 1..Len(queue') /\ queue'[i] = queue[i]
      /\ \A i \in 1..Len(queue') :
            \/ i \in 1..Len(queue) /\ queue'[i] = queue[i]
            \/ queue'[i] = None
  BY NonesAreSent
<1>3. PICK B : B = Busy
  OBVIOUS
<1>4. Busy' = B
  BY <1>1, <1>3 DEF Busy
<1>5. Counted'
  <2>1. WorkerCount \in Nat /\ Len(queue) \in Nat /\ Cardinality(B) \in Nat
        /\ unfinished = Len(queue) + Cardinality(B)
    BY <1>3, WorkersCounted, SubsetCounted DEF IInv, TypeOK, Counted, Busy
  <2>2. QED
    BY <1>1, <1>2, <1>4, <2>1 DEF Counted
<1>6. TypeOK'
  BY <1>1, <1>2 DEF IInv, TypeOK
<1>7. PagesExist'
  BY <1>1, <1>2, <1>3, <1>4, ItemIsPage DEF IInv, PagesExist
<1>8. NoPageForgotten'
  <2> SUFFICES ASSUME ~partial', NoneRaised', NEW c \in Complex, NEW n \in 1..pages[c]
               PROVE  n \in got'[c] \/ InSubmit(c, n)' \/ Asked(c, n)'
    BY <1>1 DEF NoPageForgotten
  <2>1. ~partial /\ NoneRaised
    BY <1>1 DEF NoneRaised
  <2>2. CASE InSubmit(c, n)
    BY <1>1, <2>2 DEF InSubmit
  <2>3. CASE Asked(c, n)
    BY <1>1, <1>2, <2>3 DEF Asked
  <2>4. QED
    BY <1>1, <2>1, <2>2, <2>3 DEF IInv, NoPageForgotten
<1>9. QED
  BY <1>5, <1>6, <1>7, <1>8

\* With nothing unfinished, the queue is empty and nobody is busy.
LEMMA JoinedStep ==
  ASSUME IInv, Joined
  PROVE  IInv'
<1>1. main = "join" /\ unfinished = 0 /\ SendNone("gather")
  BY DEF Joined
<1>2. TypeOK' /\ PagesExist' /\ Counted' /\ NoPageForgotten'
  BY <1>1, NonesStep
<1>3. main' = "gather" /\ UNCHANGED at
  BY <1>1 DEF SendNone
<1>4. Busy \in SUBSET Worker /\ IsFiniteSet(Busy) /\ Cardinality(Busy) \in Nat
  BY SubsetCounted DEF Busy
<1>5. Len(queue) = 0 /\ Cardinality(Busy) = 0
  BY <1>1, <1>4 DEF IInv, TypeOK, Counted
<1>6. Busy = {} /\ Gone = {}
  BY <1>1, <1>4, <1>5, FS_EmptySet DEF IInv, OnlyPages
<1>7. /\ Len(queue') = WorkerCount
      /\ \A i \in 1..Len(queue') : queue'[i] = None
  BY <1>1, <1>5, NonesAreSent, WorkersCounted
<1>8. Busy' = {} /\ Gone' = {}
  BY <1>3, <1>6 DEF Busy, Gone
<1>9. Len(queue') + Cardinality(Gone') = WorkerCount
  BY <1>7, <1>8, FS_EmptySet, WorkersCounted
<1>10. QED
  BY <1>2, <1>3, <1>7, <1>8, <1>9 DEF IInv, OnlyPages, OnlyNones, AllReturned

LEMMA JoinCancelledStep ==
  ASSUME IInv, JoinCancelled
  PROVE  IInv'
<1>1. main = "join" /\ SendNone("gatherCancelled")
  BY DEF JoinCancelled
<1>2. TypeOK' /\ PagesExist' /\ Counted' /\ NoPageForgotten'
  BY <1>1, NonesStep
<1>3. main' = "gatherCancelled"
  BY <1>1 DEF SendNone
<1>4. QED
  BY <1>2, <1>3 DEF IInv, OnlyPages, OnlyNones, AllReturned

\* collect_dong goes on by itself
LEMMA MainStep ==
  ASSUME IInv, UNCHANGED <<pages, workerVars>>, main \in {"gather", "gatherCancelled"},
         \/ main' = "raised"
         \/ main = "gather" /\ main' = "returned" /\ \A w \in Worker : at[w] = "returned"
  PROVE  IInv'
<1>1. UNCHANGED <<pages, queue, unfinished, at, item, partial, got>>
  BY DEF workerVars
<1>2. TypeOK' /\ PagesExist' /\ Counted'
  BY <1>1 DEF IInv, TypeOK, PagesExist, Counted, Busy
<1>3. OnlyPages' /\ OnlyNones' /\ AllReturned'
  BY <1>1 DEF IInv, OnlyPages, OnlyNones, AllReturned, Busy, Gone
<1>4. NoPageForgotten'
  BY <1>1 DEF IInv, NoPageForgotten, NoneRaised, InSubmit, Asked
<1>5. QED
  BY <1>2, <1>3, <1>4 DEF IInv

LEMMA GatheredStep ==
  ASSUME IInv, Gathered
  PROVE  IInv'
<1>1. /\ UNCHANGED <<pages, workerVars>> /\ main \in {"gather", "gatherCancelled"}
      /\ \/ main' = "raised"
         \/ main = "gather" /\ main' = "returned" /\ \A w \in Worker : at[w] = "returned"
  BY DEF Gathered
<1>2. QED
  BY <1>1, MainStep

\* Nobody was busy, and collect_dong does not return.
LEMMA GatherCancelledStep ==
  ASSUME IInv, GatherCancelled
  PROVE  IInv'
<1>1. /\ main = "gather" /\ main' = "raised"
      /\ at' = [w \in Worker |-> IF at[w] = "returned" THEN "returned" ELSE "raised"]
      /\ UNCHANGED <<pages, queue, unfinished, item, partial, got>>
  BY DEF GatherCancelled
<1>2. Busy = {} /\ Busy' = {}
  BY <1>1 DEF IInv, OnlyNones, Busy
<1>3. TypeOK' /\ PagesExist' /\ Counted'
  BY <1>1, <1>2 DEF IInv, TypeOK, PagesExist, Counted
<1>4. NoPageForgotten'
  <2> SUFFICES ASSUME ~partial', NoneRaised', NEW c \in Complex, NEW n \in 1..pages[c]
               PROVE  n \in got'[c] \/ InSubmit(c, n)' \/ Asked(c, n)'
    BY <1>1 DEF NoPageForgotten
  <2>1. \A w \in Worker : at[w] = "returned"
    BY <1>1 DEF NoneRaised
  <2>2. ~partial /\ NoneRaised /\ ~InSubmit(c, n)
        /\ ~\E w \in Worker : at[w] = "fetch" /\ item[w].complex = c /\ item[w].page <= n
    BY <1>1, <2>1 DEF NoneRaised, InSubmit
  <2>3. QED
    BY <1>1, <2>2 DEF IInv, NoPageForgotten, Asked
<1>5. QED
  BY <1>1, <1>3, <1>4 DEF IInv, OnlyPages, OnlyNones, AllReturned

LEMMA NextInv == IInv /\ [Next]_vars => IInv'
<1> SUFFICES ASSUME IInv, [Next]_vars PROVE IInv'
  OBVIOUS
<1>1. ASSUME NEW w \in Worker, WorkerNext(w) PROVE IInv'
  BY <1>1, GetStep, RaisesStep, PageUnusableStep, PageArrivesStep, SubmittedStep
     DEF WorkerNext
<1>2. CASE UNCHANGED vars
  <2>1. UNCHANGED <<pages, queue, unfinished, at, item, partial, got, main>>
    BY <1>2 DEF vars, workerVars
  <2>2. TypeOK' /\ PagesExist' /\ Counted' /\ OnlyPages' /\ OnlyNones' /\ AllReturned'
    BY <2>1 DEF IInv, TypeOK, PagesExist, Counted, OnlyPages, OnlyNones, AllReturned,
                Busy, Gone
  <2>3. NoPageForgotten'
    BY <2>1 DEF IInv, NoPageForgotten, NoneRaised, InSubmit, Asked
  <2>4. QED
    BY <2>2, <2>3 DEF IInv
<1>3. QED
  BY <1>1, <1>2, JoinedStep, JoinCancelledStep, GatherCancelledStep, GatheredStep DEF Next

-----------------------------------------------------------------------------
\* The type invariant of collect_dong, and that page_queue's count of
\* unfinished items is what waits in the queue and what is worked on.
THEOREM CollectorInvariant == Spec => []IInv
BY InitInv, NextInv, PTL DEF Spec

\* A dong that collect_dong does not report as partial was read to the last
\* page of each complex, and the rows of every page were submitted.
THEOREM CompleteDongIsWhole == Spec => []CompleteMeansEveryPage
<1>1. ASSUME IInv, main = "returned", ~partial, NEW c \in Complex
      PROVE  got[c] = 1..pages[c]
  <2>1. \A w \in Worker : at[w] = "returned"
    BY <1>1 DEF IInv, AllReturned
  <2>2. \A i \in 1..Len(queue) : queue[i] = None
    BY <1>1 DEF IInv, OnlyNones
  <2>3. ASSUME NEW n \in 1..pages[c] PROVE n \in got[c]
    <3>1. NoneRaised /\ ~InSubmit(c, n) /\ ~Asked(c, n)
      BY <2>1, <2>2, ItemIsPage DEF NoneRaised, InSubmit, Asked
    <3>2. QED
      BY <1>1, <3>1 DEF IInv, NoPageForgotten
  <2>4. QED
    BY <1>1, <2>3 DEF IInv, PagesExist
<1>2. IInv => CompleteMeansEveryPage
  BY <1>1 DEF CompleteMeansEveryPage
<1>3. QED
  BY <1>2, CollectorInvariant, PTL

\* When collect_dong returns, every worker has taken its None and the queue is
\* empty: no coroutine of the dong runs on into the next job.
THEOREM NobodyIsLeftBehind == Spec => []ReturnLeavesNobody
<1>1. ASSUME IInv, main = "returned"
      PROVE  queue = <<>> /\ \A w \in Worker : at[w] = "returned"
  <2>1. \A w \in Worker : at[w] = "returned"
    BY <1>1 DEF IInv, AllReturned
  <2>2. Gone = Worker
    BY <2>1 DEF Gone
  <2>3. Len(queue) + WorkerCount = WorkerCount /\ Len(queue) \in Nat
    BY <1>1, <2>2, WorkersCounted DEF IInv, TypeOK, OnlyNones
  <2>4. Len(queue) = 0
    BY <2>3, WorkersCounted
  <2>5. QED
    BY <1>1, <2>1, <2>4 DEF IInv, TypeOK
<1>2. IInv => ReturnLeavesNobody
  BY <1>1 DEF ReturnLeavesNobody
<1>3. QED
  BY <1>2, CollectorInvariant, PTL
=============================================================================
