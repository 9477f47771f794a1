------------------------- MODULE DongLifecycleProofs -------------------------
(***************************************************************************)
(* Why a listing is removed only after two jobs have missed it.            *)
(*                                                                         *)
(* A scope leaves "pending" once and for all, and as long as nobody is     *)
(* late the worker that advances the dong is the only one of its job, so   *)
(* the scope it read is the scope it closes.  A job that has aged a        *)
(* listing has therefore closed its scope and does not age it again.       *)
(***************************************************************************)
EXTENDS DongLifecycle, FiniteSetTheorems, TLAPS

(* A worker that is not out has one job; nothing is left of a visit that   *)
(* is over, and nothing waits to be stored while the dong is advanced.     *)
Visits ==
  \A w \in Worker :
    /\ at[w] = "out" <=> \A j \in Job : w \notin hands[j]
    /\ \A i, j \in Job : w \in hands[i] /\ w \in hands[j] => i = j
    /\ at[w] = "out" => buffer[w] = {} /\ sighted[w] = {}
    /\ at[w] = "advancing" => buffer[w] = {}

MissesCounted ==
  \A a \in Article : /\ life[a] \in {"absent", "active"} => miss[a] = 0
                     /\ life[a] = "stale" => miss[a] = 1

(* On time, a job has one worker, and its scope is open while it advances. *)
OneHolder ==
  ~late => \A j \in Job : \A v, w \in hands[j] : v = w

OpenWhileAdvancing ==
  ~late => \A j \in Job : \A w \in hands[j] :
              at[w] = "advancing" => scope[j] = "pending"

(* Without an overlap one job visits the dong, and what its visit has seen *)
(* and stored is still that job's.                                         *)
VisitsAlone ==
  "overlap" \notin faults =>
    /\ \A i, j \in Job : hands[i] # {} /\ hands[j] # {} => i = j
    /\ \A j \in Job : \A w \in hands[j] : \A a \in sighted[w] :
          a \in buffer[w] \/ seenBy[a] = j

(* The jobs that aged a listing have closed their scopes, and there are as *)
(* many of them as its lifecycle says.                                     *)
AgedOnceByEach ==
  ~late /\ "deadlock" \notin faults =>
    \A a \in Article :
      /\ IsFiniteSet(missedBy[a])
      /\ life[a] \in {"absent", "active"} => missedBy[a] = {}
      /\ life[a] = "stale" => Cardinality(missedBy[a]) = 1
      /\ life[a] = "removed" => Cardinality(missedBy[a]) = 2
      /\ \A j \in missedBy[a] : scope[j] \in {"complete", "failed"}

IInv ==
  /\ TypeOK /\ Visits /\ MissesCounted /\ OneHolder
  /\ OpenWhileAdvancing /\ VisitsAlone /\ AgedOnceByEach

-----------------------------------------------------------------------------
LEMMA HasJob ==
  ASSUME IInv, NEW w \in Worker, at[w] # "out"
  PROVE  /\ JobOf(w) \in Job /\ w \in hands[JobOf(w)]
         /\ \A j \in Job : w \in hands[j] <=> j = JobOf(w)
<1>1. PICK j \in Job : w \in hands[j]
  BY DEF IInv, Visits
<1>2. JobOf(w) \in Job /\ w \in hands[JobOf(w)]
  BY <1>1 DEF JobOf
<1>3. QED
  BY <1>2 DEF IInv, Visits

LEMMA HolderIsWorker ==
  ASSUME IInv, NEW j \in Job, NEW v \in hands[j]
  PROVE  v \in Worker /\ at[v] # "out" /\ JobOf(v) = j
<1>1. v \in Worker /\ at[v] # "out"
  BY DEF IInv, TypeOK, Visits
<1>2. QED
  BY <1>1, HasJob

\* A new job on the board is in nobody's hands.
LEMMA PostStep ==
  ASSUME IInv, NEW j \in Job, Post(j)
  PROVE  IInv'
<1>1. /\ stage' = [i \in Job |-> IF i \in {j} THEN "waiting" ELSE stage[i]]
      /\ UNCHANGED <<hands, late, attempt, scope, life, miss, seenBy, missedBy,
                     at, buffer, sighted, faults>>
  BY DEF Post, Board!Post, rows, visit
<1>2. stage' \in [Job -> Board!Stage]
  BY <1>1 DEF IInv, TypeOK, Board!Stage
<1>3. TypeOK' /\ Visits' /\ MissesCounted'
  BY <1>1, <1>2 DEF IInv, TypeOK, Visits, MissesCounted
<1>4. OneHolder' /\ OpenWhileAdvancing' /\ VisitsAlone' /\ AgedOnceByEach'
  BY <1>1 DEF IInv, OneHolder, OpenWhileAdvancing, VisitsAlone, AgedOnceByEach
<1>5. QED
  BY <1>3, <1>4 DEF IInv

\* A worker comes to the dong: on time it is the first of its job.
LEMMA EntersStep ==
  ASSUME IInv, NEW w \in Worker, NEW j \in Job, Enters(w, j),
         \A i \in Job : w \notin hands[i],
         hands' = [hands EXCEPT ![j] = hands[j] \cup {w}],
         stage' \in [Job -> Board!Stage],
         late' \in BOOLEAN, ~late' => ~late /\ hands[j] = {}
  PROVE  IInv'
<1>1. at[w] = "out" /\ buffer[w] = {} /\ sighted[w] = {}
  BY DEF IInv, Visits
<1>2. /\ UNCHANGED <<life, miss, seenBy, missedBy, buffer, sighted>>
      /\ at' = [at EXCEPT ![w] = "collecting"]
      /\ attempt' = [attempt EXCEPT ![j] = @ + 1] /\ attempt[j] < MaxAttempts
      /\ scope' = [scope EXCEPT ![j] = IF @ = "none" THEN "pending" ELSE @]
      /\ faults' \in SUBSET {"overlap", "deadlock"} /\ faults \subseteq faults'
      /\ "overlap" \notin faults' => \A k \in Job \ {j} : hands[k] = {}
      /\ "deadlock" \notin faults' => "deadlock" \notin faults
  BY DEF Enters, OpenScope, rows, IInv, TypeOK
<1>3. /\ at'[w] = "collecting" /\ \A v \in Worker : v # w => at'[v] = at[v]
      /\ hands'[j] = hands[j] \cup {w} /\ \A i \in Job : i # j => hands'[i] = hands[i]
      /\ \A i \in Job : \/ scope'[i] = scope[i]
                        \/ scope[i] = "none" /\ scope'[i] = "pending"
      /\ \A i \in Job : i # j => scope'[i] = scope[i]
  BY <1>2 DEF IInv, TypeOK
<1>4. TypeOK'
  <2>1. attempt' \in [Job -> 0..MaxAttempts]
    BY <1>2, LifecycleAssumption DEF IInv, TypeOK
  <2>2. at' \in [Worker -> Place] /\ scope' \in [Job -> {"none", "pending", "complete", "failed"}]
    BY <1>2 DEF IInv, TypeOK, Place
  <2>3. hands' \in [Job -> SUBSET Worker]
    BY DEF IInv, TypeOK
  <2>4. QED
    BY <1>2, <2>1, <2>2, <2>3 DEF IInv, TypeOK
<1>5. Visits'
  <2> SUFFICES ASSUME NEW v \in Worker
               PROVE  /\ at'[v] = "out" <=> \A i \in Job : v \notin hands'[i]
                      /\ \A i, k \in Job : v \in hands'[i] /\ v \in hands'[k] => i = k
                      /\ at'[v] = "out" => buffer'[v] = {} /\ sighted'[v] = {}
                      /\ at'[v] = "advancing" => buffer'[v] = {}
    BY DEF Visits
  <2>1. CASE v = w
    BY <1>3, <2>1
  <2>2. CASE v # w
    <3>1. \A i \in Job : v \in hands'[i] <=> v \in hands[i]
      BY <1>3, <2>2
    <3>2. QED
      BY <1>2, <1>3, <2>2, <3>1 DEF IInv, Visits
  <2>3. QED
    BY <2>1, <2>2
<1>6. MissesCounted'
  BY <1>2 DEF IInv, MissesCounted
<1>7. OneHolder'
  BY <1>3 DEF IInv, OneHolder
<1>8. OpenWhileAdvancing'
  <2> SUFFICES ASSUME ~late', NEW i \in Job, NEW v \in hands'[i], at'[v] = "advancing"
               PROVE  scope'[i] = "pending"
    BY DEF OpenWhileAdvancing
  <2>1. v # w /\ v \in hands[i] /\ v \in Worker
    BY <1>3, HolderIsWorker
  <2>2. scope[i] = "pending"
    BY <1>3, <2>1 DEF IInv, OpenWhileAdvancing
  <2>3. QED
    BY <1>3, <2>2
<1>9. VisitsAlone'
  <2> SUFFICES ASSUME "overlap" \notin faults'
               PROVE  /\ \A i, k \in Job : hands'[i] # {} /\ hands'[k] # {} => i = k
                      /\ \A i \in Job : \A v \in hands'[i] : \A a \in sighted'[v] :
                            a \in buffer'[v] \/ seenBy'[a] = i
    BY DEF VisitsAlone
  <2>1. \A i, k \in Job : hands'[i] # {} /\ hands'[k] # {} => i = k
    BY <1>2, <1>3
  <2>2. ASSUME NEW i \in Job, NEW v \in hands'[i], NEW a \in sighted'[v]
        PROVE  a \in buffer'[v] \/ seenBy'[a] = i
    <3>1. v # w /\ v \in hands[i]
      BY <1>1, <1>2, <1>3, <2>2
    <3>2. QED
      BY <1>2, <2>2, <3>1 DEF IInv, VisitsAlone
  <2>3. QED
    BY <2>1, <2>2
<1>10. AgedOnceByEach'
  <2> SUFFICES ASSUME ~late', "deadlock" \notin faults', NEW a \in Article
               PROVE  /\ IsFiniteSet(missedBy[a])
                      /\ life[a] \in {"absent", "active"} => missedBy[a] = {}
                      /\ life[a] = "stale" => Cardinality(missedBy[a]) = 1
                      /\ life[a] = "removed" => Cardinality(missedBy[a]) = 2
                      /\ \A i \in missedBy[a] : scope'[i] \in {"complete", "failed"}
    BY <1>2 DEF AgedOnceByEach
  <2>1. \A i \in missedBy[a] : i \in Job /\ scope[i] \in {"complete", "failed"}
    BY <1>2 DEF IInv, AgedOnceByEach, TypeOK
  <2>2. \A i \in missedBy[a] : scope'[i] \in {"complete", "failed"}
    BY <1>3, <2>1
  <2>3. QED
    BY <1>2, <2>2 DEF IInv, AgedOnceByEach
<1>11. QED
  BY <1>4, <1>5, <1>6, <1>7, <1>8, <1>9, <1>10 DEF IInv

LEMMA VisitStep ==
  ASSUME IInv, NEW w \in Worker, NEW j \in Job, Visit(w, j) \/ VisitTaken(w, j)
  PROVE  IInv'
<1>1. CASE Visit(w, j)
  <2>1. PICK R \in SUBSET {j} : Board!Take(w, j, R, {})
    BY <1>1 DEF Visit
  <2>2. /\ \A i \in Job : w \notin hands[i]
        /\ hands' = [hands EXCEPT ![j] = hands[j] \cup {w}]
        /\ hands[j] = {} /\ late' = late
    BY <1>1, <2>1 DEF Visit, Board!Take, IInv, TypeOK
  <2>3. stage' \in [Job -> Board!Stage]
    <3>1. stage' = [i \in Job |-> IF i = j THEN "held" ELSE stage[i]]
      BY <2>1 DEF Board!Take
    <3>2. QED
      BY <3>1 DEF IInv, TypeOK, Board!Stage
  <2>4. late' \in BOOLEAN /\ (~late' => ~late)
    BY <2>2 DEF IInv, TypeOK
  <2>5. QED
    BY <1>1, <2>2, <2>3, <2>4, EntersStep DEF Visit
<1>2. CASE VisitTaken(w, j)
  <2>1. stage' \in [Job -> Board!Stage]
    BY <1>2 DEF VisitTaken, IInv, TypeOK, Board!Stage
  <2>2. hands' = [hands EXCEPT ![j] = hands[j] \cup {w}] /\ late' = TRUE
    BY <1>2 DEF VisitTaken
  <2>3. QED
    BY <1>2, <2>1, <2>2, EntersStep DEF VisitTaken
<1>3. QED
  BY <1>1, <1>2

-----------------------------------------------------------------------------
\* A step within a visit that touches no listing.  Its scope stays as it is or
\* is closed; it gets to the advance with an open scope and nothing left to store.
LEMMA VisitGoesOn ==
  ASSUME IInv, NEW w \in Worker, at[w] # "out",
         NEW p \in Place \ {"out"}, NEW B \in SUBSET Article, NEW S \in SUBSET Article,
         at' = [at EXCEPT ![w] = p], buffer' = [buffer EXCEPT ![w] = B],
         sighted' = [sighted EXCEPT ![w] = S],
         \A a \in S : a \in B \/ (a \in sighted[w] /\ a \notin buffer[w]),
         p = "advancing" => B = {} /\ scope[JobOf(w)] = "pending" /\ scope' = scope,
         scope' = scope \/ (\E s \in {"complete", "failed"} :
                               scope' = [scope EXCEPT ![JobOf(w)] = s]),
         UNCHANGED <<board, rows, faults>>
  PROVE  IInv'
<1> USE DEF board, rows
<1>1. /\ JobOf(w) \in Job /\ w \in hands[JobOf(w)]
      /\ \A j \in Job : w \in hands[j] <=> j = JobOf(w)
  BY HasJob
<1>2. /\ at'[w] = p /\ buffer'[w] = B /\ sighted'[w] = S
      /\ \A v \in Worker : v # w => /\ at'[v] = at[v] /\ buffer'[v] = buffer[v]
                                    /\ sighted'[v] = sighted[v]
      /\ \A j \in Job : j # JobOf(w) => scope'[j] = scope[j]
      /\ scope'[JobOf(w)] \in {scope[JobOf(w)], "complete", "failed"}
  BY <1>1 DEF IInv, TypeOK
<1>3. TypeOK'
  <2>1. /\ at' \in [Worker -> Place] /\ buffer' \in [Worker -> SUBSET Article]
        /\ sighted' \in [Worker -> SUBSET Article]
        /\ scope' \in [Job -> {"none", "pending", "complete", "failed"}]
    BY DEF IInv, TypeOK
  <2>2. QED
    BY <2>1 DEF IInv, TypeOK
<1>4. Visits' /\ MissesCounted' /\ OneHolder'
  BY <1>1, <1>2 DEF IInv, Visits, MissesCounted, OneHolder
<1>5. OpenWhileAdvancing'
  <2> SUFFICES ASSUME ~late, NEW j \in Job, NEW v \in hands[j], at'[v] = "advancing"
               PROVE  scope'[j] = "pending"
    BY DEF OpenWhileAdvancing
  <2>1. CASE v = w
    BY <1>1, <1>2, <2>1
  <2>2. CASE v # w
    <3>1. v \in Worker /\ j # JobOf(w)
      BY <1>1, <2>2, HolderIsWorker DEF IInv, OneHolder
    <3>2. QED
      BY <1>2, <2>2, <3>1 DEF IInv, OpenWhileAdvancing
  <2>3. QED
    BY <2>1, <2>2
<1>6. VisitsAlone'
  <2> SUFFICES ASSUME "overlap" \notin faults, NEW j \in Job, NEW v \in hands[j],
                      NEW a \in sighted'[v]
               PROVE  a \in buffer'[v] \/ seenBy[a] = j
    BY DEF VisitsAlone, IInv
  <2>1. v \in Worker /\ (a \in sighted[v] => a \in buffer[v] \/ seenBy[a] = j)
    BY HolderIsWorker DEF IInv, VisitsAlone
  <2>2. QED
    BY <1>2, <2>1
<1>7. AgedOnceByEach'
  <2>1. \A j \in Job : scope[j] \in {"complete", "failed"} => scope'[j] \in {"complete", "failed"}
    BY <1>1, <1>2
  <2>2. QED
    BY <2>1 DEF IInv, TypeOK, AgedOnceByEach
<1>8. QED
  BY <1>3, <1>4, <1>5, <1>6, <1>7 DEF IInv

LEMMA SubmitStep ==
  ASSUME IInv, NEW w \in Worker, NEW a \in Article, Submit(w, a)
  PROVE  IInv'
<1>1. PICK B \in SUBSET Article : B = buffer[w] \cup {a}
  BY DEF IInv, TypeOK
<1>2. PICK S \in SUBSET Article : S = sighted[w] \cup {a}
  BY DEF IInv, TypeOK
<1>3. /\ at' = [at EXCEPT ![w] = "collecting"] /\ at[w] = "collecting"
      /\ "collecting" \in Place \ {"out"}
      /\ buffer' = [buffer EXCEPT ![w] = B] /\ sighted' = [sighted EXCEPT ![w] = S]
      /\ UNCHANGED <<board, scope, rows, faults>>
  BY <1>1, <1>2 DEF Submit, IInv, TypeOK, Place
<1>4. \A b \in S : b \in B \/ (b \in sighted[w] /\ b \notin buffer[w])
  BY <1>1, <1>2
<1>5. QED
  BY <1>3, <1>4, VisitGoesOn

LEMMA CollectStep ==
  ASSUME IInv, NEW w \in Worker,
         \/ \E p \in {"done", "raising"} : CollectFails(w, p)
         \/ \E p \in {"whole", "partial"} : CollectEnds(w, p)
  PROVE  IInv'
<1>1. PICK p \in {"done", "raising", "whole", "partial"} :
         CollectFails(w, p) \/ CollectEnds(w, p)
  OBVIOUS
<1>2. PICK B \in SUBSET Article : B = buffer[w] /\ buffer' = [buffer EXCEPT ![w] = B]
  BY <1>1 DEF CollectFails, CollectEnds, IInv, TypeOK
<1>3. PICK S \in SUBSET Article :
         S \in {{}, sighted[w]} /\ sighted' = [sighted EXCEPT ![w] = S]
  <2>1. CASE CollectFails(w, p)
    BY <2>1 DEF CollectFails, GoesTo
  <2>2. CASE CollectEnds(w, p)
    BY <2>2 DEF CollectEnds, IInv, TypeOK
  <2>3. QED
    BY <1>1, <2>1, <2>2
<1>4. /\ at[w] = "collecting" /\ p \in Place \ {"out"} /\ p # "advancing"
      /\ at' = [at EXCEPT ![w] = p]
      /\ scope' = scope \/ scope' = [scope EXCEPT ![JobOf(w)] = "failed"]
      /\ UNCHANGED <<board, rows, faults>>
  BY <1>1 DEF CollectFails, CollectEnds, GoesTo, Place
<1>5. \A b \in S : b \in B \/ (b \in sighted[w] /\ b \notin buffer[w])
  BY <1>2, <1>3
<1>6. QED
  BY <1>2, <1>3, <1>4, <1>5, VisitGoesOn

LEMMA FlushedStep ==
  ASSUME IInv, NEW w \in Worker, Flushed(w)
  PROVE  IInv'
<1>1. PICK B \in SUBSET Article :
         B = {} /\ B = buffer[w] /\ buffer' = [buffer EXCEPT ![w] = B]
  BY DEF Flushed, IInv, TypeOK
<1>2. PICK S \in SUBSET Article :
         S \in {{}, sighted[w]} /\ sighted' = [sighted EXCEPT ![w] = S]
  BY DEF Flushed, GoesTo, IInv, TypeOK
<1>3. PICK p \in {"done", "advancing"} :
         /\ at' = [at EXCEPT ![w] = p]
         /\ p = "advancing" => scope[JobOf(w)] = "pending" /\ scope' = scope
         /\ scope' = scope \/ scope' = [scope EXCEPT ![JobOf(w)] = "failed"]
  BY DEF Flushed, GoesTo
<1>4. at[w] # "out" /\ p \in Place \ {"out"} /\ UNCHANGED <<board, rows, faults>>
  BY DEF Flushed, Place
<1>5. \A b \in S : b \in B \/ (b \in sighted[w] /\ b \notin buffer[w])
  BY <1>1, <1>2
<1>6. QED
  BY <1>1, <1>2, <1>3, <1>4, <1>5, VisitGoesOn

LEMMA GiveUpStep ==
  ASSUME IInv, NEW w \in Worker, NEW dropped \in SUBSET Article, GiveUp(w, dropped)
  PROVE  IInv'
<1>1. PICK B \in SUBSET Article : buffer' = [buffer EXCEPT ![w] = B]
  BY DEF GiveUp, IInv, TypeOK
<1>2. PICK S \in SUBSET Article : S = {} /\ sighted' = [sighted EXCEPT ![w] = S]
  BY DEF GiveUp, GoesTo
<1>3. PICK p \in Place \ {"out"} : p = "raising" /\ at' = [at EXCEPT ![w] = p]
  BY DEF GiveUp, GoesTo, Place
<1>4. /\ at[w] # "out" /\ p # "advancing" /\ scope' = scope
      /\ UNCHANGED <<board, rows, faults>>
  BY <1>3 DEF GiveUp
<1>5. \A b \in S : b \in B \/ (b \in sighted[w] /\ b \notin buffer[w])
  BY <1>2
<1>6. QED
  BY <1>1, <1>2, <1>3, <1>4, <1>5, VisitGoesOn

LEMMA AdvanceRaisesStep ==
  ASSUME IInv, NEW w \in Worker, AdvanceRaises(w)
  PROVE  IInv'
<1>1. PICK B \in SUBSET Article : buffer' = [buffer EXCEPT ![w] = B]
  BY DEF AdvanceRaises, IInv, TypeOK
<1>2. PICK S \in SUBSET Article : S = {} /\ sighted' = [sighted EXCEPT ![w] = S]
  BY DEF AdvanceRaises, GoesTo
<1>3. PICK p \in Place \ {"out"} : p = "raising" /\ at' = [at EXCEPT ![w] = p]
  BY DEF AdvanceRaises, GoesTo, Place
<1>4. /\ at[w] # "out" /\ p # "advancing"
      /\ scope' = scope \/ scope' = [scope EXCEPT ![JobOf(w)] = "complete"]
      /\ UNCHANGED <<board, rows, faults>>
  BY <1>3 DEF AdvanceRaises
<1>5. \A b \in S : b \in B \/ (b \in sighted[w] /\ b \notin buffer[w])
  BY <1>2
<1>6. QED
  BY <1>1, <1>2, <1>3, <1>4, <1>5, VisitGoesOn

-----------------------------------------------------------------------------
\* What is stored is the job's own, active, and missed by nobody.
LEMMA CommitStep ==
  ASSUME IInv, NEW w \in Worker, NEW S \in SUBSET Article, Commit(w, S)
  PROVE  IInv'
<1>1. at[w] # "out"
  BY DEF Commit, IInv, Visits
<1>2. /\ JobOf(w) \in Job /\ w \in hands[JobOf(w)]
      /\ \A j \in Job : w \in hands[j] <=> j = JobOf(w)
  BY <1>1, HasJob
<1>3. /\ UNCHANGED <<stage, hands, late, attempt, scope, at, sighted, faults>>
      /\ buffer' = [buffer EXCEPT ![w] = @ \ S]
      /\ S \subseteq buffer[w]
  BY DEF Commit, board
<1>4. /\ \A a \in S : /\ life'[a] = "active" /\ miss'[a] = 0
                      /\ seenBy'[a] = JobOf(w) /\ missedBy'[a] = {}
      /\ \A a \in Article \ S : /\ life'[a] = life[a] /\ miss'[a] = miss[a]
                                /\ seenBy'[a] = seenBy[a] /\ missedBy'[a] = missedBy[a]
  BY DEF Commit
<1>5. TypeOK'
  <2>1. /\ life' \in [Article -> {"absent", "active", "stale", "removed"}]
        /\ miss' \in [Article -> 0..2]
        /\ missedBy' \in [Article -> SUBSET Job]
    BY DEF Commit, IInv, TypeOK
  <2>2. seenBy' \in [Article -> Job \cup {NoJob}]
    BY <1>2 DEF Commit, IInv, TypeOK
  <2>3. buffer' \in [Worker -> SUBSET Article]
    BY <1>3 DEF IInv, TypeOK
  <2>4. QED
    BY <1>3, <2>1, <2>2, <2>3 DEF IInv, TypeOK
<1>6. /\ buffer'[w] = buffer[w] \ S
      /\ \A v \in Worker : v # w => buffer'[v] = buffer[v]
  BY <1>3 DEF IInv, TypeOK
<1>7. Visits'
  <2>1. \A v \in Worker : buffer[v] = {} => buffer'[v] = {}
    BY <1>6
  <2>2. QED
    BY <1>3, <2>1 DEF IInv, Visits
<1>8. MissesCounted'
  BY <1>4 DEF IInv, MissesCounted
<1>9. OneHolder' /\ OpenWhileAdvancing'
  BY <1>3 DEF IInv, OneHolder, OpenWhileAdvancing
<1>10. VisitsAlone'
  <2> SUFFICES ASSUME "overlap" \notin faults, NEW j \in Job, NEW v \in hands[j],
                      NEW a \in sighted[v]
               PROVE  a \in buffer'[v] \/ seenBy'[a] = j
    BY <1>3 DEF VisitsAlone, IInv
  <2>1. /\ v \in Worker /\ a \in Article /\ j = JobOf(w)
        /\ a \in buffer[v] \/ seenBy[a] = j
    BY <1>2, HolderIsWorker DEF IInv, VisitsAlone, TypeOK
  <2>2. QED
    BY <1>4, <1>6, <2>1
<1>11. AgedOnceByEach'
  BY <1>3, <1>4, FS_EmptySet DEF IInv, AgedOnceByEach
<1>12. QED
  BY <1>5, <1>7, <1>8, <1>9, <1>10, <1>11 DEF IInv

\* The advance counts a job once: its scope was open, so that it has aged none
\* of the listings yet, and it is closed now unless a deadlock undid that.
LEMMA AdvanceSteps ==
  ASSUME IInv, NEW w \in Worker, Advance(w) \/ AdvanceAfterDeadlock(w)
  PROVE  IInv'
<1>1. at[w] = "advancing" /\ Ages(w) /\ GoesTo(w, "done")
      /\ UNCHANGED <<stage, hands, late, attempt, buffer>>
  BY DEF Advance, AdvanceAfterDeadlock, board
<1>2. PICK j \in Job : j = JobOf(w) /\ w \in hands[j]
  BY <1>1, HasJob
<1>3. PICK U \in SUBSET Article : U = Unseen(j)
  BY DEF Unseen
<1>4. /\ \A a \in U : /\ life[a] \in {"active", "stale"}
                      /\ life'[a] = IF life[a] = "active" THEN "stale" ELSE "removed"
                      /\ miss'[a] = miss[a] + 1
                      /\ missedBy'[a] = missedBy[a] \cup {j}
      /\ \A a \in Article \ U : /\ life'[a] = life[a] /\ miss'[a] = miss[a]
                                /\ missedBy'[a] = missedBy[a]
      /\ seenBy' = seenBy
  BY <1>1, <1>2, <1>3 DEF Ages, Unseen
<1>5. /\ at'[w] = "done" /\ sighted'[w] = {}
      /\ \A v \in Worker : v # w => at'[v] = at[v] /\ sighted'[v] = sighted[v]
  BY <1>1 DEF GoesTo, IInv, TypeOK
<1>6. /\ faults \subseteq faults' /\ faults' \in SUBSET {"overlap", "deadlock"}
      /\ \A i \in Job : i # j => scope'[i] = scope[i]
      /\ "deadlock" \notin faults' => scope'[j] = "complete"
      /\ scope' \in [Job -> {"none", "pending", "complete", "failed"}]
  BY <1>2 DEF Advance, AdvanceAfterDeadlock, IInv, TypeOK
<1>7. TypeOK'
  <2>1. \A a \in U : miss[a] + 1 \in 0..2
    BY <1>4 DEF IInv, MissesCounted
  <2>2. miss' \in [Article -> 0..2]
    BY <1>1, <1>2, <1>3, <2>1 DEF Ages, IInv, TypeOK
  <2>3. /\ life' \in [Article -> {"absent", "active", "stale", "removed"}]
        /\ missedBy' \in [Article -> SUBSET Job]
    BY <1>1, <1>2 DEF Ages, IInv, TypeOK
  <2>4. at' \in [Worker -> Place] /\ sighted' \in [Worker -> SUBSET Article]
    BY <1>1 DEF GoesTo, IInv, TypeOK, Place
  <2>5. QED
    BY <1>1, <1>4, <1>6, <2>2, <2>3, <2>4 DEF IInv, TypeOK
<1>8. Visits' /\ OneHolder'
  BY <1>1, <1>5 DEF IInv, Visits, OneHolder
<1>9. MissesCounted'
  BY <1>4 DEF IInv, MissesCounted
<1>10. OpenWhileAdvancing'
  <2> SUFFICES ASSUME ~late, NEW i \in Job, NEW v \in hands[i], at'[v] = "advancing"
               PROVE  scope'[i] = "pending"
    BY <1>1 DEF OpenWhileAdvancing
  <2>1. v # w /\ v \in Worker /\ i # j
    BY <1>2, <1>5, HolderIsWorker DEF IInv, OneHolder
  <2>2. QED
    BY <1>5, <1>6, <2>1 DEF IInv, OpenWhileAdvancing
<1>11. VisitsAlone'
  <2> SUFFICES ASSUME "overlap" \notin faults, NEW i \in Job, NEW v \in hands[i],
                      NEW a \in sighted'[v]
               PROVE  a \in buffer[v] \/ seenBy[a] = i
    BY <1>1, <1>4, <1>6 DEF VisitsAlone, IInv
  <2>1. v \in Worker /\ a \in sighted[v]
    BY <1>5, HolderIsWorker
  <2>2. QED
    BY <2>1 DEF IInv, VisitsAlone
<1>12. AgedOnceByEach'
  <2> SUFFICES ASSUME ~late, "deadlock" \notin faults', NEW a \in Article
               PROVE  /\ IsFiniteSet(missedBy'[a])
                      /\ life'[a] \in {"absent", "active"} => missedBy'[a] = {}
                      /\ life'[a] = "stale" => Cardinality(missedBy'[a]) = 1
                      /\ life'[a] = "removed" => Cardinality(missedBy'[a]) = 2
                      /\ \A i \in missedBy'[a] : scope'[i] \in {"complete", "failed"}
    BY <1>1 DEF AgedOnceByEach
  <2>1. "deadlock" \notin faults
    BY <1>6
  <2>2. /\ IsFiniteSet(missedBy[a]) /\ missedBy[a] \in SUBSET Job
        /\ life[a] \in {"absent", "active"} => missedBy[a] = {}
        /\ life[a] = "stale" => Cardinality(missedBy[a]) = 1
        /\ life[a] = "removed" => Cardinality(missedBy[a]) = 2
        /\ \A i \in missedBy[a] : scope[i] \in {"complete", "failed"}
    BY <2>1 DEF IInv, AgedOnceByEach, TypeOK
  <2>3. \A i \in missedBy'[a] : scope'[i] \in {"complete", "failed"}
    BY <1>4, <1>6, <2>2
  <2>4. CASE a \notin U
    BY <1>4, <2>2, <2>3, <2>4
  <2>5. CASE a \in U
    <3>1. j \notin missedBy[a]
      BY <1>1, <1>2, <2>2 DEF IInv, OpenWhileAdvancing
    <3>2. /\ IsFiniteSet(missedBy'[a])
          /\ Cardinality(missedBy'[a]) = Cardinality(missedBy[a]) + 1
      <4>1. /\ IsFiniteSet(missedBy[a] \cup {j})
            /\ Cardinality(missedBy[a] \cup {j}) = Cardinality(missedBy[a]) + 1
        BY <2>2, <3>1, FS_AddElement
      <4>2. missedBy'[a] = missedBy[a] \cup {j}
        BY <1>4, <2>5
      <4>3. QED
        BY <4>1, <4>2
    <3>3. life[a] = "active" => Cardinality(missedBy[a]) = 0
      BY <2>2, FS_EmptySet
    <3>4. QED
      BY <1>4, <2>2, <2>3, <2>5, <3>2, <3>3
  <2>6. QED
    BY <2>4, <2>5
<1>13. QED
  BY <1>7, <1>8, <1>9, <1>10, <1>11, <1>12 DEF IInv

-----------------------------------------------------------------------------
\* A worker that is gone leaves nothing behind but the rows and its scope.
LEMMA GoneStep ==
  ASSUME IInv, NEW w \in Worker, at[w] # "out",
         hands' = [hands EXCEPT ![JobOf(w)] = @ \ {w}],
         stage' \in [Job -> Board!Stage], late' = late, Gone(w),
         UNCHANGED <<attempt, scope, rows, faults>>
  PROVE  IInv'
<1> USE DEF rows
<1>1. /\ JobOf(w) \in Job /\ w \in hands[JobOf(w)]
      /\ \A j \in Job : w \in hands[j] <=> j = JobOf(w)
  BY HasJob
<1>2. /\ at'[w] = "out" /\ buffer'[w] = {} /\ sighted'[w] = {}
      /\ \A v \in Worker : v # w => /\ at'[v] = at[v] /\ buffer'[v] = buffer[v]
                                    /\ sighted'[v] = sighted[v]
  BY DEF Gone, GoesTo, IInv, TypeOK
<1>3. \A j \in Job : hands'[j] = hands[j] \ {w}
  BY <1>1 DEF IInv, TypeOK
<1>4. TypeOK'
  <2>1. /\ at' \in [Worker -> Place] /\ buffer' \in [Worker -> SUBSET Article]
        /\ sighted' \in [Worker -> SUBSET Article] /\ hands' \in [Job -> SUBSET Worker]
    BY DEF Gone, GoesTo, IInv, TypeOK, Place
  <2>2. QED
    BY <2>1 DEF IInv, TypeOK
<1>5. Visits' /\ MissesCounted' /\ OneHolder'
  BY <1>2, <1>3 DEF IInv, Visits, MissesCounted, OneHolder
<1>6. \A j \in Job : \A v \in hands'[j] : v \in hands[j] /\ v \in Worker /\ v # w
  BY <1>3, HolderIsWorker
<1>7. OpenWhileAdvancing' /\ VisitsAlone'
  BY <1>2, <1>3, <1>6 DEF IInv, OpenWhileAdvancing, VisitsAlone
<1>8. AgedOnceByEach'
  BY DEF IInv, AgedOnceByEach
<1>9. QED
  BY <1>4, <1>5, <1>7, <1>8 DEF IInv

LEMMA LeaveStep ==
  ASSUME IInv, NEW w \in Worker, Leave(w)
  PROVE  IInv'
<1>1. at[w] # "out" /\ Gone(w) /\ UNCHANGED <<attempt, scope, rows, faults>>
  BY DEF Leave
<1>2. JobOf(w) \in Job
  BY <1>1, HasJob
<1>3. Outcome(w) \in {"done", "waiting", "dead"}
  BY DEF Outcome
<1>4. /\ hands' = [hands EXCEPT ![JobOf(w)] = @ \ {w}]
      /\ stage' \in [Job -> Board!Stage] /\ late' = late
  <2>1. CASE Board!Return(w, JobOf(w), Outcome(w))
    BY <1>2, <1>3, <2>1 DEF Board!Return, Board!Stage, IInv, TypeOK
  <2>2. CASE ~Board!Return(w, JobOf(w), Outcome(w))
    BY <1>2, <1>3, <2>2 DEF Leave, LetsGo, Board!Stage, IInv, TypeOK
  <2>3. QED
    BY <2>1, <2>2
<1>5. QED
  BY <1>1, <1>4, GoneStep

LEMMA CrashStep ==
  ASSUME IInv, NEW w \in Worker, Crash(w)
  PROVE  IInv'
<1>1. at[w] # "out" /\ Gone(w) /\ UNCHANGED <<attempt, scope, rows, faults>>
  BY DEF Crash
<1>2. JobOf(w) \in Job
  BY <1>1, HasJob
<1>3. /\ hands' = [hands EXCEPT ![JobOf(w)] = @ \ {w}]
      /\ stage' \in [Job -> Board!Stage] /\ late' = late
  <2>1. CASE Board!Drop(w, JobOf(w))
    BY <1>2, <2>1 DEF Board!Drop, Board!Stage, IInv, TypeOK
  <2>2. CASE ~Board!Drop(w, JobOf(w))
    BY <2>2 DEF Crash, IInv, TypeOK
  <2>3. QED
    BY <2>1, <2>2
<1>4. QED
  BY <1>1, <1>3, GoneStep

-----------------------------------------------------------------------------
LEMMA InitIInv == Init => IInv
<1> SUFFICES ASSUME Init PROVE IInv
  OBVIOUS
<1>1. 0 \in 0..MaxAttempts /\ 0 \in 0..2
  BY LifecycleAssumption
<1>2. TypeOK
  BY <1>1 DEF Init, Board!Init, TypeOK, Board!Stage, Place
<1>3. Visits /\ MissesCounted /\ OneHolder /\ OpenWhileAdvancing /\ VisitsAlone
  BY DEF Init, Board!Init, Visits, MissesCounted, OneHolder, OpenWhileAdvancing, VisitsAlone
<1>4. AgedOnceByEach
  BY FS_EmptySet DEF Init, AgedOnceByEach
<1>5. QED
  BY <1>2, <1>3, <1>4 DEF IInv

LEMMA NextIInv == IInv /\ [Next]_vars => IInv'
<1> SUFFICES ASSUME IInv, [Next]_vars PROVE IInv'
  OBVIOUS
<1>1. CASE \E j \in Job : Post(j)
  BY <1>1, PostStep
<1>2. ASSUME NEW w \in Worker, WorkerNext(w) PROVE IInv'
  <2>1. CASE \E j \in Job : Visit(w, j) \/ VisitTaken(w, j)
    BY <2>1, VisitStep
  <2>2. CASE \/ \E p \in {"done", "raising"} : CollectFails(w, p)
             \/ \E p \in {"whole", "partial"} : CollectEnds(w, p)
    BY <2>2, CollectStep
  <2>3. CASE Advance(w) \/ AdvanceAfterDeadlock(w)
    BY <2>3, AdvanceSteps
  <2>4. QED
    BY <1>2, <2>1, <2>2, <2>3, SubmitStep, CommitStep, FlushedStep, GiveUpStep,
       AdvanceRaisesStep, LeaveStep, CrashStep DEF WorkerNext
<1>3. CASE UNCHANGED vars
  <2>1. UNCHANGED <<stage, hands, late, attempt, scope, life, miss, seenBy, missedBy,
                    at, buffer, sighted, faults>>
    BY <1>3 DEF vars, board, rows, visit
  <2>2. TypeOK' /\ Visits' /\ MissesCounted'
    BY <2>1 DEF IInv, TypeOK, Visits, MissesCounted
  <2>3. OneHolder' /\ OpenWhileAdvancing' /\ VisitsAlone' /\ AgedOnceByEach'
    BY <2>1 DEF IInv, OneHolder, OpenWhileAdvancing, VisitsAlone, AgedOnceByEach
  <2>4. QED
    BY <2>2, <2>3 DEF IInv
<1>4. QED
  BY <1>1, <1>2, <1>3 DEF Next

-----------------------------------------------------------------------------
\* The inductive invariant, and with it the types: no job is claimed more than
\* MaxAttempts times and no miss_count passes 2.
THEOREM LifecycleInvariant == Spec => []IInv
  BY InitIInv, NextIInv, PTL DEF Spec

\* A listing goes from ACTIVE to REMOVED by two different jobs that both missed
\* it, however the jobs are retried, cancelled or killed.
THEOREM RemovalTakesTwoJobs == Spec => []RemovedAfterTwoJobs
<1>1. IInv => RemovedAfterTwoJobs
  BY DEF IInv, AgedOnceByEach, RemovedAfterTwoJobs
<1>2. QED
  BY <1>1, LifecycleInvariant, PTL

\* A job whose scope has failed ages nothing any more, on no later attempt.
THEOREM FailedScopesAgeNothing == Spec => FailedDongNeverAges
<1>1. IInv /\ [Next]_vars =>
        [\A w \in Worker : AgedBy(w) # {} /\ ~late => scope[JobOf(w)] = "pending"]_vars
  <2> SUFFICES ASSUME IInv, NEW w \in Worker, AgedBy(w) # {}, ~late
               PROVE  scope[JobOf(w)] = "pending"
    OBVIOUS
  <2>1. at[w] = "advancing"
    BY DEF AgedBy
  <2>2. JobOf(w) \in Job /\ w \in hands[JobOf(w)]
    BY <2>1, HasJob
  <2>3. QED
    BY <2>1, <2>2 DEF IInv, OpenWhileAdvancing
<1>2. QED
  BY <1>1, LifecycleInvariant, PTL DEF Spec, FailedDongNeverAges

\* A step that ages listings is an advance of that worker, or another worker's
\* step that leaves this one where it is.
LEMMA AgedByAdvance ==
  ASSUME IInv, [Next]_vars, NEW w \in Worker, at[w] = "advancing", at'[w] = "done"
  PROVE  Ages(w)
<1>1. vars' # vars
  <2>1. at' # at
    OBVIOUS
  <2>2. QED
    BY <2>1 DEF vars, visit
<1>2. ASSUME NEW j \in Job, Post(j) PROVE FALSE
  BY <1>2 DEF Post, visit
<1>3. ASSUME NEW v \in Worker, WorkerNext(v), v # w PROVE FALSE
  <2>1. at'[w] = at[w]
    <3>1. PICK p : at' = at \/ at' = [at EXCEPT ![v] = p]
      BY <1>3 DEF WorkerNext, Visit, VisitTaken, Enters, Submit, Commit, CollectFails,
                  CollectEnds, Flushed, Advance, AdvanceAfterDeadlock, AdvanceRaises,
                  GiveUp, Leave, Crash, Gone, GoesTo
    <3>2. QED
      BY <1>3, <3>1 DEF IInv, TypeOK
  <2>2. QED
    BY <2>1
<1>4. ASSUME WorkerNext(w) PROVE Ages(w)
  <2>1. /\ at'[w] # "collecting" /\ at'[w] # "out" /\ at'[w] # "raising"
    OBVIOUS
  <2>2. ASSUME NEW j \in Job, Visit(w, j) \/ VisitTaken(w, j) PROVE FALSE
    BY <2>2 DEF Visit, VisitTaken, Enters, IInv, TypeOK
  <2>3. CASE \/ \E a \in Article : Submit(w, a)
             \/ \E S \in SUBSET Article : Commit(w, S)
             \/ \E p \in {"done", "raising"} : CollectFails(w, p)
             \/ \E p \in {"whole", "partial"} : CollectEnds(w, p)
             \/ Flushed(w)
    BY <2>3 DEF Submit, Commit, CollectFails, CollectEnds, Flushed
  <2>4. CASE \/ Leave(w) \/ Crash(w) \/ AdvanceRaises(w)
             \/ \E dropped \in SUBSET Article : GiveUp(w, dropped)
    BY <2>4 DEF Leave, Crash, Gone, GiveUp, AdvanceRaises, GoesTo, IInv, TypeOK
  <2>5. QED
    BY <1>4, <2>2, <2>3, <2>4 DEF WorkerNext, Advance, AdvanceAfterDeadlock
<1>5. QED
  BY <1>1, <1>2, <1>3, <1>4 DEF Next

\* As long as one job at a time visits the dong, no visit ages what it has seen
\* itself: the flush before the completion has made those rows the job's own.
THEOREM VisitsAgeOnlyUnobserved == Spec => AgesOnlyUnobservedAlone
<1>1. IInv /\ [Next]_vars =>
        [\A w \in Worker :
            "overlap" \notin faults => AgedBy(w) \cap sighted[w] = {}]_vars
  <2> SUFFICES ASSUME IInv, [Next]_vars, NEW w \in Worker, "overlap" \notin faults,
                      NEW a \in sighted[w], a \in AgedBy(w)
               PROVE  FALSE
    OBVIOUS
  <2>1. a \in Article /\ at[w] = "advancing" /\ at'[w] = "done" /\ life'[a] # life[a]
    BY DEF AgedBy
  <2>2. PICK j \in Job : j = JobOf(w) /\ w \in hands[j]
    BY <2>1, HasJob
  <2>3. Ages(w)
    BY <2>1, AgedByAdvance
  <2>4. a \in Unseen(j)
    BY <2>1, <2>2, <2>3 DEF Ages
  <2>5. buffer[w] = {}
    BY <2>1 DEF IInv, Visits
  <2>6. seenBy[a] = j
    BY <2>2, <2>5 DEF IInv, VisitsAlone
  <2>7. QED
    BY <2>4, <2>6 DEF Unseen
<1>2. QED
  BY <1>1, LifecycleInvariant, PTL DEF Spec, AgesOnlyUnobservedAlone

==============================================================================
