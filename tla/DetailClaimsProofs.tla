------------------------- MODULE DetailClaimsProofs -------------------------
(***************************************************************************)
(* Why claims that run out under a slow runner do no harm: a row whose     *)
(* claim a runner holds is in its batch and exactly as old as the batch,   *)
(* so nobody else can take it before the time is up, and afterwards the    *)
(* runner's write passes over it.                                          *)
(***************************************************************************)
EXTENDS DetailClaims, FiniteSetTheorems, WellFoundedInduction, TLAPS

\* A row with the token of a working runner is in its batch, and as old.
OwnRows ==
    \A r \in Runner : \A a \in Article :
        token[a] = r => a \in batch[r] /\ age[a] = held[r]

NoBatch == \A r \in Runner : phase[r] \in {"idle", "claim"} => batch[r] = {}

OkInBatch == \A r \in Runner : ok[r] \subseteq batch[r]

\* When a runner writes, every row it still holds is stored or released.
Answered ==
    \A r \in Runner : \A a \in Article :
        phase[r] = "write" /\ token[a] = r => a \in ok[r] \cup failed[r]

DInv ==
    /\ RowTypes
    /\ RunTypes
    /\ CheckedOnce
    /\ ClaimHolds
    /\ OwnRows
    /\ NoBatch
    /\ OkInBatch
    /\ Answered

LEMMA InitDInv == Init => DInv
  BY DetailAssumption
     DEF Init, DInv, RowTypes, RunTypes, CheckedOnce, ClaimHolds, OwnRows, NoBatch,
         OkInBatch, Answered, Unchecked

\* A runner lets go of its batch: the rows it held get no new owner, and what
\* it stores it stores in rows it held.
LEMMA LettingGo ==
  ASSUME DInv, NEW r \in Runner, NEW tok, SetTokens(tok),
         tok \in [Article -> Runner \cup {Unclaimed, Gone}],
         \A a \in Article : /\ tok[a] # r
                            /\ \/ tok[a] = token[a]
                               \/ token[a] = r /\ tok[a] \in {Unclaimed, Gone},
         RunTypes', batch'[r] = {}, ok'[r] = {}, phase'[r] \in {"idle", "claim"},
         \A q \in Runner \ {r} : /\ phase'[q] = phase[q] /\ batch'[q] = batch[q]
                                 /\ ok'[q] = ok[q] /\ failed'[q] = failed[q]
                                 /\ held'[q] = held[q],
         active' = active, stored' \in [Article -> Nat],
         \A a \in Article : \/ stored'[a] = stored[a]
                            \/ /\ token[a] = r /\ tok[a] = Unclaimed
                               /\ stored'[a] = stored[a] + 1
  PROVE  DInv'
<1> USE DEF DInv
<1>1. token' = tok /\ age' = [a \in Article |-> IF tok[a] = Unclaimed THEN 0 ELSE age[a]]
  BY DEF SetTokens
<1>2. RowTypes'
  BY <1>1, DetailAssumption DEF RowTypes
<1>3. CheckedOnce'
  <2>1. ASSUME NEW a \in Article
        PROVE  stored'[a] <= 1 /\ (stored'[a] = 1 => token'[a] = Unclaimed)
    BY <1>1, DetailAssumption DEF CheckedOnce, RowTypes
  <2>2. QED
    BY <2>1 DEF CheckedOnce
<1>4. ClaimHolds'
  <2>1. ASSUME NEW q \in Runner, NEW a \in batch'[q], held'[q] <= Expiry
        PROVE  token'[a] = q /\ stored'[a] = 0
    <3>1. q # r /\ a \in batch[q] /\ held[q] <= Expiry /\ a \in Article
      BY <2>1 DEF RunTypes
    <3>2. token[a] = q /\ stored[a] = 0
      BY <3>1 DEF ClaimHolds, Unchecked
    <3>3. QED
      BY <1>1, <3>1, <3>2
  <2>2. QED
    BY <2>1 DEF ClaimHolds, Unchecked
<1>5. OwnRows'
  <2>1. ASSUME NEW q \in Runner, NEW a \in Article, token'[a] = q
        PROVE  a \in batch'[q] /\ age'[a] = held'[q]
    <3>1. q # r /\ token[a] = q /\ tok[a] # Unclaimed
      BY <1>1, <2>1, DetailAssumption
    <3>2. QED
      BY <1>1, <3>1 DEF OwnRows
  <2>2. QED
    BY <2>1 DEF OwnRows
<1>6. NoBatch' /\ OkInBatch'
  BY DEF NoBatch, OkInBatch
<1>7. Answered'
  BY <1>1, DetailAssumption DEF Answered
<1>8. QED
  BY <1>2, <1>3, <1>4, <1>5, <1>6, <1>7

\* What EndRun and the two ways to give up tokens come to.
LEMMA EndRunEffect ==
  ASSUME RunTypes, NEW r \in Runner, NEW how \in {"done", "refused", "died"}, EndRun(r, how)
  PROVE  /\ RunTypes'
         /\ batch'[r] = {} /\ ok'[r] = {} /\ phase'[r] = "idle"
         /\ \A q \in Runner \ {r} : /\ phase'[q] = phase[q] /\ batch'[q] = batch[q]
                                    /\ ok'[q] = ok[q] /\ failed'[q] = failed[q]
                                    /\ held'[q] = held[q]
  BY DetailAssumption DEF RunTypes, EndRun

LEMMA TokensGivenUp ==
  ASSUME RowTypes, NEW r \in Runner, NEW S
  PROVE  LET rel == Released(r, S)
             left == LeftBehind(rel, r)
         IN  /\ rel \in [Article -> Runner \cup {Unclaimed, Gone}]
             /\ left \in [Article -> Runner \cup {Unclaimed, Gone}]
             /\ \A a \in Article :
                 /\ rel[a] = token[a] \/ (token[a] = r /\ rel[a] = Unclaimed)
                 /\ left[a] # r
                 /\ left[a] = token[a] \/ (token[a] = r /\ left[a] \in {Unclaimed, Gone})
                 /\ a \in S /\ token[a] = r => rel[a] = Unclaimed /\ left[a] = Unclaimed
  BY DetailAssumption DEF RowTypes, Released, LeftBehind

LEMMA TokensLeft ==
  ASSUME RowTypes, NEW r \in Runner
  PROVE  LET left == LeftBehind(token, r)
         IN  /\ left \in [Article -> Runner \cup {Unclaimed, Gone}]
             /\ \A a \in Article :
                 /\ left[a] # r
                 /\ left[a] = token[a] \/ (token[a] = r /\ left[a] \in {Unclaimed, Gone})
  BY DetailAssumption DEF RowTypes, LeftBehind

LEMMA EndingSteps ==
  ASSUME DInv, NEW r \in Runner, ClaimsNothing(r) \/ Refused(r) \/ Dies(r)
  PROVE  DInv'
<1>1. PICK how \in {"done", "refused", "died"} : EndRun(r, how)
  BY DEF ClaimsNothing, Refused, Dies
<1>2. active' = active /\ stored' = stored
  BY DEF ClaimsNothing, Refused, Dies
<1>3. RowTypes /\ RunTypes
  BY DEF DInv
<1>4. CASE ClaimsNothing(r) \/ Dies(r)
  <2>1. SetTokens(LeftBehind(token, r))
    BY <1>4 DEF ClaimsNothing, Dies
  <2>2. QED
    BY <1>1, <1>2, <1>3, <2>1, EndRunEffect, TokensLeft, LettingGo DEF RowTypes
<1>5. CASE Refused(r)
  <2>1. SetTokens(LeftBehind(Released(r, batch[r]), r))
    BY <1>5 DEF Refused
  <2>2. QED
    BY <1>1, <1>2, <1>3, <2>1, EndRunEffect, TokensGivenUp, LettingGo DEF RowTypes
<1>6. QED
  BY <1>4, <1>5

LEMMA WriteBackStep ==
  ASSUME DInv, NEW r \in Runner, WriteBack(r)
  PROVE  DInv'
<1> DEFINE S == Fenced(r) \cup failed[r]
<1>1. RowTypes /\ RunTypes
  BY DEF DInv
<1>2. active' = active /\ stored' \in [Article -> Nat]
  BY <1>1 DEF WriteBack, RowTypes
<1>3. ASSUME NEW a \in Article
      PROVE  stored'[a] = stored[a] \/ (token[a] = r /\ a \in S /\ stored'[a] = stored[a] + 1)
  BY DEF WriteBack, Fenced
<1>4. CASE MoreBatches(r)
  <2>1. SetTokens(Released(r, S))
    BY <1>4 DEF WriteBack
  <2>2. /\ RunTypes'
        /\ batch'[r] = {} /\ ok'[r] = {} /\ phase'[r] = "claim"
        /\ \A q \in Runner \ {r} : /\ phase'[q] = phase[q] /\ batch'[q] = batch[q]
                                   /\ ok'[q] = ok[q] /\ failed'[q] = failed[q]
                                   /\ held'[q] = held[q]
    BY <1>1, <1>4, DetailAssumption DEF WriteBack, RunTypes, MoreBatches
  <2>3. ASSUME NEW a \in Article, token[a] = r PROVE a \in S
    BY <2>3 DEF DInv, Answered, WriteBack, Fenced
  <2>4. /\ Released(r, S) \in [Article -> Runner \cup {Unclaimed, Gone}]
        /\ \A a \in Article :
             /\ Released(r, S)[a] # r
             /\ \/ Released(r, S)[a] = token[a]
                \/ token[a] = r /\ Released(r, S)[a] = Unclaimed
    BY <1>1, <2>3, TokensGivenUp, DetailAssumption
  <2>5. \A a \in Article :
          \/ stored'[a] = stored[a]
          \/ token[a] = r /\ Released(r, S)[a] = Unclaimed /\ stored'[a] = stored[a] + 1
    BY <1>1, <1>3, TokensGivenUp
  <2> HIDE DEF S
  <2>6. QED
    BY <1>2, <2>1, <2>2, <2>4, <2>5, LettingGo
<1>5. CASE ~MoreBatches(r)
  <2>1. SetTokens(LeftBehind(Released(r, S), r)) /\ EndRun(r, "done")
    BY <1>5 DEF WriteBack
  <2>2. QED
    BY <1>1, <1>2, <1>3, <2>1, EndRunEffect, TokensGivenUp, LettingGo
<1>6. QED
  BY <1>4, <1>5

\* A claim takes rows that are free or that have run out, so never one that
\* another runner has held for Expiry ticks at most.
LEMMA ClaimStep ==
  ASSUME DInv, NEW r \in Runner, Claim(r)
  PROVE  DInv'
<1> USE DEF DInv
<1>1. PICK mine \in SUBSET Article :
        /\ \A a \in mine : Available(a)
        /\ token' = [a \in Article |-> IF a \in mine THEN r ELSE token[a]]
        /\ age' = [a \in Article |-> IF a \in mine THEN 0 ELSE age[a]]
        /\ batch' = [batch EXCEPT ![r] = mine]
  <2>1. PICK ours, skipped :
          /\ token' = [a \in Article |-> IF a \in Candidates(r, ours, skipped) THEN r ELSE token[a]]
          /\ age' = [a \in Article |-> IF a \in Candidates(r, ours, skipped) THEN 0 ELSE age[a]]
          /\ batch' = [batch EXCEPT ![r] = Candidates(r, ours, skipped)]
    BY DEF Claim
  <2>2. Candidates(r, ours, skipped) \in SUBSET {a \in Article : Available(a)}
    BY DEF Candidates, Lowest
  <2>3. QED
    BY <2>1, <2>2
<1>2. /\ phase[r] = "claim" /\ phase' = [phase EXCEPT ![r] = "fetch"]
      /\ held' = [held EXCEPT ![r] = 0]
      /\ UNCHANGED <<active, stored, ok, failed, rounds, last>>
  BY DEF Claim
<1>3. batch[r] = {} /\ ok[r] = {}
  BY <1>2 DEF NoBatch, OkInBatch
<1>4. RowTypes'
  BY <1>1, <1>2, DetailAssumption DEF RowTypes
<1>5. RunTypes'
  BY <1>1, <1>2, DetailAssumption DEF RunTypes
<1>6. CheckedOnce'
  BY <1>1, <1>2 DEF CheckedOnce, Available, Unchecked, RowTypes
<1>7. ASSUME NEW q \in Runner, q # r, NEW a \in batch[q], held[q] <= Expiry
      PROVE  token[a] = q /\ Unchecked(a) /\ a \notin mine /\ a \in Article
  <2>1. token[a] = q /\ Unchecked(a) /\ a \in Article
    BY <1>7 DEF ClaimHolds, RunTypes
  <2>2. age[a] = held[q] /\ token[a] # Unclaimed
    BY <2>1, DetailAssumption DEF OwnRows
  <2>3. ~(age[a] > Expiry)
    BY <1>7, <2>2, DetailAssumption DEF RunTypes
  <2>4. QED
    BY <1>1, <2>1, <2>2, <2>3 DEF Available
<1>8. ClaimHolds'
  <2>1. ASSUME NEW q \in Runner, NEW a \in batch'[q], held'[q] <= Expiry
        PROVE  token'[a] = q /\ stored'[a] = 0
    <3>1. CASE q = r
      BY <1>1, <1>2, <2>1, <3>1 DEF Available, Unchecked, RunTypes
    <3>2. CASE q # r
      <4>1. a \in batch[q] /\ held[q] <= Expiry
        BY <1>1, <1>2, <2>1, <3>2 DEF RunTypes
      <4>2. QED
        BY <1>1, <1>2, <1>7, <3>2, <4>1 DEF Unchecked
    <3>3. QED
      BY <3>1, <3>2
  <2>2. QED
    BY <2>1 DEF ClaimHolds, Unchecked
<1>9. OwnRows'
  BY <1>1, <1>2, <1>3 DEF OwnRows, RunTypes, RowTypes
<1>10. NoBatch' /\ OkInBatch'
  BY <1>1, <1>2, <1>3 DEF NoBatch, OkInBatch, RunTypes
<1>11. Answered'
  BY <1>1, <1>2, <1>3 DEF Answered, OwnRows, RunTypes, RowTypes
<1>12. QED
  BY <1>4, <1>5, <1>6, <1>8, <1>9, <1>10, <1>11

\* Answers change no row; the snapshot drops only answers for rows that the
\* runner holds no more.
LEMMA AnswerSteps ==
  ASSUME DInv, NEW r \in Runner,
         Begin(r) \/ ReadBack(r) \/ (\E a \in Article : Fetched(r, a))
  PROVE  DInv'
<1> USE DEF DInv
<1>1. UNCHANGED <<active, stored, token, age, batch, held>>
  BY DEF Begin, ReadBack, Fetched, rows
<1>2. RowTypes' /\ CheckedOnce' /\ ClaimHolds' /\ OwnRows'
  BY <1>1 DEF RowTypes, CheckedOnce, ClaimHolds, OwnRows, Unchecked
<1>3. CASE Begin(r)
  <2>1. RunTypes'
    BY <1>3 DEF Begin, RunTypes
  <2>2. NoBatch' /\ OkInBatch' /\ Answered'
    BY <1>1, <1>3 DEF Begin, NoBatch, OkInBatch, Answered, RunTypes
  <2>3. QED
    BY <1>2, <2>1, <2>2
<1>4. CASE ReadBack(r)
  <2>1. RunTypes'
    BY <1>1, <1>4 DEF ReadBack, RunTypes
  <2>2. NoBatch' /\ OkInBatch'
    BY <1>1, <1>4 DEF ReadBack, NoBatch, OkInBatch, RunTypes
  <2>3. ASSUME NEW a \in Article, token[a] = r PROVE a \in ok'[r] \cup failed'[r]
    <3>1. a \in batch[r] /\ Unchecked(a)
      BY <2>3, DetailAssumption DEF OwnRows, CheckedOnce, Unchecked, RowTypes
    <3>2. QED
      BY <1>4, <2>3, <3>1 DEF ReadBack, Waiting, RunTypes
  <2>4. Answered'
    BY <1>1, <1>4, <2>3 DEF ReadBack, Answered, RunTypes
  <2>5. QED
    BY <1>2, <2>1, <2>2, <2>4
<1>5. ASSUME NEW a \in Article, Fetched(r, a) PROVE DInv'
  <2>1. RunTypes'
    BY <1>1, <1>5 DEF Fetched, RunTypes
  <2>2. NoBatch' /\ OkInBatch' /\ Answered'
    BY <1>1, <1>5 DEF Fetched, Waiting, NoBatch, OkInBatch, Answered, RunTypes
  <2>3. QED
    BY <1>2, <2>1, <2>2
<1>6. QED
  BY <1>3, <1>4, <1>5

\* A batch and the rows it holds grow old together.
LEMMA TickStep ==
  ASSUME DInv, Tick
  PROVE  DInv'
<1> USE DEF DInv
<1>1. /\ age' = [a \in Article |-> IF token[a] = Unclaimed THEN age[a] ELSE Older(age[a])]
      /\ held' = [r \in Runner |-> IF batch[r] = {} THEN held[r] ELSE Older(held[r])]
      /\ UNCHANGED <<active, stored, token, phase, batch, ok, failed, rounds, last>>
  BY DEF Tick, run
<1>2. \A n \in 0..Expiry + 1 : Older(n) \in 0..Expiry + 1 /\ (Older(n) <= Expiry => n <= Expiry)
  BY DetailAssumption DEF Older
<1>3. RowTypes' /\ RunTypes'
  BY <1>1, <1>2 DEF RowTypes, RunTypes
<1>4. ClaimHolds'
  BY <1>1, <1>2 DEF ClaimHolds, RunTypes, Unchecked
<1>5. OwnRows'
  <2>1. ASSUME NEW r \in Runner, NEW a \in Article, token'[a] = r
        PROVE  a \in batch'[r] /\ age'[a] = held'[r]
    <3>1. token[a] = r /\ token[a] # Unclaimed /\ a \in batch[r] /\ age[a] = held[r]
      BY <1>1, <2>1, DetailAssumption DEF OwnRows
    <3>2. QED
      BY <1>1, <3>1
  <2>2. QED
    BY <2>1 DEF OwnRows
<1>6. CheckedOnce' /\ NoBatch' /\ OkInBatch' /\ Answered'
  BY <1>1 DEF CheckedOnce, NoBatch, OkInBatch, Answered
<1>7. QED
  BY <1>3, <1>4, <1>5, <1>6

\* A change of the lifecycle touches no claim.
LEMMA CrawledStep ==
  ASSUME DInv, (\E a \in Changing : Crawled(a)) \/ UNCHANGED vars
  PROVE  DInv'
<1>1. active' \subseteq Article
  <2>1. active \subseteq Article
    BY DEF DInv, RowTypes
  <2>2. ASSUME NEW a \in Changing, Crawled(a) PROVE active' \subseteq Article
    BY <2>1, <2>2, DetailAssumption DEF Crawled
  <2>3. QED
    BY <2>1, <2>2 DEF vars
<1>2. UNCHANGED <<stored, token, age, phase, batch, ok, failed, rounds, held, last>>
  BY DEF Crawled, vars, rows, run
<1>3. QED
  BY <1>1, <1>2
     DEF DInv, RowTypes, RunTypes, CheckedOnce, ClaimHolds, OwnRows, NoBatch, OkInBatch,
         Answered, Unchecked

LEMMA DInvStep == DInv /\ [Next]_vars => DInv'
<1> SUFFICES ASSUME DInv, [Next]_vars PROVE DInv'
  OBVIOUS
<1>1. ASSUME NEW r \in Runner,
             \/ Begin(r) \/ Claim(r) \/ ClaimsNothing(r) \/ Refused(r)
             \/ ReadBack(r) \/ WriteBack(r) \/ Dies(r)
             \/ \E a \in Article : Fetched(r, a)
      PROVE  DInv'
  BY <1>1, ClaimStep, EndingSteps, WriteBackStep, AnswerSteps
<1>2. QED
  BY <1>1, TickStep, CrawledStep DEF Next

\* The inductive invariant of the claims.
THEOREM ClaimInvariant == Spec => []DInv
  BY InitDInv, DInvStep, PTL DEF Spec

\* Details are stored at most once per listing, for every number of runners.
THEOREM StoredOnce == Spec => []CheckedOnce
<1>1. DInv => CheckedOnce
  BY DEF DInv
<1>2. QED
  BY <1>1, ClaimInvariant, PTL

\* A claim that has not run out is exclusive.
THEOREM ClaimsHold == Spec => []ClaimHolds
<1>1. DInv => ClaimHolds
  BY DEF DInv
<1>2. QED
  BY <1>1, ClaimInvariant, PTL

\* A row's token becomes Gone only when the runner that holds the row dies:
\* one that ends otherwise has an empty batch or gives every row of it back.
LEMMA GoneStep ==
  ASSUME DInv, [Next]_vars, NEW a \in Article, token[a] \in Runner, token'[a] = Gone
  PROVE  last'[token[a]] = "died"
<1> DEFINE r == token[a]
<1>1. token'[a] # token[a]
  BY DetailAssumption
<1>2. ASSUME NEW q \in Runner, Begin(q) \/ ReadBack(q) \/ (\E b \in Article : Fetched(q, b))
      PROVE  FALSE
  BY <1>1, <1>2 DEF Begin, ReadBack, Fetched, rows
<1>3. ASSUME NEW q \in Runner, Claim(q) PROVE FALSE
  BY <1>1, <1>3, DetailAssumption DEF Claim
<1>4. a \in batch[r] /\ phase[r] # "claim"
  BY DEF DInv, OwnRows, NoBatch
<1>5. ASSUME NEW q \in Runner, ClaimsNothing(q) PROVE FALSE
  <2>1. q # r
    BY <1>4, <1>5 DEF ClaimsNothing
  <2>2. QED
    BY <1>1, <1>5, <2>1 DEF ClaimsNothing, SetTokens, LeftBehind
<1>6. ASSUME NEW q \in Runner, Refused(q) PROVE FALSE
  <2>1. token' = LeftBehind(Released(q, batch[q]), q)
    BY <1>6 DEF Refused, SetTokens
  <2>2. CASE q = r
    BY <1>4, <2>1, <2>2, DetailAssumption DEF Released, LeftBehind
  <2>3. CASE q # r
    BY <1>1, <2>1, <2>3 DEF Released, LeftBehind
  <2>4. QED
    BY <2>2, <2>3
<1>7. ASSUME NEW q \in Runner, WriteBack(q) PROVE FALSE
  <2> DEFINE S == Fenced(q) \cup failed[q]
  <2>1. token' = Released(q, S) \/ token' = LeftBehind(Released(q, S), q)
    BY <1>7 DEF WriteBack, SetTokens
  <2>2. q = r => a \in S
    BY <1>7 DEF WriteBack, DInv, Answered, Fenced
  <2>3. Released(q, S)[a] = IF q = r THEN Unclaimed ELSE token[a]
    BY <2>2 DEF Released
  <2>4. QED
    BY <1>1, <2>1, <2>3, DetailAssumption DEF LeftBehind
<1>8. ASSUME NEW q \in Runner, Dies(q) PROVE last'[r] = "died"
  <2>1. q = r
    BY <1>1, <1>8 DEF Dies, SetTokens, LeftBehind
  <2>2. QED
    BY <1>8, <2>1 DEF Dies, EndRun, DInv, RunTypes
<1>9. CASE Tick \/ (\E b \in Changing : Crawled(b)) \/ UNCHANGED vars
  BY <1>1, <1>9 DEF Tick, Crawled, vars, rows
<1>10. QED
  BY <1>2, <1>3, <1>5, <1>6, <1>7, <1>8, <1>9 DEF Next

\* A run that is not cut off by death leaves no listing claimed.
THEOREM ClaimsAreGivenBack == Spec => OnlyDeathLeavesClaims
<1>1. DInv /\ [Next]_vars =>
        [\A a \in Article :
            token[a] \in Runner /\ token'[a] = Gone => last'[token[a]] = "died"]_vars
  BY GoneStep
<1>2. QED
  BY <1>1, ClaimInvariant, PTL DEF Spec, OnlyDeathLeavesClaims

-----------------------------------------------------------------------------
(* The sizes: a runner takes no more than a batch, and its cursor is one of *)
(* the listings of the batch.                                               *)

\* The number of elements of S below a rises with a.
Lower(S, a) == {b \in S : b < a}

LEMMA LowerRises ==
  ASSUME NEW S \in SUBSET Nat, NEW a \in S
  PROVE  /\ Cardinality(Lower(S, a)) \in Nat
         /\ \A b \in S : b < a => Cardinality(Lower(S, b)) < Cardinality(Lower(S, a))
<1>1. \A c \in S : IsFiniteSet(Lower(S, c)) /\ Cardinality(Lower(S, c)) \in Nat
  <2> TAKE c \in S
  <2>1. Lower(S, c) \in SUBSET Nat /\ c \in Nat /\ \A b \in Lower(S, c) : b <= c
    <3>1. c \in Nat /\ \A b \in S : b \in Nat
      OBVIOUS
    <3>2. \A b \in Lower(S, c) : b \in S /\ b < c
      BY DEF Lower
    <3>3. ASSUME NEW b \in Lower(S, c) PROVE b \in Nat /\ b <= c
      <4>1. b \in Nat /\ c \in Nat /\ b < c
        BY <3>1, <3>2
      <4>2. QED
        BY <4>1
    <3>4. Lower(S, c) \subseteq Nat
      BY <3>3
    <3>5. QED
      BY <3>1, <3>3, <3>4
  <2>2. QED
    BY <2>1, FS_BoundedSetOfNaturals, FS_CardinalityType
<1>2. ASSUME NEW b \in S, b < a
      PROVE  Cardinality(Lower(S, b)) < Cardinality(Lower(S, a))
  <2>1. Lower(S, b) \in SUBSET Lower(S, a) /\ b \in Lower(S, a) /\ b \notin Lower(S, b)
    <3>1. a \in Nat /\ b \in Nat /\ \A c \in S : c \in Nat
      OBVIOUS
    <3>2. \A c \in S : c < b => c < a
      BY <3>1, <1>2
    <3>3. ~(b < b)
      BY <3>1
    <3>4. QED
      BY <3>2, <3>3, <1>2 DEF Lower
  <2>2. Cardinality(Lower(S, b)) <= Cardinality(Lower(S, a))
        /\ Cardinality(Lower(S, b)) # Cardinality(Lower(S, a))
    BY <1>1, <2>1, FS_Subset
  <2>3. QED
    BY <1>1, <2>2
<1>3. QED
  BY <1>1, <1>2

\* ORDER BY and LIMIT return at most as many as the limit says.
LEMMA LowestAreFew ==
  ASSUME NEW S \in SUBSET Nat, NEW n \in Nat
  PROVE  /\ Lowest(S, n) \in SUBSET S /\ IsFiniteSet(Lowest(S, n))
         /\ Cardinality(Lowest(S, n)) \in 0..n
<1> DEFINE L == Lowest(S, n)
           f == [a \in L |-> Cardinality(Lower(S, a))]
<1>1. L \in SUBSET S /\ \A a \in L : a \in S /\ Cardinality(Lower(S, a)) < n
  BY DEF Lowest, Lower
<1>2. \A a \in S : Cardinality(Lower(S, a)) \in Nat
  BY LowerRises
<1>3. \A a, b \in S : b < a => Cardinality(Lower(S, b)) < Cardinality(Lower(S, a))
  BY LowerRises
<1> HIDE DEF L
<1>4. f \in [L -> 0..n - 1]
  BY <1>1, <1>2
<1>5. \A a, b \in L : f[a] = f[b] => a = b
  <2> SUFFICES ASSUME NEW a \in L, NEW b \in L, f[a] = f[b] PROVE a = b
    OBVIOUS
  <2>1. a \in S /\ b \in S /\ a \in Nat /\ b \in Nat
    BY <1>1
  <2>2. Cardinality(Lower(S, a)) = Cardinality(Lower(S, b))
    OBVIOUS
  <2>3. ~(a < b) /\ ~(b < a)
    BY <1>2, <1>3, <2>1, <2>2
  <2>4. QED
    BY <2>1, <2>3
<1>6. f \in Injection(L, 0..n - 1)
  BY <1>4, <1>5 DEF Injection, IsInjective
<1>7. IsFiniteSet(0..n - 1) /\ Cardinality(0..n - 1) = n
  BY FS_Interval
<1> HIDE DEF f
<1>8. IsFiniteSet(L) /\ Cardinality(L) <= n
  BY <1>6, <1>7, FS_Injection
<1>9. Cardinality(L) \in Nat
  BY <1>8, FS_CardinalityType
<1>10. QED
  BY <1>1, <1>8, <1>9 DEF L

\* A finite set of numbers that is not empty has a largest one: the one with most below.
LEMMA LargestIsOne ==
  ASSUME NEW S \in SUBSET Nat, IsFiniteSet(S), S # {}
  PROVE  Max(S) \in S
<1> DEFINE count(a) == Cardinality(Lower(S, a))
           N == {Cardinality(S) - count(a) : a \in S}
           Below == {pair \in Nat \X Nat : pair[1] < pair[2]}
<1>1. Cardinality(S) \in Nat
  BY FS_CardinalityType
<1>2. \A a \in S : count(a) \in Nat /\ count(a) <= Cardinality(S)
  <2> TAKE a \in S
  <2>1. Lower(S, a) \in SUBSET S
    BY DEF Lower
  <2>2. QED
    BY <2>1, LowerRises, FS_Subset
<1>3. \A a, b \in S : b < a => count(b) < count(a)
  BY LowerRises
<1> HIDE DEF count
<1>4. N \in SUBSET Nat /\ N # {}
  <2>1. \A a \in S : Cardinality(S) - count(a) \in Nat
    BY <1>1, <1>2
  <2>2. QED
    BY <2>1
<1>5. IsWellFoundedOn(Below, Nat)
  BY NatLessThanWellFounded DEF OpToRel
<1>6. \A x, y \in Nat : ~(<<x, y>> \in Below) => y <= x
  OBVIOUS
<1> HIDE DEF Below
<1>7. PICK x \in N : \A y \in N : ~(<<y, x>> \in Below)
  BY <1>4, <1>5, WFMin
<1>8. PICK a \in S : x = Cardinality(S) - count(a)
  BY <1>7
<1>9. \A b \in S : a >= b
  <2> SUFFICES ASSUME NEW b \in S, a < b PROVE FALSE
    BY <1>8
  <2> DEFINE y == Cardinality(S) - count(b)
  <2>1. y \in N /\ count(a) < count(b)
    BY <1>3
  <2>2. y \in Nat /\ x \in Nat /\ y < x
    BY <2>1, <1>1, <1>2, <1>4, <1>7, <1>8
  <2>3. x <= y
    BY <2>1, <2>2, <1>6, <1>7
  <2>4. QED
    BY <2>2, <2>3
<1>10. QED
  BY <1>8, <1>9 DEF Max

\* Who is after the claim has a batch, and no batch is larger than the limit.
BatchesFit ==
    \A r \in Runner :
        /\ IsFiniteSet(batch[r])
        /\ Cardinality(batch[r]) \in 0..BatchSize
        /\ phase[r] \in {"fetch", "write"} => batch[r] # {}

SizeInv == DInv /\ BatchesFit /\ cursor \in [Runner -> Article \cup {0}]

\* The listings of the job come first, the others fill up what is left of the limit.
LEMMA CandidatesAreFew ==
  ASSUME DInv, NEW r \in Runner, NEW ours, NEW skipped
  PROVE  /\ IsFiniteSet(Candidates(r, ours, skipped))
         /\ Cardinality(Candidates(r, ours, skipped)) \in 0..BatchSize
<1> DEFINE free == {a \in Article \ skipped : Available(a) /\ a > cursor[r]}
           A == free \cap ours
           B == free \ ours
           first == Lowest(A, BatchSize)
           rest == BatchSize - Cardinality(first)
           second == Lowest(B, rest)
<1>1. A \in SUBSET Nat /\ B \in SUBSET Nat /\ A \cap B = {} /\ BatchSize \in Nat
  BY DetailAssumption
<1> HIDE DEF A, B
<1>2. first \in SUBSET A /\ IsFiniteSet(first) /\ Cardinality(first) \in 0..BatchSize
  BY <1>1, LowestAreFew
<1> HIDE DEF first
<1>3. rest \in Nat /\ rest = BatchSize - Cardinality(first)
  BY <1>1, <1>2
<1> HIDE DEF rest
<1>4. second \in SUBSET B /\ IsFiniteSet(second) /\ Cardinality(second) \in 0..rest
  BY <1>1, <1>3, LowestAreFew
<1> HIDE DEF second
<1>5. first \cap second = {}
  BY <1>1, <1>2, <1>4
<1>6. IsFiniteSet(first \cup second)
      /\ Cardinality(first \cup second)
           = Cardinality(first) + Cardinality(second) - Cardinality(first \cap second)
  BY <1>2, <1>4, FS_Union
<1>7. Cardinality(first \cap second) = 0
  BY <1>5, FS_EmptySet
<1>8. Cardinality(first \cup second) \in 0..BatchSize
  BY <1>1, <1>2, <1>3, <1>4, <1>6, <1>7
<1>9. Candidates(r, ours, skipped) = first \cup second
  BY DEF Candidates, first, second, rest, A, B
<1>10. QED
  BY <1>6, <1>8, <1>9

\* A runner without a batch fits.
LEMMA EmptyFits == IsFiniteSet({}) /\ Cardinality({}) \in 0..BatchSize
  BY FS_EmptySet, DetailAssumption

LEMMA SizesStart == Init => BatchesFit /\ cursor \in [Runner -> Article \cup {0}]
  BY EmptyFits DEF Init, BatchesFit

\* An end of a run empties its batch and forgets the cursor.
LEMMA EndOfRunFits ==
  ASSUME SizeInv, NEW r \in Runner, NEW how, EndRun(r, how)
  PROVE  BatchesFit' /\ cursor' \in [Runner -> Article \cup {0}]
<1>1. phase \in [Runner -> {"idle", "claim", "fetch", "write"}] /\ batch \in [Runner -> SUBSET Article]
      /\ cursor \in [Runner -> Article \cup {0}]
  BY DEF SizeInv, DInv, RunTypes
<1>2. cursor' \in [Runner -> Article \cup {0}]
  BY <1>1 DEF EndRun
<1>3. ASSUME NEW q \in Runner
      PROVE  /\ IsFiniteSet(batch'[q]) /\ Cardinality(batch'[q]) \in 0..BatchSize
             /\ phase'[q] \in {"fetch", "write"} => batch'[q] # {}
  <2>1. CASE q = r
    <3>1. batch'[q] = {} /\ phase'[q] = "idle"
      BY <1>1, <2>1 DEF EndRun
    <3>2. QED
      BY <3>1, EmptyFits
  <2>2. CASE q # r
    <3>1. batch'[q] = batch[q] /\ phase'[q] = phase[q]
      BY <1>1, <2>2 DEF EndRun
    <3>2. QED
      BY <3>1 DEF SizeInv, BatchesFit
  <2>3. QED
    BY <2>1, <2>2
<1>4. QED
  BY <1>2, <1>3 DEF BatchesFit

\* The claim is the only step that fills a batch.
LEMMA ClaimFits ==
  ASSUME SizeInv, NEW r \in Runner, Claim(r)
  PROVE  BatchesFit' /\ cursor' \in [Runner -> Article \cup {0}]
<1>1. phase \in [Runner -> {"idle", "claim", "fetch", "write"}] /\ batch \in [Runner -> SUBSET Article]
      /\ cursor \in [Runner -> Article \cup {0}]
  BY DEF SizeInv, DInv, RunTypes
<1>2. PICK ours \in Seen(r), skipped \in SUBSET Locked(r) :
        /\ Candidates(r, ours, skipped) # {}
        /\ batch' = [batch EXCEPT ![r] = Candidates(r, ours, skipped)]
  BY DEF Claim
<1>3. phase' = [phase EXCEPT ![r] = "fetch"] /\ cursor' = cursor
  BY DEF Claim
<1> DEFINE mine == Candidates(r, ours, skipped)
<1>4. IsFiniteSet(mine) /\ Cardinality(mine) \in 0..BatchSize
  BY CandidatesAreFew DEF SizeInv
<1> HIDE DEF mine
<1>5. mine # {} /\ batch' = [batch EXCEPT ![r] = mine]
  BY <1>2 DEF mine
<1>6. ASSUME NEW q \in Runner
      PROVE  /\ IsFiniteSet(batch'[q]) /\ Cardinality(batch'[q]) \in 0..BatchSize
             /\ phase'[q] \in {"fetch", "write"} => batch'[q] # {}
  <2>1. CASE q = r
    <3>1. batch'[q] = mine
      BY <1>1, <1>5, <2>1
    <3>2. QED
      BY <3>1, <1>4, <1>5
  <2>2. CASE q # r
    <3>1. batch'[q] = batch[q] /\ phase'[q] = phase[q]
      BY <1>1, <1>3, <1>5, <2>2
    <3>2. QED
      BY <3>1 DEF SizeInv, BatchesFit
  <2>3. QED
    BY <2>1, <2>2
<1>7. QED
  BY <1>1, <1>3, <1>6 DEF BatchesFit

\* A sweep that goes on has its cursor at the largest id of the batch.
LEMMA WriteBackFits ==
  ASSUME SizeInv, NEW r \in Runner, WriteBack(r)
  PROVE  BatchesFit' /\ cursor' \in [Runner -> Article \cup {0}]
<1>1. phase \in [Runner -> {"idle", "claim", "fetch", "write"}] /\ batch \in [Runner -> SUBSET Article]
      /\ cursor \in [Runner -> Article \cup {0}]
  BY DEF SizeInv, DInv, RunTypes
<1>2. CASE ~MoreBatches(r)
  <2>1. EndRun(r, "done")
    BY <1>2 DEF WriteBack
  <2>2. QED
    BY <2>1, EndOfRunFits
<1>3. CASE MoreBatches(r)
  <2>1. /\ phase' = [phase EXCEPT ![r] = "claim"] /\ batch' = [batch EXCEPT ![r] = {}]
        /\ cursor' = [cursor EXCEPT ![r] = Max(batch[r])]
    BY <1>3 DEF WriteBack
  <2>2. batch[r] \in SUBSET Nat /\ IsFiniteSet(batch[r]) /\ batch[r] # {} /\ batch[r] \in SUBSET Article
    BY <1>1, DetailAssumption DEF WriteBack, SizeInv, BatchesFit
  <2>3. Max(batch[r]) \in Article
    BY <2>2, LargestIsOne
  <2>4. cursor' \in [Runner -> Article \cup {0}]
    BY <1>1, <2>1, <2>3
  <2>5. ASSUME NEW q \in Runner
        PROVE  /\ IsFiniteSet(batch'[q]) /\ Cardinality(batch'[q]) \in 0..BatchSize
               /\ phase'[q] \in {"fetch", "write"} => batch'[q] # {}
    <3>1. CASE q = r
      <4>1. batch'[q] = {} /\ phase'[q] = "claim"
        BY <1>1, <2>1, <3>1
      <4>2. QED
        BY <4>1, EmptyFits
    <3>2. CASE q # r
      <4>1. batch'[q] = batch[q] /\ phase'[q] = phase[q]
        BY <1>1, <2>1, <3>2
      <4>2. QED
        BY <4>1 DEF SizeInv, BatchesFit
    <3>3. QED
      BY <3>1, <3>2
  <2>6. QED
    BY <2>4, <2>5 DEF BatchesFit
<1>4. QED
  BY <1>2, <1>3

\* The other steps leave the batches alone, and nobody comes to the answers without one.
LEMMA OthersFit ==
  ASSUME SizeInv,
         \/ \E r \in Runner : Begin(r) \/ ReadBack(r) \/ (\E a \in Article : Fetched(r, a))
         \/ Tick \/ (\E a \in Changing : Crawled(a)) \/ UNCHANGED vars
  PROVE  BatchesFit' /\ cursor' \in [Runner -> Article \cup {0}]
<1>1. phase \in [Runner -> {"idle", "claim", "fetch", "write"}] /\ cursor \in [Runner -> Article \cup {0}]
  BY DEF SizeInv, DInv, RunTypes
<1>2. batch' = batch /\ cursor' = cursor
  BY DEF Begin, ReadBack, Fetched, Tick, Crawled, vars, run
<1>3. \A q \in Runner : phase'[q] \in {"fetch", "write"} => phase[q] \in {"fetch", "write"}
  BY <1>1 DEF Begin, ReadBack, Fetched, Tick, Crawled, vars, run
<1>4. QED
  BY <1>1, <1>2, <1>3 DEF SizeInv, BatchesFit

\* The invariant with the sizes of the batches and the type of the cursor.
THEOREM SizeInvariant == Spec => []SizeInv
<1>1. SizeInv /\ [Next]_vars => SizeInv'
  <2> SUFFICES ASSUME SizeInv, [Next]_vars PROVE SizeInv'
    OBVIOUS
  <2>1. DInv'
    BY DInvStep DEF SizeInv
  <2>2. BatchesFit' /\ cursor' \in [Runner -> Article \cup {0}]
    <3>1. ASSUME NEW r \in Runner, ClaimsNothing(r) \/ Refused(r) \/ Dies(r)
          PROVE  \E how : EndRun(r, how)
      BY <3>1 DEF ClaimsNothing, Refused, Dies
    <3>2. QED
      BY <3>1, EndOfRunFits, ClaimFits, WriteBackFits, OthersFit DEF Next
  <2>3. QED
    BY <2>1, <2>2 DEF SizeInv
<1>2. Init => SizeInv
  BY InitDInv, SizesStart DEF SizeInv
<1>3. QED
  BY <1>1, <1>2, PTL DEF Spec

\* The state has its types; the cursor of a sweep is one of its listings.
THEOREM TypeCorrect == Spec => []TypeOK
<1>1. SizeInv => TypeOK
  BY DEF SizeInv, DInv, TypeOK
<1>2. QED
  BY <1>1, SizeInvariant, PTL

\* However claims run out and are taken over, no runner ever has more listings claimed
\* than a batch holds (the two LIMITs of _claim_batch, of which the second is what the
\* first left over).
ClaimsAreFew ==
    \A r \in Runner : LET claimed == {a \in Article : token[a] = r}
                      IN  IsFiniteSet(claimed) /\ Cardinality(claimed) <= BatchSize

THEOREM ClaimsStayFew == Spec => []ClaimsAreFew
<1>1. SizeInv => ClaimsAreFew
  <2> SUFFICES ASSUME SizeInv, NEW r \in Runner
               PROVE  LET claimed == {a \in Article : token[a] = r}
                      IN  IsFiniteSet(claimed) /\ Cardinality(claimed) <= BatchSize
    BY DEF ClaimsAreFew
  <2> DEFINE claimed == {a \in Article : token[a] = r}
  <2>1. claimed \in SUBSET batch[r]
    BY DEF SizeInv, DInv, OwnRows
  <2>2. IsFiniteSet(batch[r]) /\ Cardinality(batch[r]) \in 0..BatchSize
    BY DEF SizeInv, BatchesFit
  <2> HIDE DEF claimed
  <2>3. IsFiniteSet(claimed) /\ Cardinality(claimed) <= Cardinality(batch[r])
    BY <2>1, <2>2, FS_Subset
  <2>4. Cardinality(claimed) \in Nat /\ BatchSize \in Nat
    BY <2>3, FS_CardinalityType, DetailAssumption
  <2>5. IsFiniteSet(claimed) /\ Cardinality(claimed) <= BatchSize
    BY <2>2, <2>3, <2>4
  <2>6. QED
    BY <2>5 DEF claimed
<1>2. QED
  BY <1>1, SizeInvariant, PTL

=============================================================================
