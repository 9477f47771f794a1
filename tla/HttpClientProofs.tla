-------------------------- MODULE HttpClientProofs --------------------------
(***************************************************************************)
(* Why a session is thrown away on the word of a request it refused, or by *)
(* a call that came before there was any, and why at most MaxLimit requests *)
(* are out at once.                                                        *)
(*                                                                         *)
(* The argument follows one call.  Between two refusals it notes a         *)
(* session, is sent with that session or a later one, and notes nothing    *)
(* newer than the session there is; so when it comes to the lock and the   *)
(* noted session is still the current one, it is the one that refused it.  *)
(***************************************************************************)
EXTENDS HttpClient, FiniteSetTheorems, TLAPS

(* The requests that are out. *)
Out == {c \in Caller : at[c] = "sent"}

(* A permit is held exactly by a request that is out. *)
PermitsCounted ==
  /\ IsFiniteSet(Out)
  /\ active = Cardinality(Out)
  /\ active <= MaxLimit

(* What a call knows of the sessions, depending on where it is. *)
NotesThePast(c) ==
  /\ noted[c] <= generation
  /\ \A s \in refusedBy[c] : s <= generation
  /\ ~outdated[c] => \A s \in refusedBy[c] : s <= noted[c]

AtRest(c) ==
  at[c] = "idle" => noted[c] = 0 /\ refusedBy[c] = {} /\ ~outdated[c]

Underway(c) ==
  /\ at[c] = "sent" => /\ noted[c] <= used[c] /\ used[c] <= generation
                       /\ ~outdated[c] => used[c] = noted[c]
  /\ at[c] \in {"permit", "sent", "backoff"} /\ ~outdated[c]
       => noted[c] \notin refusedBy[c]

Renewing(c) ==
  /\ at[c] \in {"lock", "bootstrap"} /\ noted[c] = generation /\ noted[c] # 0
       => generation \in refusedBy[c]
  /\ at[c] = "bootstrap" => noted[c] \in {0, generation}
  /\ noted[c] = 0 => at[c] \in {"idle", "lock", "bootstrap"} /\ refusedBy[c] = {}

CallOK(c) == NotesThePast(c) /\ AtRest(c) /\ Underway(c) /\ Renewing(c)

(* The start of a job notes nothing and sends nothing. *)
JobStartShape ==
  /\ at[JobStart] \in {"idle", "lock", "bootstrap"}
  /\ noted[JobStart] = 0 /\ refusedBy[JobStart] = {} /\ ~outdated[JobStart]

(* The lock is held by one caller. *)
OneRenews ==
  \A c, d \in Caller : at[c] = "bootstrap" /\ at[d] = "bootstrap" => c = d

IInv ==
  /\ TypeOK
  /\ PermitsCounted
  /\ \A c \in Caller : CallOK(c)
  /\ JobStartShape
  /\ OneRenews

-----------------------------------------------------------------------------
(* Permits. *)

LEMMA OutIsCounted ==
  ASSUME TypeOK, PermitsCounted
  PROVE  active \in Nat /\ (\A c \in Out : 1 <= active)
<1>1. active \in Nat
  BY FS_CardinalityType DEF PermitsCounted
<1>2. Out # {} => active # 0
  BY FS_EmptySet DEF PermitsCounted
<1>3. QED
  BY <1>1, <1>2

\* A caller that sends takes one permit, which there was below the limit.
LEMMA PermitTaken ==
  ASSUME TypeOK, PermitsCounted, NEW c \in Caller, at[c] # "sent",
         active < limit, active' = active + 1, at' = [at EXCEPT ![c] = "sent"]
  PROVE  PermitsCounted' /\ active' \in 0..MaxLimit
<1>1. Out' = Out \cup {c} /\ c \notin Out
  BY DEF Out, TypeOK
<1>2. IsFiniteSet(Out') /\ Cardinality(Out') = Cardinality(Out) + 1
  BY <1>1, FS_AddElement DEF PermitsCounted
<1>3. active \in Nat /\ active' <= MaxLimit
  BY OutIsCounted, HttpAssumption DEF TypeOK
<1>4. QED
  BY <1>2, <1>3, HttpAssumption DEF PermitsCounted

\* A caller that was out gives one permit back, wherever it goes.
LEMMA PermitGivenBack ==
  ASSUME TypeOK, PermitsCounted, NEW c \in Caller, at[c] = "sent",
         active' = active - 1, NEW place, place # "sent",
         at' = [at EXCEPT ![c] = place]
  PROVE  PermitsCounted' /\ active' \in 0..MaxLimit
<1>1. Out' = Out \ {c} /\ c \in Out
  BY DEF Out, TypeOK
<1>2. IsFiniteSet(Out') /\ Cardinality(Out') = Cardinality(Out) - 1
  BY <1>1, FS_RemoveElement DEF PermitsCounted
<1>3. active \in Nat /\ 1 <= active
  BY <1>1, OutIsCounted
<1>4. QED
  BY <1>2, <1>3, HttpAssumption DEF PermitsCounted

\* A caller that goes from one place to another without sending takes none.
LEMMA PermitsUntouched ==
  ASSUME TypeOK, PermitsCounted, NEW c \in Caller, at[c] # "sent",
         active' = active, NEW place, place # "sent",
         at' = [at EXCEPT ![c] = place]
  PROVE  PermitsCounted' /\ active' \in 0..MaxLimit
<1>1. Out' = Out
  BY DEF Out, TypeOK
<1>2. QED
  BY <1>1 DEF PermitsCounted, TypeOK

LEMMA PermitAskedFor ==
  ASSUME TypeOK, PermitsCounted, NEW c \in Caller, at[c] # "sent",
         NEW g, ForPermit(c, g)
  PROVE  PermitsCounted' /\ active' \in 0..MaxLimit
  BY PermitTaken, PermitsUntouched DEF ForPermit, Goes

-----------------------------------------------------------------------------
(* Sessions. *)

LEMMA OthersStay ==
  ASSUME NEW d, CallOK(d), generation' = generation,
         at'[d] = at[d], noted'[d] = noted[d], used'[d] = used[d],
         refusedBy'[d] = refusedBy[d], outdated'[d] = outdated[d]
  PROVE  CallOK(d)'
  BY DEF CallOK, NotesThePast, AtRest, Underway, Renewing

(* A step of the caller c, as the other callers see it. *)
OnlyMoves(c) ==
  /\ generation' = generation
  /\ \A d \in Caller \ {c} :
        /\ at'[d] = at[d] /\ noted'[d] = noted[d] /\ used'[d] = used[d]
        /\ refusedBy'[d] = refusedBy[d] /\ outdated'[d] = outdated[d]

\* Such a step leaves only the caller's own part of the invariant to show.
LEMMA OwnPartIsEnough ==
  ASSUME IInv, NEW c \in Caller, OnlyMoves(c), TypeOK', PermitsCounted', CallOK(c)',
         c = JobStart => JobStartShape',
         at'[c] = "bootstrap" => LockFree
  PROVE  IInv'
<1>1. \A d \in Caller : CallOK(d)'
  BY OthersStay DEF IInv, OnlyMoves
<1>2. JobStartShape'
  BY DEF IInv, OnlyMoves, JobStartShape, Caller
<1>3. OneRenews'
  BY DEF IInv, OnlyMoves, OneRenews, LockFree
<1>4. QED
  BY <1>1, <1>2, <1>3 DEF IInv

LEMMA EndsType ==
  ASSUME TypeOK, NEW c \in Caller, Ends(c)
  PROVE  /\ at' \in [Caller -> {"idle", "permit", "sent", "backoff", "lock", "bootstrap"}]
         /\ noted' \in [Caller -> 0..MaxSessions]
         /\ did' \in [Caller -> SUBSET Refusal]
         /\ tries' \in [Caller -> 0..MaxTries]
         /\ refusedBy' \in [Caller -> SUBSET (0..MaxSessions)]
         /\ outdated' \in [Caller -> BOOLEAN]
  BY HttpAssumption DEF TypeOK, Ends, Goes

LEMMA ForPermitType ==
  ASSUME TypeOK, NEW c \in Caller, NEW g \in 0..MaxSessions, ForPermit(c, g)
  PROVE  /\ at' \in [Caller -> {"idle", "permit", "sent", "backoff", "lock", "bootstrap"}]
         /\ used' \in [Caller -> 0..MaxSessions]
  BY DEF TypeOK, ForPermit, Goes

\* A call that ends knows nothing any more.
LEMMA EndsOK ==
  ASSUME TypeOK, NEW c \in Caller, Ends(c), generation' = generation
  PROVE  CallOK(c)' /\ at'[c] = "idle" /\ (c = JobStart => JobStartShape')
  BY HttpAssumption
     DEF TypeOK, Ends, Goes, CallOK, NotesThePast, AtRest, Underway, Renewing, JobStartShape

LEMMA EnterStep ==
  ASSUME IInv, NEW r \in Request, Enter(r)
  PROVE  IInv'
<1> USE DEF IInv
<1>1. r \in Caller /\ r # JobStart /\ at[r] = "idle"
  BY HttpAssumption DEF Caller, Enter
<1>2. PermitsCounted' /\ active' \in 0..MaxLimit
  BY <1>1, PermitAskedFor, PermitsUntouched DEF Enter, Goes
<1>3. /\ at' \in [Caller -> {"idle", "permit", "sent", "backoff", "lock", "bootstrap"}]
      /\ used' \in [Caller -> 0..MaxSessions]
  BY <1>1, ForPermitType DEF Enter, Goes, TypeOK
<1>4. TypeOK'
  BY <1>1, <1>2, <1>3 DEF Enter, TypeOK
<1>5. OnlyMoves(r)
  BY <1>1 DEF Enter, ForPermit, Goes, OnlyMoves, TypeOK
<1>6. CallOK(r) /\ refusedBy'[r] = {} /\ noted'[r] = generation /\ generation' = generation
      /\ ~outdated'[r]
  BY <1>1 DEF Enter, CallOK, AtRest, TypeOK
<1>7. \/ at'[r] = "lock" /\ generation = 0
      \/ at'[r] = "permit" /\ generation # 0
      \/ at'[r] = "sent" /\ used'[r] = generation /\ generation # 0
  BY <1>1 DEF Enter, ForPermit, Goes, TypeOK
<1>8. CallOK(r)'
  BY <1>6, <1>7, <1>4 DEF CallOK, NotesThePast, AtRest, Underway, Renewing, TypeOK
<1>9. QED
  BY <1>1, <1>2, <1>4, <1>5, <1>7, <1>8, OwnPartIsEnough

LEMMA StartJobStep ==
  ASSUME IInv, StartJob
  PROVE  IInv'
<1> USE DEF IInv
<1>1. JobStart \in Caller /\ at[JobStart] = "idle"
  BY DEF Caller, StartJob
<1>2. PermitsCounted'
  BY <1>1, PermitsUntouched DEF StartJob, Goes, limiter
<1>3. TypeOK' /\ OnlyMoves(JobStart) /\ JobStartShape'
  BY <1>1 DEF StartJob, Goes, TypeOK, OnlyMoves, JobStartShape, limiter, history
<1>4. CallOK(JobStart)'
  BY <1>1 DEF StartJob, Goes, TypeOK, CallOK, NotesThePast, AtRest, Underway, Renewing,
              JobStartShape, limiter, history
<1>5. at'[JobStart] # "bootstrap"
  BY <1>1 DEF StartJob, Goes, TypeOK
<1>6. QED
  BY <1>1, <1>2, <1>3, <1>4, <1>5, OwnPartIsEnough

\* At the lock: either the noted session is the current one, and its own
\* refusal is known, or the call goes on with the current one, which is newer
\* than every session that refused it.
LEMMA LockedStep ==
  ASSUME IInv, NEW c \in Caller, Locked(c)
  PROVE  IInv'
<1> USE DEF IInv
<1>1. at[c] = "lock" /\ LockFree /\ CallOK(c)
  BY DEF Locked
<1>2. c = JobStart => noted[c] \in {0, generation}
  BY DEF JobStartShape
<1>3. OnlyMoves(c)
  BY DEF Locked, ForPermit, Goes, OnlyMoves, TypeOK
<1>4. CASE noted[c] \in {0, generation}
  <2>1. UNCHANGED <<noted, active, used>> /\ Goes(c, "bootstrap")
    BY <1>4 DEF Locked
  <2>2. PermitsCounted'
    BY <1>1, <2>1, PermitsUntouched DEF Goes
  <2>3. TypeOK' /\ at'[c] = "bootstrap" /\ (c = JobStart => JobStartShape')
    BY <2>1 DEF Locked, Goes, TypeOK, JobStartShape
  <2>4. CallOK(c)'
    BY <1>1, <1>4, <2>1, <2>3
       DEF Locked, TypeOK, CallOK, NotesThePast, AtRest, Underway, Renewing
  <2>5. QED
    BY <1>1, <1>3, <2>2, <2>3, <2>4, OwnPartIsEnough
<1>5. CASE noted[c] \notin {0, generation}
  <2>1. ForPermit(c, generation) /\ noted' = [noted EXCEPT ![c] = generation]
    BY <1>5 DEF Locked
  <2>2. PermitsCounted' /\ active' \in 0..MaxLimit
    BY <1>1, <2>1, PermitAskedFor
  <2>3. generation \in 0..MaxSessions
    BY DEF TypeOK
  <2>4. /\ at' \in [Caller -> {"idle", "permit", "sent", "backoff", "lock", "bootstrap"}]
        /\ used' \in [Caller -> 0..MaxSessions]
    BY <2>1, <2>3, ForPermitType
  <2>5. TypeOK'
    BY <2>1, <2>2, <2>4 DEF Locked, TypeOK
  <2>6. noted[c] < generation /\ generation # 0
    BY <1>1, <1>5, HttpAssumption DEF CallOK, NotesThePast, TypeOK
  <2>7. ~outdated[c] => generation \notin refusedBy[c]
    BY <1>1, <2>6, HttpAssumption DEF CallOK, NotesThePast, TypeOK
  <2>8. /\ noted'[c] = generation /\ generation' = generation
        /\ refusedBy'[c] = refusedBy[c] /\ outdated'[c] = outdated[c]
        /\ at'[c] = "permit" \/ (at'[c] = "sent" /\ used'[c] = generation)
    BY <2>1 DEF Locked, ForPermit, Goes, TypeOK
  <2>9. CallOK(c)'
    <3>1. NotesThePast(c)'
      BY <1>1, <2>8, HttpAssumption DEF CallOK, NotesThePast, TypeOK
    <3>2. QED
      BY <2>3, <2>6, <2>7, <2>8, <3>1, HttpAssumption DEF CallOK, AtRest, Underway, Renewing, TypeOK
  <2>10. QED
    BY <1>1, <1>2, <1>3, <1>5, <2>2, <2>5, <2>8, <2>9, OwnPartIsEnough
<1>6. QED
  BY <1>4, <1>5

\* The new session is newer than anything noted, sent or refused.
LEMMA BootstrappedStep ==
  ASSUME IInv, NEW c \in Caller, Bootstrapped(c)
  PROVE  IInv'
<1> USE DEF IInv
<1>1. /\ at[c] = "bootstrap" /\ generation' = generation + 1
      /\ generation + 1 \in 0..MaxSessions /\ generation \in 0..MaxSessions
  BY HttpAssumption DEF Bootstrapped, TypeOK
<1>2. PermitsCounted' /\ active' \in 0..MaxLimit
  BY <1>1, PermitAskedFor, PermitsUntouched DEF Bootstrapped, Goes
<1>3. /\ at' \in [Caller -> {"idle", "permit", "sent", "backoff", "lock", "bootstrap"}]
      /\ used' \in [Caller -> 0..MaxSessions]
      /\ noted' \in [Caller -> 0..MaxSessions]
  BY <1>1, ForPermitType DEF Bootstrapped, Goes, TypeOK
<1>4. TypeOK'
  BY <1>1, <1>2, <1>3 DEF Bootstrapped, TypeOK
<1>5. /\ \A d \in Caller \ {c} :
            at'[d] = at[d] /\ noted'[d] = noted[d] /\ used'[d] = used[d]
      /\ refusedBy' = refusedBy /\ outdated' = outdated
  BY DEF Bootstrapped, ForPermit, Goes, TypeOK
<1>6. ASSUME NEW d \in Caller, d # c PROVE CallOK(d)'
  <2>1. at[d] # "bootstrap" /\ CallOK(d)
    BY <1>1, <1>6 DEF OneRenews
  <2>2. /\ noted[d] < generation + 1 /\ \A s \in refusedBy[d] : s <= generation + 1
        /\ at[d] = "sent" => used[d] <= generation + 1
    BY <1>1, <2>1, HttpAssumption DEF CallOK, NotesThePast, Underway, TypeOK
  <2>3. noted[d] # generation + 1 /\ noted[d] <= generation + 1
    BY <1>1, <2>2, HttpAssumption DEF TypeOK
  <2>4. QED
    BY <1>1, <1>5, <1>6, <2>1, <2>2, <2>3
       DEF CallOK, NotesThePast, AtRest, Underway, Renewing
<1>7. CASE c = JobStart
  <2>1. at' = [at EXCEPT ![c] = "idle"] /\ noted' = noted
    BY <1>7 DEF Bootstrapped, Goes
  <2>2. JobStartShape' /\ CallOK(c)'
    BY <1>1, <1>5, <1>7, <2>1, HttpAssumption
       DEF JobStartShape, CallOK, NotesThePast, AtRest, Underway, Renewing, TypeOK
  <2>3. OneRenews'
    BY <1>1, <1>5, <2>1 DEF OneRenews, TypeOK
  <2>4. QED
    BY <1>2, <1>4, <1>6, <2>2, <2>3
<1>8. CASE c # JobStart
  <2>1. /\ noted'[c] = generation + 1
        /\ at'[c] = "permit" \/ (at'[c] = "sent" /\ used'[c] = generation + 1)
    BY <1>8 DEF Bootstrapped, ForPermit, Goes, TypeOK
  <2>2. /\ \A s \in refusedBy[c] : s <= generation + 1
        /\ generation + 1 \notin refusedBy[c]
    BY <1>1, HttpAssumption DEF CallOK, NotesThePast, TypeOK
  <2>3. CallOK(c)'
    BY <1>1, <1>5, <2>1, <2>2
       DEF CallOK, NotesThePast, AtRest, Underway, Renewing
  <2>4. JobStartShape' /\ OneRenews'
    BY <1>1, <1>5, <1>8, <2>1 DEF JobStartShape, OneRenews, Caller
  <2>5. QED
    BY <1>2, <1>4, <1>6, <2>3, <2>4
<1>9. QED
  BY <1>7, <1>8

-----------------------------------------------------------------------------
(* The request. *)

LEMMA AnsweredType ==
  ASSUME TypeOK, NEW r, Answered(r)
  PROVE  used' \in [Caller -> 0..MaxSessions]
<1>1. 0 \in 0..MaxSessions
  BY HttpAssumption
<1>2. QED
  BY <1>1 DEF Answered, TypeOK

\* A caller that ends its call after an answer gives its permit back.
LEMMA AnsweredEndsStep ==
  ASSUME IInv, NEW r \in Request, Answered(r), Ends(r), UNCHANGED generation,
         circuit' \in BOOLEAN, limit' \in MinLimit..MaxLimit,
         successes' \in 0..SuccessRun
  PROVE  IInv'
<1> USE DEF IInv
<1>1. r \in Caller
  BY DEF Caller
<1>2. PermitsCounted' /\ active' \in 0..MaxLimit
  BY <1>1, PermitGivenBack DEF Answered, Ends, Goes
<1>3. used' \in [Caller -> 0..MaxSessions]
  BY AnsweredType
<1>4. TypeOK'
  BY <1>1, <1>2, <1>3, EndsType DEF TypeOK
<1>5. OnlyMoves(r)
  BY DEF Answered, Ends, Goes, OnlyMoves, TypeOK
<1>6. QED
  BY <1>1, <1>2, <1>4, <1>5, EndsOK, OwnPartIsEnough

LEMMA LimiterType ==
  ASSUME TypeOK, CountSuccess \/ Throttle \/ UNCHANGED <<limit, successes>>
  PROVE  limit' \in MinLimit..MaxLimit /\ successes' \in 0..SuccessRun
<1>1. limit \in MinLimit..MaxLimit /\ successes \in 0..SuccessRun /\ 0 \in 0..SuccessRun
  BY HttpAssumption DEF TypeOK
<1>2. CASE CountSuccess
  BY <1>1, <1>2, HttpAssumption DEF CountSuccess, Raise
<1>3. CASE Throttle
  <2>1. limit \div 2 \in Int /\ limit \div 2 <= limit
    BY <1>1, HttpAssumption
  <2>2. QED
    BY <1>1, <1>3, <2>1, HttpAssumption DEF Throttle
<1>4. QED
  BY <1>1, <1>2, <1>3

LEMMA SentStep ==
  ASSUME IInv, NEW r \in Request, Send(r)
  PROVE  IInv'
<1> USE DEF IInv
<1>1. r \in Caller /\ r # JobStart /\ CallOK(r) /\ at[r] = "permit"
  BY HttpAssumption DEF Caller, Send
<1>2. PermitsCounted' /\ active' \in 0..MaxLimit
  BY <1>1, PermitTaken DEF Send, Goes
<1>3. TypeOK'
  BY <1>1, <1>2 DEF Send, Goes, NotesLate, TypeOK
<1>4. OnlyMoves(r)
  BY DEF Send, Goes, NotesLate, OnlyMoves, TypeOK
<1>5. /\ at'[r] = "sent" /\ used'[r] = generation /\ noted' = noted
      /\ generation' = generation /\ refusedBy' = refusedBy
      /\ ~outdated'[r] => ~outdated[r] /\ noted[r] = generation
  BY <1>1 DEF Send, Goes, NotesLate, TypeOK
<1>6. CallOK(r)'
  <2>1. NotesThePast(r)'
    BY <1>1, <1>5 DEF CallOK, NotesThePast
  <2>2. noted[r] <= generation /\ generation <= generation
    BY <1>1, HttpAssumption DEF CallOK, NotesThePast, TypeOK
  <2>3. QED
    BY <1>1, <1>5, <2>1, <2>2 DEF CallOK, AtRest, Underway, Renewing
<1>7. QED
  BY <1>1, <1>2, <1>3, <1>4, <1>5, <1>6, OwnPartIsEnough

LEMMA BackedOffStep ==
  ASSUME IInv, NEW r \in Request, BackedOff(r)
  PROVE  IInv'
<1> USE DEF IInv
<1>1. r \in Caller /\ r # JobStart /\ CallOK(r) /\ at[r] = "backoff"
  BY HttpAssumption DEF Caller, BackedOff
<1>2. PermitsCounted' /\ active' \in 0..MaxLimit
  BY <1>1, PermitAskedFor DEF BackedOff
<1>3. generation \in 0..MaxSessions
  BY DEF TypeOK
<1>4. /\ at' \in [Caller -> {"idle", "permit", "sent", "backoff", "lock", "bootstrap"}]
      /\ used' \in [Caller -> 0..MaxSessions]
  BY <1>1, <1>3, ForPermitType DEF BackedOff
<1>5. TypeOK'
  BY <1>1, <1>2, <1>4 DEF BackedOff, NotesLate, TypeOK
<1>6. OnlyMoves(r)
  BY DEF BackedOff, ForPermit, Goes, NotesLate, OnlyMoves, TypeOK
<1>7. /\ at'[r] = "permit" \/ (at'[r] = "sent" /\ used'[r] = generation)
      /\ noted' = noted /\ generation' = generation /\ refusedBy' = refusedBy
      /\ ~outdated'[r] => ~outdated[r] /\ noted[r] = generation
  BY <1>1 DEF BackedOff, ForPermit, Goes, NotesLate, TypeOK
<1>8. CallOK(r)'
  <2>1. NotesThePast(r)'
    BY <1>1, <1>7 DEF CallOK, NotesThePast
  <2>2. noted[r] <= generation /\ generation <= generation
    BY <1>1, HttpAssumption DEF CallOK, NotesThePast, TypeOK
  <2>3. QED
    BY <1>1, <1>7, <2>1, <2>2 DEF CallOK, AtRest, Underway, Renewing
<1>9. QED
  BY <1>1, <1>2, <1>5, <1>6, <1>7, <1>8, OwnPartIsEnough

LEMMA TransientStep ==
  ASSUME IInv, NEW r \in Request, Transient(r)
  PROVE  IInv'
<1> USE DEF IInv
<1>1. r \in Caller /\ r # JobStart /\ CallOK(r) /\ at[r] = "sent"
  BY HttpAssumption DEF Caller, Transient, Answered
<1>2. limit' \in MinLimit..MaxLimit /\ successes' \in 0..SuccessRun
  BY LimiterType DEF Transient
<1>3. CASE tries[r] >= MaxTries
  <2>1. Answered(r) /\ Ends(r) /\ UNCHANGED generation /\ circuit' \in BOOLEAN
    BY <1>3 DEF Transient, TypeOK
  <2>2. QED
    BY <1>2, <2>1, AnsweredEndsStep
<1>4. CASE ~(tries[r] >= MaxTries)
  <2>1. /\ Answered(r) /\ tries' = [tries EXCEPT ![r] = @ + 1] /\ Goes(r, "backoff")
        /\ UNCHANGED <<generation, circuit, noted, did, refusedBy, outdated>>
    BY <1>4 DEF Transient
  <2>2. PermitsCounted' /\ active' \in 0..MaxLimit
    BY <1>1, <2>1, PermitGivenBack DEF Answered, Goes
  <2>3. tries' \in [Caller -> 0..MaxTries]
    BY <1>1, <1>4, <2>1, HttpAssumption DEF TypeOK
  <2>4. TypeOK'
    BY <1>1, <1>2, <2>1, <2>2, <2>3, HttpAssumption DEF Answered, Goes, TypeOK
  <2>5. OnlyMoves(r) /\ at'[r] = "backoff"
    BY <1>1, <2>1 DEF Answered, Goes, OnlyMoves, TypeOK
  <2>6. CallOK(r)'
    BY <1>1, <2>1, <2>5 DEF CallOK, NotesThePast, AtRest, Underway, Renewing
  <2>7. QED
    BY <1>1, <2>2, <2>4, <2>5, <2>6, OwnPartIsEnough
<1>5. QED
  BY <1>3, <1>4

\* The session that refused the request is the one it was sent with, which is
\* the noted one unless a newer one was there already.
LEMMA RefusedStep ==
  ASSUME IInv, NEW r \in Request, NEW status \in Refusal, Refused(r, status)
  PROVE  IInv'
<1> USE DEF IInv
<1>1. r \in Caller /\ r # JobStart /\ CallOK(r) /\ at[r] = "sent" /\ Answered(r)
  BY HttpAssumption DEF Caller, Refused, Answered
<1>2. CASE status \in did[r]
  <2>1. Ends(r) /\ UNCHANGED <<generation, limit, successes>> /\ circuit' \in BOOLEAN
    BY <1>2 DEF Refused
  <2>2. limit' \in MinLimit..MaxLimit /\ successes' \in 0..SuccessRun
    BY <2>1 DEF TypeOK
  <2>3. QED
    BY <1>1, <2>1, <2>2, AnsweredEndsStep
<1>3. CASE status \notin did[r]
  <2>1. /\ did' = [did EXCEPT ![r] = @ \cup {status}] /\ Goes(r, "lock")
        /\ refusedBy' = [refusedBy EXCEPT ![r] = @ \cup {used[r]}]
        /\ UNCHANGED <<generation, limit, successes, circuit, noted, tries, outdated>>
    BY <1>3 DEF Refused
  <2>2. PermitsCounted' /\ active' \in 0..MaxLimit
    BY <1>1, <2>1, PermitGivenBack DEF Answered, Goes
  <2>3. did' \in [Caller -> SUBSET Refusal]
    BY <2>1 DEF TypeOK
  <2>4. TypeOK'
    BY <1>1, <2>1, <2>2, <2>3, HttpAssumption DEF Answered, Goes, TypeOK
  <2>5. OnlyMoves(r) /\ at'[r] = "lock" /\ refusedBy'[r] = refusedBy[r] \cup {used[r]}
    BY <1>1, <2>1 DEF Answered, Goes, OnlyMoves, TypeOK
  <2>6. /\ noted[r] <= used[r] /\ used[r] <= generation
        /\ ~outdated[r] => used[r] = noted[r]
        /\ noted[r] = generation => used[r] = generation
        /\ noted[r] # 0
    BY <1>1, HttpAssumption DEF CallOK, Underway, Renewing, TypeOK
  <2>7. NotesThePast(r)'
    BY <1>1, <2>1, <2>5, <2>6, HttpAssumption DEF CallOK, NotesThePast, TypeOK
  <2>8. CallOK(r)'
    BY <2>1, <2>5, <2>6, <2>7 DEF CallOK, AtRest, Underway, Renewing
  <2>9. QED
    BY <1>1, <2>2, <2>4, <2>5, <2>8, OwnPartIsEnough
<1>4. QED
  BY <1>2, <1>3

\* A cancelled call, or a renewal that failed: the permit, if there is one, and
\* the lock are free again.
LEMMA CancelledStep ==
  ASSUME IInv, NEW c \in Caller, Cancelled(c) \/ BootstrapFails(c)
  PROVE  IInv'
<1> USE DEF IInv
<1>1. Ends(c) /\ UNCHANGED <<generation, limit, successes>> /\ circuit' = circuit
  BY DEF Cancelled, BootstrapFails, limiter
<1>2. PermitsCounted' /\ active' \in 0..MaxLimit
  <2>1. at' = [at EXCEPT ![c] = "idle"]
    BY <1>1 DEF Ends, Goes
  <2>2. active' = IF at[c] = "sent" THEN active - 1 ELSE active
    BY DEF Cancelled, BootstrapFails, limiter
  <2>3. QED
    BY <2>1, <2>2, PermitGivenBack, PermitsUntouched
<1>3. used' \in [Caller -> 0..MaxSessions]
  <2>1. 0 \in 0..MaxSessions
    BY HttpAssumption
  <2>2. QED
    BY <2>1 DEF Cancelled, BootstrapFails, TypeOK
<1>4. TypeOK'
  BY <1>1, <1>2, <1>3, EndsType DEF TypeOK
<1>5. OnlyMoves(c)
  BY DEF Cancelled, BootstrapFails, Ends, Goes, OnlyMoves, TypeOK
<1>6. QED
  BY <1>1, <1>2, <1>4, <1>5, EndsOK, OwnPartIsEnough

LEMMA RequestStep ==
  ASSUME IInv, NEW r \in Request, Requests(r)
  PROVE  IInv'
<1>1. CASE Succeeds(r) \/ Fails(r)
  <2>1. /\ Answered(r) /\ Ends(r) /\ UNCHANGED <<generation, circuit>>
        /\ CountSuccess \/ UNCHANGED <<limit, successes>>
    BY <1>1 DEF Succeeds, Fails
  <2>2. limit' \in MinLimit..MaxLimit /\ successes' \in 0..SuccessRun
    BY <2>1, LimiterType DEF IInv
  <2>3. QED
    BY <2>1, <2>2, AnsweredEndsStep DEF IInv, TypeOK
<1>2. QED
  BY <1>1, SentStep, TransientStep, BackedOffStep, RefusedStep DEF Requests

LEMMA InitIInv == Init => IInv
<1> SUFFICES ASSUME Init PROVE IInv
  OBVIOUS
<1>1. TypeOK
  <2>1. /\ 0 \in 0..MaxSessions /\ 0 \in 0..MaxLimit /\ 0 \in 0..SuccessRun
        /\ 0 \in 0..MaxTries /\ {} \in SUBSET (0..MaxSessions)
    BY HttpAssumption
  <2>2. QED
    BY <2>1, HttpAssumption DEF Init, TypeOK
<1>2. PermitsCounted
  <2>1. Out = {}
    BY DEF Init, Out
  <2>2. QED
    BY <2>1, FS_EmptySet, HttpAssumption DEF Init, PermitsCounted
<1>3. \A c \in Caller : CallOK(c)
  BY DEF Init, CallOK, NotesThePast, AtRest, Underway, Renewing
<1>4. JobStartShape /\ OneRenews
  BY DEF Init, JobStartShape, OneRenews, Caller
<1>5. QED
  BY <1>1, <1>2, <1>3, <1>4 DEF IInv

LEMMA NextIInv == IInv /\ [Next]_vars => IInv'
<1> SUFFICES ASSUME IInv, [Next]_vars PROVE IInv'
  OBVIOUS
<1>1. CASE \E r \in Request : Enter(r) \/ Requests(r)
  BY <1>1, EnterStep, RequestStep
<1>2. CASE StartJob
  BY <1>2, StartJobStep
<1>3. CASE \E c \in Caller : Refreshes(c) \/ Cancelled(c)
  BY <1>3, LockedStep, BootstrappedStep, CancelledStep DEF Refreshes
<1>4. CASE CircuitRunsOut \/ UNCHANGED vars
  <2>1. /\ circuit' \in BOOLEAN
        /\ UNCHANGED <<generation, limit, active, successes, at, noted, did, tries,
                       used, refusedBy, outdated>>
    BY <1>4 DEF CircuitRunsOut, vars, limiter, call, history, IInv, TypeOK
  <2>2. TypeOK' /\ PermitsCounted' /\ JobStartShape' /\ OneRenews'
    BY <2>1 DEF IInv, TypeOK, PermitsCounted, Out, JobStartShape, OneRenews
  <2>3. \A c \in Caller : CallOK(c)'
    BY <2>1, OthersStay DEF IInv
  <2>4. QED
    BY <2>2, <2>3 DEF IInv
<1>5. QED
  BY <1>1, <1>2, <1>3, <1>4 DEF Next

-----------------------------------------------------------------------------
\* The inductive invariant holds for any number of concurrent requests, of
\* sessions and of retries, and any bounds of the limit.
THEOREM ClientInvariant == Spec => []IInv
  BY InitIInv, NextIInv, PTL DEF Spec

\* A request renews the session only when the current session has itself
\* refused it, or when it got in before there was a session and was never
\* refused: those refused by an older session leave the new one alone.
THEOREM SessionIsThrownAwayOnRefusalOrAtFirst == Spec => []NewSessionIsKept
<1>1. IInv => NewSessionIsKept
  <2> SUFFICES ASSUME IInv, NEW r \in Request, at[r] = "bootstrap"
               PROVE  generation \in refusedBy[r] \/ CameFirst(r)
    BY DEF NewSessionIsKept
  <2>1. CallOK(r)
    BY DEF IInv, Caller
  <2>2. CASE noted[r] = 0
    BY <2>1, <2>2 DEF CallOK, Renewing, CameFirst
  <2>3. CASE noted[r] # 0
    BY <2>1, <2>3 DEF CallOK, Renewing
  <2>4. QED
    BY <2>2, <2>3
<1>2. QED
  BY <1>1, ClientInvariant, PTL

\* A request that was always sent with the session it had noted is never sent
\* again with one that has refused it.
THEOREM RefusedIsRepeatedWithNewSession == Spec => []RepeatedWithNewSession
<1>1. IInv => RepeatedWithNewSession
  <2> SUFFICES ASSUME IInv, NEW r \in Request, at[r] = "sent", ~outdated[r]
               PROVE  used[r] \notin refusedBy[r]
    BY DEF RepeatedWithNewSession
  <2>1. CallOK(r)
    BY DEF IInv, Caller
  <2>2. QED
    BY <2>1 DEF CallOK, Underway
<1>2. QED
  BY <1>1, ClientInvariant, PTL

\* At most MaxLimit requests are out at once, and the count the limiter keeps
\* is their number, whatever fails or is cancelled and in whatever order.
THEOREM LimiterCountsWhatIsOut == Spec => []PermitsCounted
<1>1. IInv => PermitsCounted
  BY DEF IInv
<1>2. QED
  BY <1>1, ClientInvariant, PTL
=============================================================================
