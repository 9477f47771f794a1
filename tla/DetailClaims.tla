----------------------------- MODULE DetailClaims -----------------------------
(***************************************************************************)
(* Detail enrichment: MortgageEnrichmentRunner of                          *)
(* application/mortgage_enrichment_service.py.  A crawl job runs one batch *)
(* of it at its end (run_once), the scheduler sweeps over all unchecked    *)
(* listings (run_until_idle).  Runners reserve listings by a claim in the  *)
(* row, fetch the details without a transaction, and write them back       *)
(* fenced by the claim.                                                    *)
(*                                                                         *)
(* Every runner draws a new claim token, so a token is only ever compared  *)
(* with that of a runner at work: it is the runner's name while it works,  *)
(* and Gone in the rows that a runner left behind.  A batch keeps no       *)
(* record of which other runner took a row over.                           *)
(***************************************************************************)
EXTENDS Naturals, FiniteSetsExt

CONSTANTS
    Article,        \* article ids, in the order of the cursor
    AtJobEnd,       \* runners that crawl jobs start
    Sweeper,        \* runners of the scheduler
    Unclaimed,      \* detail_claim_token is NULL
    Gone,           \* the token of a runner that is no more
    BatchSize,      \* listings per batch (100 in the code)
    MaxBatches,     \* batches per sweep (50 in the code)
    Expiry,         \* ticks a claim lasts at least (15 minutes in the code)
    Changing        \* bound: listings that leave the site and come back

Runner == AtJobEnd \cup Sweeper

ASSUME DetailAssumption ==
    /\ Article \subseteq Nat \ {0}
    /\ AtJobEnd \cap Sweeper = {}
    /\ Unclaimed \notin Runner /\ Gone \notin Runner /\ Unclaimed # Gone
    /\ BatchSize \in Nat \ {0}
    /\ MaxBatches \in Nat \ {0}
    /\ Expiry \in Nat
    /\ Changing \subseteq Article

VARIABLES
    active,         \* listings whose lifecycle is ACTIVE
    stored,         \* how often details were stored; detail_checked_at if not 0
    token,          \* detail_claim_token
    age,            \* ticks since detail_claimed_at, at most Expiry + 1
    phase,          \* where each runner is in _run_batch
    batch,          \* its candidates
    ok, failed,     \* those whose details came, and those that failed
    cursor,         \* after_article_id; 0: None
    rounds,         \* batches the sweep has done
    held,           \* history: ticks since the runner claimed its batch
    last            \* history: how the runner's last run ended, "done" in a run

rows == <<stored, token, age>>
run == <<phase, batch, ok, failed, cursor, rounds>>
vars == <<active, rows, run, held, last>>

RowTypes ==
    /\ active \subseteq Article
    /\ stored \in [Article -> Nat]
    /\ token \in [Article -> Runner \cup {Unclaimed, Gone}]
    /\ age \in [Article -> 0..Expiry + 1]

RunTypes ==
    /\ phase \in [Runner -> {"idle", "claim", "fetch", "write"}]
    /\ batch \in [Runner -> SUBSET Article]
    /\ ok \in [Runner -> SUBSET Article]
    /\ failed \in [Runner -> SUBSET Article]
    /\ rounds \in [Runner -> 0..MaxBatches - 1]
    /\ held \in [Runner -> 0..Expiry + 1]
    /\ last \in [Runner -> {"done", "refused", "died"}]

TypeOK ==
    /\ RowTypes
    /\ RunTypes
    /\ cursor \in [Runner -> Article \cup {0}]

Init ==
    /\ active = Article
    /\ stored = [a \in Article |-> 0]
    /\ token = [a \in Article |-> Unclaimed]
    /\ age = [a \in Article |-> 0]
    /\ phase = [r \in Runner |-> "idle"]
    /\ batch = [r \in Runner |-> {}]
    /\ ok = [r \in Runner |-> {}]
    /\ failed = [r \in Runner |-> {}]
    /\ cursor = [r \in Runner |-> 0]
    /\ rounds = [r \in Runner |-> 0]
    /\ held = [r \in Runner |-> 0]
    /\ last = [r \in Runner |-> "done"]

-----------------------------------------------------------------------------
(* Rows a runner may claim, and rows that another transaction has locked.  *)

Unchecked(a) == stored[a] = 0
AvailableIgnoresClaim(a) == a \in active /\ Unchecked(a)
Available(a) == a \in active /\ Unchecked(a) /\ (token[a] = Unclaimed \/ age[a] > Expiry)

Locked(r) == UNION {batch[q] : q \in {p \in Runner \ {r} : phase[p] = "write"}}

(* The n lowest ids of S: ORDER BY article_id LIMIT n. *)
Lowest(S, n) == {a \in S : Cardinality({b \in S : b < a}) < n}

(* The claims without those on the rows S; what r leaves behind if it ends. *)
Released(r, S) == [a \in Article |-> IF a \in S /\ token[a] = r THEN Unclaimed ELSE token[a]]
LeftBehind(tok, r) == [a \in Article |-> IF tok[a] = r THEN Gone ELSE tok[a]]

(* The claim columns take the tokens tok; detail_claimed_at goes with them. *)
SetTokens(tok) ==
    /\ token' = tok
    /\ age' = [a \in Article |-> IF tok[a] = Unclaimed THEN 0 ELSE age[a]]

EndRun(r, how) ==
    /\ phase' = [phase EXCEPT ![r] = "idle"]
    /\ batch' = [batch EXCEPT ![r] = {}]
    /\ ok' = [ok EXCEPT ![r] = {}]
    /\ failed' = [failed EXCEPT ![r] = {}]
    /\ cursor' = [cursor EXCEPT ![r] = 0]
    /\ rounds' = [rounds EXCEPT ![r] = 0]
    /\ held' = [held EXCEPT ![r] = 0]
    /\ last' = [last EXCEPT ![r] = how]

-----------------------------------------------------------------------------
(* A run. *)

Begin(r) ==
    /\ phase[r] = "idle"
    /\ phase' = [phase EXCEPT ![r] = "claim"]
    /\ last' = [last EXCEPT ![r] = "done"]
    /\ UNCHANGED <<active, rows, batch, ok, failed, cursor, rounds, held>>

CandidatesFromStart(r, ours, skipped) ==
    LET free == {a \in Article \ skipped : Available(a)}
        first == Lowest(free \cap ours, BatchSize)
    IN  first \cup Lowest(free \ ours, BatchSize - Cardinality(first))

(* What the job of r may have seen last; a sweep does not ask. *)
Seen(r) == IF r \in AtJobEnd THEN SUBSET Article ELSE {{}}

(* The rows _claim_batch takes: at the end of a job first those it saw     *)
(* itself (ours), then the others; in a sweep those after the cursor.      *)
(* FOR UPDATE SKIP LOCKED passes over rows another runner is writing, if   *)
(* it has reached them.                                                    *)
Candidates(r, ours, skipped) ==
    LET free == {a \in Article \ skipped : Available(a) /\ a > cursor[r]}
        first == Lowest(free \cap ours, BatchSize)
    IN  first \cup Lowest(free \ ours, BatchSize - Cardinality(first))

Claim(r) ==
    /\ phase[r] = "claim"
    /\ \E ours \in Seen(r), skipped \in SUBSET Locked(r) :
        LET mine == Candidates(r, ours, skipped) IN
        /\ mine # {}
        /\ token' = [a \in Article |-> IF a \in mine THEN r ELSE token[a]]
        /\ age' = [a \in Article |-> IF a \in mine THEN 0 ELSE age[a]]
        /\ batch' = [batch EXCEPT ![r] = mine]
    /\ phase' = [phase EXCEPT ![r] = "fetch"]
    /\ held' = [held EXCEPT ![r] = 0]
    /\ UNCHANGED <<active, stored, ok, failed, cursor, rounds, last>>

(* Nothing to claim: an empty batch, which ends a sweep too. *)
ClaimsNothing(r) ==
    /\ phase[r] = "claim"
    /\ \E ours \in Seen(r), skipped \in SUBSET Locked(r) :
        Candidates(r, ours, skipped) = {}
    /\ SetTokens(LeftBehind(token, r))
    /\ EndRun(r, "done")
    /\ UNCHANGED <<active, stored>>

Waiting(r) == batch[r] \ (ok[r] \cup failed[r])

(* Requests come back in any order; one that fails for itself is noted. *)
Fetched(r, a) ==
    /\ phase[r] = "fetch" /\ a \in Waiting(r)
    /\ \/ ok' = [ok EXCEPT ![r] = @ \cup {a}] /\ UNCHANGED failed
       \/ failed' = [failed EXCEPT ![r] = @ \cup {a}] /\ UNCHANGED ok
    /\ UNCHANGED <<active, rows, phase, batch, cursor, rounds, held, last>>

RefusedReleasesWaiting(r) ==
    /\ phase[r] = "fetch" /\ Waiting(r) # {}
    /\ SetTokens(LeftBehind(Released(r, Waiting(r)), r))
    /\ EndRun(r, "refused")
    /\ UNCHANGED <<active, stored>>

(* AuthenticationError or RetryWaitError: the whole batch is released and  *)
(* the error ends the run.                                                 *)
Refused(r) ==
    /\ phase[r] = "fetch" /\ Waiting(r) # {}
    /\ SetTokens(LeftBehind(Released(r, batch[r]), r))
    /\ EndRun(r, "refused")
    /\ UNCHANGED <<active, stored>>

(* db.get in the transaction that writes: the rows as of its snapshot.     *)
(* Those already checked or claimed by another are passed over.            *)
ReadBack(r) ==
    /\ phase[r] = "fetch" /\ Waiting(r) = {}
    /\ ok' = [ok EXCEPT ![r] = {a \in @ : Unchecked(a) /\ token[a] = r}]
    /\ phase' = [phase EXCEPT ![r] = "write"]
    /\ UNCHANGED <<active, rows, batch, failed, cursor, rounds, held, last>>

FencedBySnapshot(r) == ok[r]

(* The UPDATEs of the transaction and its commit.  Their WHERE looks at    *)
(* the claim again, in the row as it now is.                               *)
Fenced(r) == {a \in ok[r] : token[a] = r}

(* for _ in range(max_batches) goes on; a job does one batch. *)
MoreBatches(r) == r \in Sweeper /\ rounds[r] + 1 < MaxBatches

WriteBack(r) ==
    /\ phase[r] = "write"
    /\ stored' = [a \in Article |-> IF a \in Fenced(r) THEN stored[a] + 1 ELSE stored[a]]
    /\ IF MoreBatches(r)
       THEN /\ SetTokens(Released(r, Fenced(r) \cup failed[r]))
            /\ phase' = [phase EXCEPT ![r] = "claim"]
            /\ cursor' = [cursor EXCEPT ![r] = Max(batch[r])]
            /\ rounds' = [rounds EXCEPT ![r] = @ + 1]
            /\ batch' = [batch EXCEPT ![r] = {}]
            /\ ok' = [ok EXCEPT ![r] = {}]
            /\ failed' = [failed EXCEPT ![r] = {}]
            /\ held' = [held EXCEPT ![r] = 0]
            /\ UNCHANGED last
       ELSE /\ SetTokens(LeftBehind(Released(r, Fenced(r) \cup failed[r]), r))
            /\ EndRun(r, "done")
    /\ UNCHANGED active

(* The process ends, the run is cancelled, or the database refuses a       *)
(* transaction: nothing is released.                                       *)
Dies(r) ==
    /\ phase[r] # "idle"
    /\ SetTokens(LeftBehind(token, r))
    /\ EndRun(r, "died")
    /\ UNCHANGED <<active, stored>>

-----------------------------------------------------------------------------
(* Surroundings: time, and crawls that see a listing or miss it. *)

Older(n) == IF n > Expiry THEN n ELSE n + 1

Tick ==
    /\ age' = [a \in Article |-> IF token[a] = Unclaimed THEN age[a] ELSE Older(age[a])]
    /\ held' = [r \in Runner |-> IF batch[r] = {} THEN held[r] ELSE Older(held[r])]
    /\ UNCHANGED <<active, stored, token, run, last>>

Crawled(a) ==
    /\ active' = IF a \in active THEN active \ {a} ELSE active \cup {a}
    /\ UNCHANGED <<rows, run, held, last>>

Next ==
    \/ \E r \in Runner :
        \/ Begin(r) \/ Claim(r) \/ ClaimsNothing(r) \/ Refused(r)
        \/ ReadBack(r) \/ WriteBack(r) \/ Dies(r)
        \/ \E a \in Article : Fetched(r, a)
    \/ Tick
    \/ \E a \in Changing : Crawled(a)

Spec == Init /\ [][Next]_vars

(* The scheduler calls the sweep again and again and time passes.  What    *)
(* crawls do is left to them.                                              *)
Works(r) ==
    \/ Begin(r) \/ Claim(r) \/ ClaimsNothing(r) \/ Refused(r)
    \/ ReadBack(r) \/ WriteBack(r)
    \/ \E a \in Article : Fetched(r, a)

FairSpec ==
    /\ Spec
    /\ WF_vars(Tick)
    /\ \A r \in Sweeper : WF_vars(Works(r))

-----------------------------------------------------------------------------
(* Properties. *)

\* The details of a listing are stored once, and a listing with details is
\* no longer claimed: neither the claims nor the two fences of the write let
\* a second runner through, although claims run out while answers are awaited.
CheckedOnce ==
    \A a \in Article : stored[a] <= 1 /\ (stored[a] = 1 => token[a] = Unclaimed)

\* As long as its claim has not run out, a runner alone has the listings of its
\* batch: nobody else claims one, and nobody stores details for it.
ClaimHolds ==
    \A r \in Runner : \A a \in batch[r] :
        held[r] <= Expiry => token[a] = r /\ Unchecked(a)

\* A run that ends by itself or by a refusal of the site leaves no listing
\* claimed; only the death of a runner does.
OnlyDeathLeavesClaims ==
    [][\A a \in Article :
        token[a] \in Runner /\ token'[a] = Gone => last'[token[a]] = "died"]_vars

\* No listing is starved: one that stays active and unchecked is taken into a
\* batch again and again, whatever fails before it and whoever died with it,
\* unless the sweeps keep being cut short.
UncheckedIsTriedAgain ==
    \A a \in Article :
        []<>(\/ a \notin active
             \/ ~Unchecked(a)
             \/ \E r \in Runner : a \in batch[r]
             \/ \E r \in Sweeper : last[r] \in {"refused", "died"})
=============================================================================
