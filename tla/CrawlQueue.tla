----------------------------- MODULE CrawlQueue -----------------------------
(***************************************************************************)
(* The crawl_job table used as a leased work queue                         *)
(* (application/crawl_job_service.py), the processes that drain it         *)
(* (worker/runner.py) and the ones that fill it (the daily cron job of     *)
(* scheduler/schedules.py, the admin buttons of web/routes/crawl_jobs.py   *)
(* and cli/crawl.py).                                                      *)
(*                                                                         *)
(* Time is counted in ticks.  A timestamp column is kept as its distance   *)
(* from now: lease[j] is what is left of lease_expires_at (0: it has       *)
(* passed), due[j] is available_at - now, which goes negative while the    *)
(* job waits and is what ORDER BY available_at compares.  uuid4 lease      *)
(* tokens are the number of the claim that issued them.                    *)
(*                                                                         *)
(* An UPDATE of the code commits on its own, so one statement (with the    *)
(* SELECT that feeds it, when it locks the rows it read) is one action.    *)
(* Where the code reads without a lock and writes later, the read and the  *)
(* write are two actions and any other process may act in between.         *)
(***************************************************************************)
EXTENDS Integers, FiniteSets

CONSTANTS
    Worker,         \* worker processes (WorkerRunner instances)
    Enqueuer,       \* threads and processes that may call enqueue_metro_batch
    MaxJobs,        \* bound: rows ever inserted into crawl_job
    BatchSize,      \* jobs in a metro batch (one per sigungu)
    MaxAttempts,    \* crawl_job.max_attempts (3 in the code)
    Lease,          \* LEASE_SECONDS, in ticks
    Beat,           \* HEARTBEAT_SECONDS, in ticks
    MaxBackoff,     \* the 300 s cap of the retry delay, in ticks
    Horizon,        \* bound: how long a wait is still told from a longer one
    MaxStops        \* bound: how often a worker process ends (crash or exit)

ASSUME QueueAssumption ==
    /\ IsFiniteSet(Enqueuer)
    /\ MaxJobs \in Nat
    /\ BatchSize \in Nat \ {0}
    /\ MaxAttempts \in Nat \ {0}
    /\ Lease \in Nat
    /\ Beat \in Nat
    /\ Beat < Lease
    /\ MaxBackoff \in Nat \ {0}
    /\ Horizon \in Nat
    /\ MaxStops \in Nat

Job == 1..MaxJobs

(* min(300, 5 * 2 ** max(0, attempt - 1)), the smallest delay being a tick *)
Backoff(a) ==
    LET delay == IF a = 0 THEN 1 ELSE 2^(a - 1)
    IN  IF delay <= MaxBackoff THEN delay ELSE MaxBackoff

ASSUME BackoffAssumption ==
    \A a \in 0..MaxAttempts : Backoff(a) \in 1..MaxBackoff

VARIABLES
    lastId,         \* the AUTO_INCREMENT of crawl_job
    status, attempt, token, lease, due, batch,      \* columns, by job
    phase,          \* where each worker is in WorkerRunner.run
    wjob, wtoken,   \* the job and lease token a worker executes with
    hb,             \* its heartbeat task: "on", ended ("off") or "raised"
    age,            \* while hb is "on": ticks since the last beat, up to Beat
    locked,         \* rows its open transaction has changed and not committed
    stops,          \* worker processes ended so far
    passed,         \* enqueuers that found no active batch and will insert
    faults          \* history: what has gone wrong so far, of Fault below

vars == <<lastId, status, attempt, token, lease, due, batch,
          phase, wjob, wtoken, hb, age, locked, stops, passed, faults>>

\* "late": an execution went past the time of its heartbeat, or the heartbeat
\* task died.  "misread": a progress read failed while a batch was active.
Fault == {"late", "misread"}

\* JOB_CANCELLED is declared by the code and assigned nowhere.
Status == {"absent", "queued", "running", "success", "retry_wait", "failed"}
Pending == {"queued", "retry_wait"}
Phase == {"idle", "polling", "running", "succeeding", "retrying", "down"}

TypeOK ==
    /\ lastId \in 0..MaxJobs
    /\ status \in [Job -> Status]
    /\ attempt \in [Job -> 0..MaxAttempts]
    /\ token \in [Job -> 0..MaxAttempts]
    /\ lease \in [Job -> 0..Lease]
    /\ due \in [Job -> (0 - Horizon)..MaxBackoff]
    /\ batch \in [Job -> 0..MaxJobs]
    /\ phase \in [Worker -> Phase]
    /\ wjob \in [Worker -> 0..MaxJobs]
    /\ wtoken \in [Worker -> 0..MaxAttempts]
    /\ hb \in [Worker -> {"on", "off", "raised"}]
    /\ age \in [Worker -> 0..Beat]
    /\ locked \in [Worker -> SUBSET Job]
    /\ stops \in 0..MaxStops
    /\ passed \in SUBSET Enqueuer
    /\ faults \in SUBSET Fault

Init ==
    /\ lastId = 0
    /\ status = [j \in Job |-> "absent"]
    /\ attempt = [j \in Job |-> 0]
    /\ token = [j \in Job |-> 0]
    /\ lease = [j \in Job |-> 0]
    /\ due = [j \in Job |-> 0]
    /\ batch = [j \in Job |-> 0]
    /\ phase = [w \in Worker |-> "idle"]
    /\ wjob = [w \in Worker |-> 0]
    /\ wtoken = [w \in Worker |-> 0]
    /\ hb = [w \in Worker |-> "off"]
    /\ age = [w \in Worker |-> 0]
    /\ locked = [w \in Worker |-> {}]
    /\ stops = 0
    /\ passed = {}
    /\ faults = {}

-----------------------------------------------------------------------------
(* Filling the queue *)

(* The rows get the next ids, are QUEUED and available at once. *)
Insert(n, b) ==
    LET new == lastId + 1 .. lastId + n
    IN  /\ lastId + n <= MaxJobs
        /\ lastId' = lastId + n
        /\ status' = [j \in Job |-> IF j \in new THEN "queued" ELSE status[j]]
        /\ batch' = [j \in Job |-> IF j \in new THEN b ELSE batch[j]]
        /\ UNCHANGED <<attempt, token, lease, due>>

(* create_job: every caller builds a fresh dedupe_key from the clock; with  *)
(* a key that exists the call changes nothing.                              *)
CreateJob ==
    /\ Insert(1, 0)
    /\ UNCHANGED <<phase, wjob, wtoken, hb, age, locked, stops, passed, faults>>

(* Batches are numbered by created_at; 0 is "no batch" (a single job). *)
IsLatest(b) ==
    /\ b # 0
    /\ \E j \in Job : batch[j] = b
    /\ \A j \in Job : batch[j] <= b

\* Slip: a batch whose jobs only wait for a retry counts as finished.
BatchActiveForgetsRetry(b) ==
    \E j \in Job : batch[j] = b /\ status[j] \in {"queued", "running"}

BatchActive(b) ==
    \E j \in Job : batch[j] = b /\ status[j] \in Pending \cup {"running"}

LatestBatchActive == \E b \in 1..MaxJobs : IsLatest(b) /\ BatchActive(b)

(* enqueue_metro_batch, first half: the progress read.  An active batch     *)
(* ends the call, but an exception inside the read is reported as "no       *)
(* batch" (EnqueueMisread).  Both callers have already read in the same     *)
(* transaction, so the READ UNCOMMITTED they ask for is refused and what    *)
(* they see is committed.                                                   *)
EnqueueCheck(e) ==
    /\ e \notin passed
    /\ lastId + BatchSize <= MaxJobs
    /\ ~LatestBatchActive
    /\ passed' = passed \cup {e}
    /\ UNCHANGED <<lastId, status, attempt, token, lease, due, batch,
                   phase, wjob, wtoken, hb, age, locked, stops, faults>>

EnqueueMisread(e) ==
    /\ e \notin passed
    /\ lastId + BatchSize <= MaxJobs
    /\ LatestBatchActive
    /\ passed' = passed \cup {e}
    /\ faults' = faults \cup {"misread"}
    /\ UNCHANGED <<lastId, status, attempt, token, lease, due, batch,
                   phase, wjob, wtoken, hb, age, locked, stops>>

(* enqueue_metro_batch, second half: nothing re-reads or locks. *)
InsertBatch(e) ==
    /\ e \in passed
    /\ passed' = passed \ {e}
    /\ \E b \in 1..MaxJobs :
          /\ \A j \in Job : batch[j] < b
          /\ b = 1 \/ \E j \in Job : batch[j] = b - 1
          /\ Insert(BatchSize, b)
    /\ UNCHANGED <<phase, wjob, wtoken, hb, age, locked, stops, faults>>

-----------------------------------------------------------------------------
(* claim_next_job *)

(* SKIP LOCKED: rows another open transaction has changed are not seen. *)
LockedFrom(w) == UNION {locked[v] : v \in Worker \ {w}}

\* Slip: the reaper takes every RUNNING row, whatever is left of its lease.
ExpiredIgnoresLease(w) == {j \in Job \ LockedFrom(w) : status[j] = "running"}

\* Slip: the reaper looks at the lease only, not at the status.
ExpiredIgnoresStatus(w) ==
    {j \in Job \ LockedFrom(w) : status[j] # "absent" /\ lease[j] = 0}

\* Slip: nobody calls the reaper.
ExpiredNever(w) == {}

Expired(w) ==
    {j \in Job \ LockedFrom(w) : status[j] = "running" /\ lease[j] = 0}

(* _reap_expired_leases *)
ReapedStatus(w) ==
    [j \in Job |-> IF j \notin Expired(w) THEN status[j]
                   ELSE IF attempt[j] >= MaxAttempts THEN "failed"
                   ELSE "retry_wait"]
ReapedDue(w) == [j \in Job |-> IF j \in Expired(w) THEN 0 ELSE due[j]]

Claimable(w) ==
    {j \in Job \ LockedFrom(w) :
        /\ ReapedStatus(w)[j] \in Pending
        /\ ReapedDue(w)[j] <= 0
        /\ attempt[j] < MaxAttempts}

(* ORDER BY available_at, priority, job_id; every caller passes priority 50 *)
Before(w, i, j) ==
    \/ ReapedDue(w)[i] < ReapedDue(w)[j]
    \/ ReapedDue(w)[i] = ReapedDue(w)[j] /\ i <= j

(* A job is found: the reaped rows and the claim commit together. *)
Claim(w, j) ==
    /\ phase[w] = "idle"
    /\ j \in Claimable(w)
    /\ \A i \in Claimable(w) : Before(w, j, i)
    /\ status' = [ReapedStatus(w) EXCEPT ![j] = "running"]
    /\ attempt' = [attempt EXCEPT ![j] = @ + 1]
    /\ token' = [i \in Job |-> IF i = j THEN attempt[j] + 1
                               ELSE IF i \in Expired(w) THEN 0 ELSE token[i]]
    /\ lease' = [lease EXCEPT ![j] = Lease]
    /\ due' = [ReapedDue(w) EXCEPT ![j] = 0]
    /\ phase' = [phase EXCEPT ![w] = "running"]
    /\ wjob' = [wjob EXCEPT ![w] = j]
    /\ wtoken' = [wtoken EXCEPT ![w] = attempt[j] + 1]
    /\ hb' = [hb EXCEPT ![w] = "on"]
    /\ age' = [age EXCEPT ![w] = 0]
    /\ UNCHANGED <<lastId, batch, locked, stops, passed, faults>>

(* No job is found: the call returns before commit.  What the reaping        *)
(* flushed stays uncommitted, its rows locked, while run() sleeps.           *)
ClaimNothing(w) ==
    /\ phase[w] = "idle"
    /\ Claimable(w) = {}
    /\ phase' = [phase EXCEPT ![w] = "polling"]
    /\ locked' = [locked EXCEPT ![w] = Expired(w)]
    /\ UNCHANGED <<lastId, status, attempt, token, lease, due, batch,
                   wjob, wtoken, hb, age, stops, passed, faults>>

(* The sleep ends and the session closes: the flushed reaping rolls back. *)
Wake(w) ==
    /\ phase[w] = "polling"
    /\ phase' = [phase EXCEPT ![w] = "idle"]
    /\ locked' = [locked EXCEPT ![w] = {}]
    /\ UNCHANGED <<lastId, status, attempt, token, lease, due, batch,
                   wjob, wtoken, hb, age, stops, passed, faults>>

-----------------------------------------------------------------------------
(* Executing a claimed job *)

Executing(w) == phase[w] \in {"running", "succeeding", "retrying"}

(* The WHERE of heartbeat() and _leased_job() *)
HoldsLease(w) ==
    LET j == wjob[w]
    IN  status[j] = "running" /\ token[j] = wtoken[w] /\ lease[j] > 0

(* An UPDATE waits for the row locks of a polling worker. *)
RowFree(w) == wjob[w] \notin LockedFrom(w)

\* Slip: the beat leaves the lease as it is.
HeartbeatWithoutRenewal(w) ==
    /\ phase[w] = "running"
    /\ hb[w] = "on"
    /\ age[w] = Beat
    /\ RowFree(w)
    /\ age' = [age EXCEPT ![w] = 0]
    /\ hb' = [hb EXCEPT ![w] = IF HoldsLease(w) THEN "on" ELSE "off"]
    /\ UNCHANGED <<lastId, status, attempt, token, lease, due, batch,
                   phase, wjob, wtoken, locked, stops, passed, faults>>

(* Every HEARTBEAT_SECONDS the task renews the lease; when the row is not   *)
(* its own any more the task ends, and the job goes on without it.          *)
Heartbeat(w) ==
    /\ phase[w] = "running"
    /\ hb[w] = "on"
    /\ age[w] = Beat
    /\ RowFree(w)
    /\ IF HoldsLease(w)
       THEN /\ lease' = [lease EXCEPT ![wjob[w]] = Lease]
            /\ age' = [age EXCEPT ![w] = 0]
            /\ UNCHANGED hb
       ELSE /\ hb' = [hb EXCEPT ![w] = "off"]
            /\ age' = [age EXCEPT ![w] = 0]
            /\ UNCHANGED lease
    /\ UNCHANGED <<lastId, status, attempt, token, due, batch,
                   phase, wjob, wtoken, locked, stops, passed, faults>>

(* A database error ends the task; nobody looks at it before the job ends. *)
HeartbeatRaises(w) ==
    /\ phase[w] = "running"
    /\ hb[w] = "on"
    /\ age[w] = Beat
    /\ hb' = [hb EXCEPT ![w] = "raised"]
    /\ age' = [age EXCEPT ![w] = 0]
    /\ faults' = faults \cup {"late"}
    /\ UNCHANGED <<lastId, status, attempt, token, lease, due, batch,
                   phase, wjob, wtoken, locked, stops, passed>>

(* The loop goes on, unless awaiting the heartbeat re-raises its error. *)
Released(w) ==
    /\ phase' = [phase EXCEPT ![w] = IF hb[w] = "raised" THEN "down" ELSE "idle"]
    /\ wjob' = [wjob EXCEPT ![w] = 0]
    /\ wtoken' = [wtoken EXCEPT ![w] = 0]
    /\ hb' = [hb EXCEPT ![w] = "off"]
    /\ age' = [age EXCEPT ![w] = 0]

(* handle_job returned (p = "succeeding") or raised (p = "retrying"), and   *)
(* _leased_job reads the row, without locking it.                           *)
JobEnds(w, p) ==
    /\ phase[w] = "running"
    /\ IF HoldsLease(w)
       THEN /\ phase' = [phase EXCEPT ![w] = p]
            /\ UNCHANGED <<wjob, wtoken, hb, age>>
       ELSE Released(w)
    /\ UNCHANGED <<lastId, status, attempt, token, lease, due, batch,
                   locked, stops, passed, faults>>

\* Slip: the token stays in the row.
WriteOutcomeKeepsToken(w, s, d) ==
    /\ RowFree(w)
    /\ status' = [status EXCEPT ![wjob[w]] = s]
    /\ lease' = [lease EXCEPT ![wjob[w]] = 0]
    /\ due' = [due EXCEPT ![wjob[w]] = d]
    /\ Released(w)
    /\ UNCHANGED <<lastId, attempt, token, batch, locked, stops, passed, faults>>

(* The UPDATE that follows names the row by its primary key only. *)
WriteOutcome(w, s, d) ==
    /\ RowFree(w)
    /\ status' = [status EXCEPT ![wjob[w]] = s]
    /\ token' = [token EXCEPT ![wjob[w]] = 0]
    /\ lease' = [lease EXCEPT ![wjob[w]] = 0]
    /\ due' = [due EXCEPT ![wjob[w]] = d]
    /\ Released(w)
    /\ UNCHANGED <<lastId, attempt, batch, locked, stops, passed, faults>>

(* _finish, called by mark_success *)
WriteSuccess(w) ==
    /\ phase[w] = "succeeding"
    /\ WriteOutcome(w, "success", 0)

\* Slip: one retry more than there are attempts.
WriteRetryOnceMore(w) ==
    /\ phase[w] = "retrying"
    /\ IF wtoken[w] > MaxAttempts
       THEN WriteOutcome(w, "failed", 0)
       ELSE WriteOutcome(w, "retry_wait", Backoff(wtoken[w]))

(* mark_retry: the attempt compared is the one loaded with the claim *)
WriteRetry(w) ==
    /\ phase[w] = "retrying"
    /\ IF wtoken[w] >= MaxAttempts
       THEN WriteOutcome(w, "failed", 0)
       ELSE WriteOutcome(w, "retry_wait", Backoff(wtoken[w]))

-----------------------------------------------------------------------------
(* Processes and time *)

(* A crash or a kill at any point; at the head of the loop, also stop(). *)
Stop(w) ==
    /\ phase[w] # "down"
    /\ stops < MaxStops
    /\ stops' = stops + 1
    /\ phase' = [phase EXCEPT ![w] = "down"]
    /\ wjob' = [wjob EXCEPT ![w] = 0]
    /\ wtoken' = [wtoken EXCEPT ![w] = 0]
    /\ hb' = [hb EXCEPT ![w] = "off"]
    /\ age' = [age EXCEPT ![w] = 0]
    /\ locked' = [locked EXCEPT ![w] = {}]
    /\ UNCHANGED <<lastId, status, attempt, token, lease, due, batch, passed, faults>>

(* The operator starts the process again (start_worker). *)
Restart(w) ==
    /\ phase[w] = "down"
    /\ phase' = [phase EXCEPT ![w] = "idle"]
    /\ UNCHANGED <<lastId, status, attempt, token, lease, due, batch,
                   wjob, wtoken, hb, age, locked, stops, passed, faults>>

(* Time passes, for an execution past the time of its heartbeat too: the    *)
(* job's synchronous calls hold the event loop the heartbeat runs on.       *)
Tick ==
    /\ faults' = IF \E w \in Worker : hb[w] = "on" /\ age[w] = Beat
                 THEN faults \cup {"late"} ELSE faults
    /\ lease' = [j \in Job |-> IF lease[j] > 0 THEN lease[j] - 1 ELSE 0]
    /\ due' = [j \in Job |-> IF status[j] \in Pending /\ due[j] > 0 - Horizon
                             THEN due[j] - 1 ELSE due[j]]
    /\ age' = [w \in Worker |-> IF hb[w] = "on" /\ age[w] < Beat
                                THEN age[w] + 1 ELSE age[w]]
    /\ UNCHANGED <<lastId, status, attempt, token, batch,
                   phase, wjob, wtoken, hb, locked, stops, passed>>

WorkerStep(w) ==
    \/ \E j \in Job : Claim(w, j)
    \/ ClaimNothing(w)
    \/ Wake(w)
    \/ Heartbeat(w)
    \/ HeartbeatRaises(w)
    \/ \E p \in {"succeeding", "retrying"} : JobEnds(w, p)
    \/ WriteSuccess(w)
    \/ WriteRetry(w)
    \/ Stop(w)
    \/ Restart(w)

Next ==
    \/ CreateJob
    \/ \E e \in Enqueuer : \/ EnqueueCheck(e)
                            \/ EnqueueMisread(e)
                            \/ InsertBatch(e)
    \/ \E w \in Worker : WorkerStep(w)
    \/ Tick

Spec == Init /\ [][Next]_vars

(***************************************************************************)
(* The event loop and the operating system keep a worker going: its loop,  *)
(* its sleep, its heartbeat task and its UPDATEs are not held up for ever. *)
(* A job that is executed ends at last (the HTTP client has timeouts; the  *)
(* modules of the pipeline look at where that fails).  Somebody starts a   *)
(* worker again after it has ended.  Nothing forces anyone to post a job.  *)
(***************************************************************************)
WorkerFairness(w) ==
    /\ WF_vars(\E j \in Job : Claim(w, j))
    /\ WF_vars(ClaimNothing(w))
    /\ WF_vars(Wake(w))
    /\ WF_vars(Heartbeat(w))
    /\ WF_vars(\E p \in {"succeeding", "retrying"} : JobEnds(w, p))
    /\ WF_vars(WriteSuccess(w) \/ WriteRetry(w))
    /\ WF_vars(Restart(w))

FairSpec == Spec /\ WF_vars(Tick) /\ \A w \in Worker : WorkerFairness(w)

-----------------------------------------------------------------------------
(* Properties *)

\* A row is RUNNING exactly when it carries a lease token, the one of its
\* last claim: a RUNNING row without a lease would be seen neither by the
\* reaper nor by a claim, and a pending row with one could still be finished
\* by the worker that lost it.
LeaseRow ==
    \A j \in Job :
        /\ status[j] = "running" <=> token[j] # 0
        /\ token[j] \in {0, attempt[j]}

\* As long as no heartbeat is missed, whoever executes a job owns its lease:
\* the heartbeat interval and the lease length fit together, and neither the
\* reaper nor a claim nor a finish touches a row in use.
OwnLease(w) == Executing(w) => HoldsLease(w)
ExecutesUnderLease == "late" \notin faults => \A w \in Worker : OwnLease(w)

\* As long as no heartbeat is missed, no two workers execute the same job.
OneExecutor ==
    "late" \notin faults =>
        \A v, w \in Worker :
            Executing(v) /\ Executing(w) /\ wjob[v] = wjob[w] => v = w

\* The same without the proviso: "claiming is guaranteed by the database
\* transaction" (CrawlJobService), so a job is never executed twice at once.
ClaimIsExclusive ==
    \A v, w \in Worker :
        Executing(v) /\ Executing(w) /\ wjob[v] = wjob[w] => v = w

\* A job that succeeded or failed is never touched again, unless a worker
\* that had overrun its heartbeat writes its late answer.
Ended == {"success", "failed"}
EndIsFinal ==
    [][\A j \in Job : status[j] \in Ended /\ "late" \notin faults
                         => status'[j] = status[j]]_vars

\* "Duplicate active batches are not made": no two metro batches have
\* unfinished jobs at the same time.
NoDuplicateActiveBatch ==
    \A b, c \in 1..MaxJobs : BatchActive(b) /\ BatchActive(c) => b = c

\* The same for batches that were enqueued on reads that succeeded.
NoDuplicateOnGoodReads == "misread" \notin faults => NoDuplicateActiveBatch

\* It does hold with a single enqueuer, as long as its reads succeed and no
\* late answer brings an ended job back.
OneActiveBatch ==
    Cardinality(Enqueuer) <= 1 /\ faults = {} => NoDuplicateActiveBatch

\* A job that waits is claimed in the end.  (A worker that has overrun its
\* lease between the read and the write of mark_retry can put a job back to
\* RETRY_WAIT with no attempt left, where nothing claims or reaps it.)
PendingIsClaimed ==
    \A j \in Job :
        status[j] \in Pending ~> status[j] \notin Pending \/ "late" \in faults

\* A job whose worker died before its last attempt is not left RUNNING.
OrphanIsRetried ==
    \A j \in Job :
        status[j] = "running" /\ attempt[j] < MaxAttempts
            ~> status[j] # "running" \/ attempt[j] = MaxAttempts

\* The daily registration is not refused for ever: an active batch comes to
\* an end.
BatchesEnd == []<>(~LatestBatchActive)

(* The queue implements the board. *)
executors == [j \in Job |-> {w \in Worker : Executing(w) /\ wjob[w] = j}]
jobStage ==
    [j \in Job |-> CASE status[j] = "absent" -> "none"
                     [] status[j] \in Pending -> "waiting"
                     [] status[j] = "success" -> "done"
                     [] status[j] = "failed" -> "dead"
                     [] status[j] = "running" ->
                            IF executors[j] = {} THEN "orphaned" ELSE "held"]

Board == INSTANCE JobBoard WITH stage <- jobStage, hands <- executors,
                                late <- "late" \in faults

\* Every step of the queue is a step of the board or leaves it alone.
BoardSpec == Board!Spec
=============================================================================
