---------------------------- MODULE DongLifecycle ----------------------------
(***************************************************************************)
(* How the listings of one dong age.  Crawl jobs collect the dong          *)
(* (collect_one_dong of application/crawl_pipeline_service.py), the writer *)
(* thread of each stores what they saw (commit_batch of                    *)
(* listing_batch_writer.py), and a collection that was complete moves the  *)
(* listings it did not see from ACTIVE to STALE to REMOVED                 *)
(* (complete_scope of crawl_job_service.py).                               *)
(*                                                                         *)
(* Workers take jobs and give them back as on the JobBoard, which the      *)
(* crawl queue implements.  The other dongs of a job appear through what   *)
(* they do to this one: the visit may be cancelled, and the job may be     *)
(* retried although this dong was done.                                    *)
(***************************************************************************)
EXTENDS Naturals, FiniteSets

CONSTANTS
    Job,            \* crawl jobs whose region holds the dong
    Worker,         \* executors of jobs
    Article,        \* listings of the dong
    NoJob,          \* no job has seen the listing
    MaxAttempts,    \* crawl_job.max_attempts (3 in the code)
    MaxRepeats      \* bound: claims of jobs that were claimed before

ASSUME LifecycleAssumption ==
    /\ NoJob \notin Job
    /\ MaxAttempts \in Nat \ {0}
    /\ MaxRepeats \in Nat

VARIABLES
    stage, hands, late,     \* the job board
    attempt,        \* how often each job has been claimed
    scope,          \* crawl_scope.status of (job, this dong); "none": no row
    life, miss,     \* listing_current.lifecycle and miss_count
    seenBy,         \* last_seen_job_id
    at,             \* where each worker is in collect_one_dong
    buffer,         \* rows submitted to its writer and not committed
    sighted,        \* history: what it has seen on this visit
    missedBy,       \* history: jobs that aged the listing since it was seen
    faults          \* history: "overlap", "deadlock"

board == <<stage, hands, late, attempt>>
rows == <<life, miss, seenBy, missedBy>>
visit == <<at, buffer, sighted>>
vars == <<board, scope, rows, visit, faults>>

Board == INSTANCE JobBoard

Place == {"out", "collecting", "whole", "partial", "advancing", "done", "raising"}

TypeOK ==
    /\ stage \in [Job -> Board!Stage]
    /\ hands \in [Job -> SUBSET Worker]
    /\ late \in BOOLEAN
    /\ attempt \in [Job -> 0..MaxAttempts]
    /\ scope \in [Job -> {"none", "pending", "complete", "failed"}]
    /\ life \in [Article -> {"absent", "active", "stale", "removed"}]
    /\ miss \in [Article -> 0..2]
    /\ seenBy \in [Article -> Job \cup {NoJob}]
    /\ at \in [Worker -> Place]
    /\ buffer \in [Worker -> SUBSET Article]
    /\ sighted \in [Worker -> SUBSET Article]
    /\ missedBy \in [Article -> SUBSET Job]
    /\ faults \in SUBSET {"overlap", "deadlock"}

Init ==
    /\ Board!Init
    /\ attempt = [j \in Job |-> 0]
    /\ scope = [j \in Job |-> "none"]
    /\ life = [a \in Article |-> "absent"]
    /\ miss = [a \in Article |-> 0]
    /\ seenBy = [a \in Article |-> NoJob]
    /\ at = [w \in Worker |-> "out"]
    /\ buffer = [w \in Worker |-> {}]
    /\ sighted = [w \in Worker |-> {}]
    /\ missedBy = [a \in Article |-> {}]
    /\ faults = {}

(* The visit is over; what was seen matters no more. *)
GoesTo(w, p) ==
    /\ at' = [at EXCEPT ![w] = p]
    /\ sighted' = [sighted EXCEPT ![w] = {}]

JobOf(w) == CHOOSE j \in Job : w \in hands[j]

-----------------------------------------------------------------------------
(* A worker comes to the dong *)

Post(j) ==
    /\ Board!Post({j})
    /\ UNCHANGED <<attempt, scope, rows, visit, faults>>

(* open_scope: a row that exists is returned as it is, a FAILED one too *)
OpenScope(j) ==
    scope' = [scope EXCEPT ![j] = IF @ = "none" THEN "pending" ELSE @]

Repeats == Cardinality({c \in Job \X (2..MaxAttempts) : c[2] <= attempt[c[1]]})

Enters(w, j) ==
    /\ attempt[j] < MaxAttempts
    /\ attempt[j] = 0 \/ Repeats < MaxRepeats
    /\ attempt' = [attempt EXCEPT ![j] = @ + 1]
    /\ OpenScope(j)
    /\ at' = [at EXCEPT ![w] = "collecting"]
    /\ faults' = IF \E k \in Job \ {j} : hands[k] # {}
                 THEN faults \cup {"overlap"} ELSE faults
    /\ UNCHANGED <<rows, buffer, sighted>>

Visit(w, j) ==
    /\ hands[j] = {}
    /\ \E R \in SUBSET {j} : Board!Take(w, j, R, {})
    /\ Enters(w, j)

(* The job's worker is late: its lease is given to another one, and it does *)
(* not stop.                                                                *)
VisitTaken(w, j) ==
    /\ hands[j] # {}
    /\ \A i \in Job : w \notin hands[i]
    /\ stage[j] \in {"held", "waiting"}
    /\ stage' = [stage EXCEPT ![j] = "held"]
    /\ hands' = [hands EXCEPT ![j] = @ \cup {w}]
    /\ late' = TRUE
    /\ Enters(w, j)

-----------------------------------------------------------------------------
(* The visit *)

(* A page of articles is submitted to the writer. *)
Submit(w, a) ==
    /\ at[w] = "collecting"
    /\ a \notin sighted[w]
    /\ buffer' = [buffer EXCEPT ![w] = @ \cup {a}]
    /\ sighted' = [sighted EXCEPT ![w] = @ \cup {a}]
    /\ UNCHANGED <<board, scope, rows, at, faults>>

(* commit_batch: a row that is seen is ACTIVE and this job's, whatever it   *)
(* was.                                                                     *)
Commit(w, S) ==
    /\ S # {}
    /\ S \subseteq buffer[w]
    /\ buffer' = [buffer EXCEPT ![w] = @ \ S]
    /\ life' = [a \in Article |-> IF a \in S THEN "active" ELSE life[a]]
    /\ miss' = [a \in Article |-> IF a \in S THEN 0 ELSE miss[a]]
    /\ seenBy' = [a \in Article |-> IF a \in S THEN JobOf(w) ELSE seenBy[a]]
    /\ missedBy' = [a \in Article |-> IF a \in S THEN {} ELSE missedBy[a]]
    /\ UNCHANGED <<board, scope, at, sighted, faults>>

(* fail_scope, without a look at what the row says now.  RetryWaitError is  *)
(* raised on and the job is retried; for another error the job goes on.     *)
CollectFails(w, p) ==
    /\ at[w] = "collecting"
    /\ scope' = [scope EXCEPT ![JobOf(w)] = "failed"]
    /\ GoesTo(w, p)
    /\ UNCHANGED <<board, rows, buffer, faults>>

(* collect_dong returns; whether it was partial decides what the flush is   *)
(* followed by.                                                             *)
CollectEnds(w, p) ==
    /\ at[w] = "collecting"
    /\ at' = [at EXCEPT ![w] = p]
    /\ UNCHANGED <<board, scope, rows, buffer, sighted, faults>>

\* Slip: only a COMPLETE scope is left alone, a FAILED one is completed.
FlushedCompletesFailed(w) ==
    /\ buffer[w] = {}
    /\ at[w] = "whole"
    /\ at' = [at EXCEPT ![w] = IF scope[JobOf(w)] = "complete" THEN "done" ELSE "advancing"]
    /\ UNCHANGED <<board, scope, rows, buffer, sighted, faults>>

\* Slip: the dong is completed without waiting for the writer.
FlushedTooEarly(w) ==
    /\ at[w] = "whole"
    /\ scope[JobOf(w)] = "pending"
    /\ at' = [at EXCEPT ![w] = "advancing"]
    /\ UNCHANGED <<board, scope, rows, buffer, sighted, faults>>

(* The writer has committed everything; the page is recorded.  Then a       *)
(* partial dong fails, and complete_scope reads the row, without locking    *)
(* it: a COMPLETE or FAILED scope ends the visit.                           *)
Flushed(w) ==
    /\ buffer[w] = {}
    /\ \/ /\ at[w] = "partial"
          /\ scope' = [scope EXCEPT ![JobOf(w)] = "failed"]
          /\ GoesTo(w, "done")
       \/ /\ at[w] = "whole"
          /\ scope[JobOf(w)] # "pending"
          /\ GoesTo(w, "done")
          /\ UNCHANGED scope
       \/ /\ at[w] = "whole"
          /\ scope[JobOf(w)] = "pending"
          /\ at' = [at EXCEPT ![w] = "advancing"]
          /\ UNCHANGED <<scope, sighted>>
    /\ UNCHANGED <<board, rows, buffer, faults>>

(* _advance_lifecycle: listings of the dong that another job saw last *)
Unseen(j) ==
    {a \in Article : life[a] \in {"active", "stale"} /\ seenBy[a] # j}

Ages(w) ==
    LET U == Unseen(JobOf(w))
    IN  /\ life' = [a \in Article |-> IF a \notin U THEN life[a]
                                      ELSE IF life[a] = "active" THEN "stale"
                                      ELSE "removed"]
        /\ miss' = [a \in Article |-> IF a \in U THEN miss[a] + 1 ELSE miss[a]]
        /\ missedBy' = [a \in Article |-> IF a \in U THEN missedBy[a] \cup {JobOf(w)}
                                          ELSE missedBy[a]]
        /\ UNCHANGED seenBy

\* Slip: COMPLETE is not written.
AdvanceForgetsScope(w) ==
    /\ at[w] = "advancing"
    /\ Ages(w)
    /\ GoesTo(w, "done")
    /\ UNCHANGED <<board, scope, buffer, faults>>

(* The scope is COMPLETE and the lifecycle advanced in one transaction. *)
Advance(w) ==
    /\ at[w] = "advancing"
    /\ scope' = [scope EXCEPT ![JobOf(w)] = "complete"]
    /\ Ages(w)
    /\ GoesTo(w, "done")
    /\ UNCHANGED <<board, buffer, faults>>

(* MySQL reports a deadlock: the rollback takes the flushed COMPLETE with   *)
(* it, the advance is tried again and committed alone.                      *)
AdvanceAfterDeadlock(w) ==
    /\ at[w] = "advancing"
    /\ faults' = faults \cup {"deadlock"}
    /\ Ages(w)
    /\ GoesTo(w, "done")
    /\ UNCHANGED <<board, scope, buffer>>

(* The database reports another error, or the last deadlock.  The aging is  *)
(* not done; but COMPLETE is flushed and not rolled back, and the session   *)
(* is that of the job's other dongs, of its heartbeat and of mark_retry:    *)
(* the next commit of theirs stores it, unless the worker dies before.      *)
AdvanceRaises(w) ==
    /\ at[w] = "advancing"
    /\ scope' \in {scope, [scope EXCEPT ![JobOf(w)] = "complete"]}
    /\ GoesTo(w, "raising")
    /\ UNCHANGED <<board, rows, buffer, faults>>

(* Another dong raised and this visit is cancelled, or the writer thread    *)
(* has failed (what it had not committed is dropped), or the database       *)
(* raised in another statement.  The job is retried.                        *)
GiveUp(w, dropped) ==
    /\ at[w] \in {"collecting", "whole", "partial", "done"}
    /\ GoesTo(w, "raising")
    /\ dropped \subseteq buffer[w]
    /\ buffer' = [buffer EXCEPT ![w] = @ \ dropped]
    /\ UNCHANGED <<board, scope, rows, faults>>

-----------------------------------------------------------------------------
(* The worker goes *)

Outcome(w) ==
    IF at[w] = "done" THEN "done"
    ELSE IF attempt[JobOf(w)] < MaxAttempts THEN "waiting" ELSE "dead"

(* Where the workers of a job are more than one, one of them has the lease. *)
LetsGo(w, j, s) ==
    \/ Board!Return(w, j, s)
    \/ /\ hands[j] # {w} \/ stage[j] # "held"
       /\ hands' = [hands EXCEPT ![j] = @ \ {w}]
       /\ \E t \in {s, stage[j]} : stage' = [stage EXCEPT ![j] = t]
       /\ UNCHANGED late

(* The worker is gone, and what it carried with it. *)
Gone(w) ==
    /\ GoesTo(w, "out")
    /\ buffer' = [buffer EXCEPT ![w] = {}]

(* The writer is closed and the job marked. *)
Leave(w) ==
    /\ at[w] \in {"done", "raising"}
    /\ buffer[w] = {}
    /\ LetsGo(w, JobOf(w), Outcome(w))
    /\ Gone(w)
    /\ UNCHANGED <<attempt, scope, rows, faults>>

(* The process dies, and its writer with it. *)
Crash(w) ==
    /\ at[w] # "out"
    /\ LET j == JobOf(w)
       IN  \/ Board!Drop(w, j)
           \/ /\ hands[j] # {w} \/ stage[j] # "held"
              /\ hands' = [hands EXCEPT ![j] = @ \ {w}]
              /\ UNCHANGED <<stage, late>>
    /\ Gone(w)
    /\ UNCHANGED <<attempt, scope, rows, faults>>

WorkerNext(w) ==
    \/ \E j \in Job : Visit(w, j) \/ VisitTaken(w, j)
    \/ \E a \in Article : Submit(w, a)
    \/ \E S \in SUBSET Article : Commit(w, S)
    \/ \E p \in {"done", "raising"} : CollectFails(w, p)
    \/ \E p \in {"whole", "partial"} : CollectEnds(w, p)
    \/ Flushed(w)
    \/ Advance(w)
    \/ AdvanceAfterDeadlock(w)
    \/ AdvanceRaises(w)
    \/ \E dropped \in SUBSET Article : GiveUp(w, dropped)
    \/ Leave(w)
    \/ Crash(w)

Next ==
    \/ \E j \in Job : Post(j)
    \/ \E w \in Worker : WorkerNext(w)

Spec == Init /\ [][Next]_vars

-----------------------------------------------------------------------------
(* Properties *)

\* A listing is removed only after two different jobs have missed it in a row:
\* a retried or repeated completion of one job counts once.  (A second executor
\* of the job, or a deadlock that loses COMPLETE, lets one job count twice.)
RemovedAfterTwoJobs ==
    ~late /\ "deadlock" \notin faults =>
        \A a \in Article :
            /\ life[a] = "stale" => Cardinality(missedBy[a]) = 1
            /\ life[a] = "removed" => Cardinality(missedBy[a]) = 2

AgedBy(w) ==
    {a \in Article : /\ at[w] = "advancing" /\ at'[w] = "done"
                     /\ life'[a] # life[a]}

\* "A failed dong is left out of the stale decision": what a job's completion
\* ages, it ages while its scope is open, however often the job was retried.
FailedDongNeverAges ==
    [][\A w \in Worker : AgedBy(w) # {} /\ ~late => scope[JobOf(w)] = "pending"]_vars

\* "complete_scope(second) == (0, 0)", the second time: a job that has aged a
\* listing does not age it again when its completion is repeated.  It does when
\* a deadlock lost COMPLETE and another dong has the job retried.
JobAgesOnce ==
    [][\A w \in Worker : \A a \in AgedBy(w) :
          ~late => JobOf(w) \notin missedBy[a]]_vars

\* A visit never ages a listing it has seen itself.
AgesOnlyUnobserved ==
    [][\A w \in Worker : AgedBy(w) \cap sighted[w] = {}]_vars

\* The same as long as no other job visits the dong at the same time.
AgesOnlyUnobservedAlone ==
    [][\A w \in Worker :
          "overlap" \notin faults => AgedBy(w) \cap sighted[w] = {}]_vars
=============================================================================
