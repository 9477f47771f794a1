-------------------------- MODULE CrawlQueueProofs --------------------------
(***************************************************************************)
(* The crawl queue's type invariant, and the reason why a job is executed  *)
(* by one worker at a time: tokens are never issued twice for a job, and   *)
(* an execution whose heartbeats are on time keeps a lease that has at     *)
(* least Lease - age ticks left.                                           *)
(***************************************************************************)
EXTENDS CrawlQueue, FiniteSetTheorems, TLAPS

\* The step of each action, under the names used below.
USE DEF Job, Phase, Status, Pending, Fault

\* Every value stays in its column's range; in particular a job is never
\* claimed more than MaxAttempts times.
LEMMA InitTypeOK == Init => TypeOK
  BY QueueAssumption DEF Init, TypeOK

LEMMA InsertType ==
  ASSUME TypeOK, NEW n \in Nat, NEW b \in 0..MaxJobs, Insert(n, b)
  PROVE  /\ lastId' \in 0..MaxJobs
         /\ status' \in [Job -> Status]
         /\ batch' \in [Job -> 0..MaxJobs]
  BY QueueAssumption DEF TypeOK, Insert

LEMMA ClaimType ==
  ASSUME TypeOK, NEW w \in Worker, NEW j \in Job, Claim(w, j)
  PROVE  TypeOK'
<1>1. attempt[j] + 1 \in 0..MaxAttempts
  BY QueueAssumption DEF TypeOK, Claim, Claimable
<1>2. ReapedStatus(w) \in [Job -> Status]
  BY DEF TypeOK, ReapedStatus
<1>3. 0 \in (0 - Horizon)..MaxBackoff
  BY QueueAssumption
<1>4. ReapedDue(w) \in [Job -> (0 - Horizon)..MaxBackoff]
  BY <1>3 DEF TypeOK, ReapedDue
<1>5. status' \in [Job -> Status] /\ due' \in [Job -> (0 - Horizon)..MaxBackoff]
  BY <1>2, <1>3, <1>4 DEF Claim
<1>6. /\ attempt' \in [Job -> 0..MaxAttempts]
      /\ token' \in [Job -> 0..MaxAttempts]
      /\ wtoken' \in [Worker -> 0..MaxAttempts]
  BY <1>1, QueueAssumption DEF TypeOK, Claim
<1>7. Lease \in 0..Lease /\ 0 \in 0..Beat /\ j \in 0..MaxJobs
  BY QueueAssumption
<1>8. /\ lease' \in [Job -> 0..Lease]
      /\ wjob' \in [Worker -> 0..MaxJobs]
      /\ age' \in [Worker -> 0..Beat]
  BY <1>7 DEF TypeOK, Claim
<1>9. QED
  BY <1>5, <1>6, <1>8 DEF TypeOK, Claim

LEMMA OutcomeType ==
  ASSUME TypeOK, NEW w \in Worker, wjob[w] \in Job,
         WriteSuccess(w) \/ WriteRetry(w)
  PROVE  TypeOK'
<1>0. Backoff(wtoken[w]) \in 1..MaxBackoff
  BY BackoffAssumption DEF TypeOK
<1>1. /\ 0 \in (0 - Horizon)..MaxBackoff
      /\ Backoff(wtoken[w]) \in (0 - Horizon)..MaxBackoff
  BY <1>0, QueueAssumption
<1>2. PICK s \in {"success", "failed", "retry_wait"},
           d \in (0 - Horizon)..MaxBackoff : WriteOutcome(w, s, d)
  BY <1>1 DEF WriteSuccess, WriteRetry
<1>3. 0 \in 0..MaxAttempts /\ 0 \in 0..Lease /\ 0 \in 0..MaxJobs /\ 0 \in 0..Beat
  BY QueueAssumption
<1>4. QED
  BY <1>2, <1>3 DEF TypeOK, WriteOutcome, Released

LEMMA ReleasedType ==
  ASSUME TypeOK, NEW w \in Worker, Released(w)
  PROVE  /\ phase' \in [Worker -> Phase]
         /\ wjob' \in [Worker -> 0..MaxJobs]
         /\ wtoken' \in [Worker -> 0..MaxAttempts]
         /\ hb' \in [Worker -> {"on", "off", "raised"}]
         /\ age' \in [Worker -> 0..Beat]
<1>1. 0 \in 0..MaxJobs /\ 0 \in 0..MaxAttempts /\ 0 \in 0..Beat
  BY QueueAssumption
<1>2. QED
  BY <1>1 DEF Released, TypeOK

LEMMA HeartbeatType ==
  ASSUME TypeOK, NEW w \in Worker, wjob[w] \in Job,
         Heartbeat(w) \/ HeartbeatRaises(w)
  PROVE  TypeOK'
<1>1. 0 \in 0..Beat /\ Lease \in 0..Lease
  BY QueueAssumption
<1>2. lease' \in [Job -> 0..Lease]
  <2>1. lease' = lease \/ lease' = [lease EXCEPT ![wjob[w]] = Lease]
    BY DEF Heartbeat, HeartbeatRaises
  <2>2. QED
    BY <1>1, <2>1 DEF TypeOK
<1>3. hb' \in [Worker -> {"on", "off", "raised"}] /\ age' \in [Worker -> 0..Beat]
  <2>1. /\ hb' = hb \/ hb' = [hb EXCEPT ![w] = "off"] \/ hb' = [hb EXCEPT ![w] = "raised"]
        /\ age' = [age EXCEPT ![w] = 0]
    BY DEF Heartbeat, HeartbeatRaises
  <2>2. QED
    BY <1>1, <2>1 DEF TypeOK
<1>4. faults' \in SUBSET Fault
  BY DEF Heartbeat, HeartbeatRaises, TypeOK
<1>5. UNCHANGED <<lastId, status, attempt, token, due, batch,
                  phase, wjob, wtoken, locked, stops, passed>>
  BY DEF Heartbeat, HeartbeatRaises
<1>6. QED
  BY <1>2, <1>3, <1>4, <1>5 DEF TypeOK

LEMMA TickType == TypeOK /\ Tick => TypeOK'
<1> SUFFICES ASSUME TypeOK, Tick PROVE TypeOK'
  OBVIOUS
<1>1. lease' \in [Job -> 0..Lease]
  <2>1. \A n \in 0..Lease : (IF n > 0 THEN n - 1 ELSE 0) \in 0..Lease
    BY QueueAssumption
  <2>2. QED
    BY <2>1 DEF TypeOK, Tick
<1>2. due' \in [Job -> (0 - Horizon)..MaxBackoff]
  <2>1. \A n \in (0 - Horizon)..MaxBackoff :
           n > 0 - Horizon => n - 1 \in (0 - Horizon)..MaxBackoff
    BY QueueAssumption
  <2>2. QED
    BY <2>1 DEF TypeOK, Tick
<1>3. age' \in [Worker -> 0..Beat]
  BY QueueAssumption DEF TypeOK, Tick
<1>4. QED
  BY <1>1, <1>2, <1>3 DEF TypeOK, Tick

\* A row that is not inserted yet carries nothing.
Unborn ==
  \A j \in Job : j > lastId => status[j] = "absent" /\ attempt[j] = 0 /\ token[j] = 0

\* Where a worker is, what it holds: an execution has a job and a token that
\* the job's attempt counter has reached, and two executions of one job have
\* different tokens.  A heartbeat task belongs to an execution, and runs as
\* long as nothing was late.
WorkerShape ==
  \A w \in Worker :
    /\ Executing(w) => /\ wjob[w] \in Job
                       /\ 1 <= wtoken[w]
                       /\ wtoken[w] <= attempt[wjob[w]]
    /\ hb[w] = "on" => Executing(w)
    /\ Executing(w) /\ "late" \notin faults => hb[w] = "on"

TokensDiffer ==
  \A v, w \in Worker :
    Executing(v) /\ Executing(w) /\ v # w /\ wjob[v] = wjob[w]
      => wtoken[v] # wtoken[w]

\* The lease a worker holds outlives its next heartbeat.
Margin ==
  "late" \notin faults =>
    \A w \in Worker : Executing(w) =>
      /\ status[wjob[w]] = "running"
      /\ token[wjob[w]] = wtoken[w]
      /\ lease[wjob[w]] + age[w] >= Lease

IInv == TypeOK /\ LeaseRow /\ Unborn /\ WorkerShape /\ TokensDiffer /\ Margin

-----------------------------------------------------------------------------
LEMMA MarginMeansLease == IInv => ExecutesUnderLease
<1> SUFFICES ASSUME IInv, "late" \notin faults, NEW w \in Worker, Executing(w)
             PROVE  HoldsLease(w)
  BY DEF ExecutesUnderLease, OwnLease
<1>1. wjob[w] \in Job /\ lease[wjob[w]] \in Int /\ age[w] <= Beat /\ age[w] \in Int
  BY QueueAssumption DEF IInv, WorkerShape, TypeOK
<1>2. lease[wjob[w]] > 0
  BY <1>1, QueueAssumption DEF IInv, Margin
<1>3. QED
  BY <1>2 DEF IInv, Margin, HoldsLease

LEMMA MarginMeansOne == IInv => OneExecutor
  BY DEF IInv, Margin, TokensDiffer, OneExecutor

LEMMA InitIInv == Init => IInv
  BY InitTypeOK, QueueAssumption
     DEF Init, IInv, LeaseRow, Unborn, WorkerShape, TokensDiffer, Margin, Executing

-----------------------------------------------------------------------------
(* The inductive step, action by action. *)

\* An execution's job has been claimed, its token is a number of a claim.
LEMMA ExecutedIsBorn ==
  ASSUME IInv, NEW w \in Worker, Executing(w)
  PROVE  /\ wjob[w] \in Job
         /\ ~(wjob[w] > lastId)
         /\ wtoken[w] \in Int
         /\ attempt[wjob[w]] \in Int
         /\ 1 <= wtoken[w]
         /\ wtoken[w] <= attempt[wjob[w]]
         /\ lease[wjob[w]] \in Int
         /\ age[w] \in Int
         /\ age[w] <= Beat
<1>1. wjob[w] \in Job /\ 1 <= wtoken[w] /\ wtoken[w] <= attempt[wjob[w]]
  BY DEF IInv, WorkerShape
<1>2. /\ wtoken[w] \in Int /\ attempt[wjob[w]] \in Int
      /\ lease[wjob[w]] \in Int /\ age[w] \in Int /\ age[w] <= Beat
  BY <1>1, QueueAssumption DEF IInv, TypeOK
<1>3. attempt[wjob[w]] # 0
  BY <1>1, <1>2
<1>4. QED
  BY <1>1, <1>2, <1>3 DEF IInv, Unborn

\* Inserting rows and looking at them concerns no claimed job.
LEMMA FillStep ==
  ASSUME IInv,
         CreateJob \/ \E e \in Enqueuer : \/ EnqueueCheck(e)
                                         \/ EnqueueMisread(e)
                                         \/ InsertBatch(e)
  PROVE  IInv'
<1> USE DEF IInv
<1>1. CASE \E e \in Enqueuer : EnqueueCheck(e) \/ EnqueueMisread(e)
  <2>1. TypeOK'
    BY <1>1 DEF EnqueueCheck, EnqueueMisread, TypeOK
  <2>2. LeaseRow' /\ Unborn' /\ TokensDiffer'
    BY <1>1 DEF EnqueueCheck, EnqueueMisread, LeaseRow, Unborn, TokensDiffer,
                Executing
  <2>3. WorkerShape' /\ Margin'
    BY <1>1 DEF EnqueueCheck, EnqueueMisread, WorkerShape, Margin, Executing
  <2>4. QED
    BY <2>1, <2>2, <2>3
<1>2. CASE CreateJob \/ \E e \in Enqueuer : InsertBatch(e)
  <2>1. PICK n \in Nat, b \in 0..MaxJobs :
           /\ Insert(n, b)
           /\ passed' \in SUBSET Enqueuer
           /\ UNCHANGED <<phase, wjob, wtoken, hb, age, locked, stops, faults>>
    <3>1. CASE CreateJob
      BY <3>1, QueueAssumption DEF CreateJob, TypeOK
    <3>2. CASE \E e \in Enqueuer : InsertBatch(e)
      BY <3>2, QueueAssumption DEF InsertBatch, TypeOK
    <3>3. QED
      BY <1>2, <3>1, <3>2
  <2>2. TypeOK'
    BY <2>1, InsertType DEF TypeOK, Insert
  <2>3. /\ \A j \in Job : j <= lastId => status'[j] = status[j]
        /\ \A j \in Job : j > lastId => status'[j] \in {"absent", "queued"}
        /\ \A j \in Job : j > lastId' => j > lastId /\ status'[j] = status[j]
        /\ attempt' = attempt /\ token' = token /\ lease' = lease
    BY <2>1, QueueAssumption DEF Insert, TypeOK, Unborn
  <2>4. LeaseRow' /\ Unborn'
    <3>1. ASSUME NEW j \in Job, j <= lastId
          PROVE  (status'[j] = "running" <=> token'[j] # 0) /\ token'[j] \in {0, attempt'[j]}
      BY <2>3, <3>1 DEF LeaseRow
    <3>2. ASSUME NEW j \in Job, j > lastId
          PROVE  (status'[j] = "running" <=> token'[j] # 0) /\ token'[j] \in {0, attempt'[j]}
      BY <2>3, <3>2 DEF Unborn
    <3>3. \A j \in Job : j <= lastId \/ j > lastId
      BY QueueAssumption DEF TypeOK
    <3>4. QED
      BY <2>3, <3>1, <3>2, <3>3 DEF LeaseRow, Unborn
  <2>5. WorkerShape' /\ TokensDiffer'
    BY <2>1, <2>3 DEF WorkerShape, TokensDiffer, Executing
  <2>6. Margin'
    <3>1. \A w \in Worker : Executing(w) => wjob[w] \in Job /\ ~(wjob[w] > lastId)
      BY ExecutedIsBorn
    <3>2. \A w \in Worker : Executing(w) => status'[wjob[w]] = status[wjob[w]]
      <4> SUFFICES ASSUME NEW w \in Worker, Executing(w)
                   PROVE  status'[wjob[w]] = status[wjob[w]]
        OBVIOUS
      <4>1. wjob[w] \in Job /\ wjob[w] <= lastId
        BY <3>1, QueueAssumption DEF TypeOK
      <4>2. QED
        BY <2>3, <4>1
    <3>3. QED
      BY <2>1, <2>3, <3>2 DEF Margin, Executing
  <2>7. QED
    BY <2>2, <2>4, <2>5, <2>6
<1>3. QED
  BY <1>1, <1>2

\* A claim takes no job that is executed on time: its lease has not expired.
LEMMA ClaimStep ==
  ASSUME IInv, NEW w \in Worker, NEW j \in Job, Claim(w, j)
  PROVE  IInv'
<1> USE DEF IInv
<1>1. TypeOK'
  BY ClaimType
<1>2. /\ \A i \in Job : i # j /\ i \notin Expired(w) => status'[i] = status[i]
      /\ \A i \in Job : i # j /\ i \in Expired(w) => status'[i] \in {"failed", "retry_wait"}
      /\ status'[j] = "running"
      /\ \A i \in Job : i # j => lease'[i] = lease[i]
      /\ lease'[j] = Lease
  BY DEF Claim, ReapedStatus, TypeOK
<1>3. /\ \A i \in Job : i # j => attempt'[i] = attempt[i]
      /\ attempt'[j] = attempt[j] + 1
      /\ token'[j] = attempt[j] + 1
      /\ \A i \in Job : i # j /\ i \in Expired(w) => token'[i] = 0
      /\ \A i \in Job : i # j /\ i \notin Expired(w) => token'[i] = token[i]
  BY DEF Claim, TypeOK
<1>4. /\ wjob'[w] = j /\ wtoken'[w] = attempt[j] + 1
      /\ hb'[w] = "on" /\ age'[w] = 0
      /\ phase'[w] = "running" /\ ~Executing(w)
      /\ \A v \in Worker : v # w => /\ wjob'[v] = wjob[v] /\ wtoken'[v] = wtoken[v]
                                    /\ hb'[v] = hb[v] /\ age'[v] = age[v]
                                    /\ phase'[v] = phase[v]
      /\ faults' = faults /\ lastId' = lastId
  BY DEF Claim, TypeOK, Executing
<1>5. status[j] # "absent" /\ ~(j > lastId) /\ attempt[j] \in Nat
  <2>1. status[j] # "absent"
    BY DEF Claim, Claimable, ReapedStatus, Expired
  <2>2. QED
    BY <2>1, QueueAssumption DEF TypeOK, Unborn
<1>6. LeaseRow'
  BY <1>2, <1>3, <1>5 DEF LeaseRow, Expired
<1>7. Unborn'
  BY <1>2, <1>3, <1>4, <1>5 DEF Unborn, Expired
<1>8. WorkerShape'
  <2>1. \A v \in Worker : v # w /\ Executing(v) => wtoken[v] <= attempt'[wjob[v]]
    <3>1. SUFFICES ASSUME NEW v \in Worker, v # w, Executing(v)
                   PROVE  wtoken[v] <= attempt'[wjob[v]]
      OBVIOUS
    <3>2. attempt'[wjob[v]] = attempt[wjob[v]] \/ attempt'[wjob[v]] = attempt[wjob[v]] + 1
      BY <1>3, <3>1, ExecutedIsBorn
    <3>3. QED
      BY <3>1, <3>2, ExecutedIsBorn
  <2>2. QED
    BY <1>3, <1>4, <1>5, <2>1 DEF WorkerShape, Executing
<1>9. TokensDiffer'
  <2>1. \A v \in Worker : Executing(v) /\ wjob[v] = j => wtoken[v] # attempt[j] + 1
    BY <1>5, ExecutedIsBorn
  <2>2. QED
    BY <1>4, <2>1 DEF TokensDiffer, Executing
<1>10. Margin'
  <2>1. ASSUME "late" \notin faults, NEW v \in Worker, v # w, Executing(v)
        PROVE  /\ status'[wjob[v]] = "running"
               /\ token'[wjob[v]] = wtoken[v]
               /\ lease'[wjob[v]] + age[v] >= Lease
    <3>1. wjob[v] \in Job
      BY <2>1, ExecutedIsBorn
    <3>2. HoldsLease(v)
      BY <2>1, MarginMeansLease DEF ExecutesUnderLease, OwnLease
    <3>3. wjob[v] \notin Expired(w)
      BY <3>2, <2>1, ExecutedIsBorn DEF HoldsLease, Expired
    <3>4. wjob[v] # j
      BY <3>2, <3>3 DEF HoldsLease, Claim, Claimable, ReapedStatus
    <3>5. QED
      BY <1>2, <1>3, <2>1, <3>1, <3>3, <3>4 DEF Margin
  <2>2. Lease + 0 >= Lease
    BY QueueAssumption
  <2>3. ASSUME "late" \notin faults', NEW v \in Worker, Executing(v)'
        PROVE  /\ status'[wjob'[v]] = "running"
               /\ token'[wjob'[v]] = wtoken'[v]
               /\ lease'[wjob'[v]] + age'[v] >= Lease
    <3>1. CASE v = w
      BY <1>2, <1>3, <1>4, <2>2, <3>1
    <3>2. CASE v # w
      BY <1>4, <2>1, <2>3, <3>2 DEF Executing
    <3>3. QED
      BY <3>1, <3>2
  <2>4. QED
    BY <2>3 DEF Margin
<1>11. QED
  BY <1>1, <1>6, <1>7, <1>8, <1>9, <1>10

\* Polling, waking up and starting again touch no execution and no row.
LEMMA IdleStep ==
  ASSUME IInv, NEW w \in Worker, ClaimNothing(w) \/ Wake(w) \/ Restart(w)
  PROVE  IInv'
<1> USE DEF IInv
<1>1. TypeOK'
  <2>1. Expired(w) \in SUBSET Job
    BY DEF Expired
  <2>2. CASE ClaimNothing(w)
    BY <2>1, <2>2 DEF ClaimNothing, TypeOK
  <2>3. CASE Wake(w) \/ Restart(w)
    BY <2>3 DEF Wake, Restart, TypeOK
  <2>4. QED
    BY <2>2, <2>3
<1>2. /\ \A v \in Worker : Executing(v)' <=> Executing(v)
      /\ UNCHANGED <<lastId, status, attempt, token, lease, wjob, wtoken, hb, age, faults>>
  BY DEF ClaimNothing, Wake, Restart, Executing, TypeOK
<1>3. LeaseRow' /\ Unborn'
  BY <1>2 DEF LeaseRow, Unborn
<1>4. WorkerShape' /\ TokensDiffer' /\ Margin'
  BY <1>2 DEF WorkerShape, TokensDiffer, Margin
<1>5. QED
  BY <1>1, <1>3, <1>4

\* A heartbeat renews the lease of its own execution: any other execution is
\* of another job, or something was late.
LEMMA HeartbeatStep ==
  ASSUME IInv, NEW w \in Worker, Heartbeat(w) \/ HeartbeatRaises(w)
  PROVE  IInv'
<1> USE DEF IInv
<1>1. wjob[w] \in Job /\ Executing(w)
  BY DEF Heartbeat, HeartbeatRaises, Executing, WorkerShape
<1>2. Lease + 0 >= Lease /\ Lease \in Int
  BY QueueAssumption
<1>3. TypeOK'
  BY <1>1, HeartbeatType
<1>4. LeaseRow' /\ Unborn' /\ TokensDiffer'
  BY DEF Heartbeat, HeartbeatRaises, LeaseRow, Unborn, TokensDiffer, Executing
<1>5. "late" \notin faults => HoldsLease(w)
  BY <1>1, MarginMeansLease DEF ExecutesUnderLease, OwnLease
<1>6. WorkerShape'
  BY <1>5 DEF Heartbeat, HeartbeatRaises, WorkerShape, Executing, TypeOK
<1>7. Margin'
  <2>1. CASE HeartbeatRaises(w)
    BY <2>1 DEF HeartbeatRaises, Margin
  <2>2. ASSUME Heartbeat(w), "late" \notin faults, NEW v \in Worker, Executing(v)
        PROVE  /\ status[wjob[v]] = "running"
               /\ token[wjob[v]] = wtoken[v]
               /\ lease'[wjob[v]] + age'[v] >= Lease
    <3>1. lease' = [lease EXCEPT ![wjob[w]] = Lease] /\ age' = [age EXCEPT ![w] = 0]
      BY <1>5, <2>2 DEF Heartbeat
    <3>2. CASE v = w
      BY <1>1, <1>2, <2>2, <3>1, <3>2 DEF Margin, TypeOK
    <3>3. CASE v # w
      <4>1. wjob[v] # wjob[w]
        BY <1>1, <2>2, <3>3, MarginMeansOne DEF OneExecutor
      <4>2. lease'[wjob[v]] = lease[wjob[v]] /\ age'[v] = age[v]
        BY <3>1, <3>3, <4>1, <2>2, ExecutedIsBorn DEF TypeOK
      <4>3. QED
        BY <2>2, <4>2 DEF Margin
    <3>4. QED
      BY <3>2, <3>3
  <2>3. CASE Heartbeat(w)
    BY <2>2, <2>3 DEF Heartbeat, Margin, Executing
  <2>4. QED
    BY <2>1, <2>3
<1>8. QED
  BY <1>3, <1>4, <1>6, <1>7

\* The end of a job: on time, the read finds the lease still there.
LEMMA JobEndsStep ==
  ASSUME IInv, NEW w \in Worker, NEW p \in {"succeeding", "retrying"}, JobEnds(w, p)
  PROVE  IInv'
<1> USE DEF IInv
<1>1. 0 \in 0..MaxJobs /\ 0 \in 0..MaxAttempts /\ 0 \in 0..Beat
  BY QueueAssumption
<1>2. Executing(w) /\ ("late" \notin faults => HoldsLease(w))
  BY MarginMeansLease DEF JobEnds, Executing, ExecutesUnderLease, OwnLease
<1>3. UNCHANGED <<lastId, status, attempt, token, lease, faults>>
  BY DEF JobEnds
<1>4. LeaseRow' /\ Unborn'
  BY <1>3 DEF LeaseRow, Unborn
<1>5. CASE HoldsLease(w)
  <2>1. TypeOK'
    BY <1>5 DEF JobEnds, TypeOK
  <2>2. /\ \A v \in Worker : Executing(v)' <=> Executing(v)
        /\ UNCHANGED <<wjob, wtoken, hb, age>>
    BY <1>2, <1>5 DEF JobEnds, Executing, TypeOK
  <2>3. QED
    BY <1>3, <1>4, <2>1, <2>2 DEF WorkerShape, TokensDiffer, Margin
<1>6. CASE ~HoldsLease(w)
  <2>1. TypeOK'
    BY <1>6, ReleasedType DEF JobEnds, TypeOK
  <2>2. /\ ~Executing(w)' /\ hb'[w] = "off" /\ "late" \in faults
        /\ \A v \in Worker : v # w => /\ Executing(v)' <=> Executing(v)
                                      /\ wjob'[v] = wjob[v] /\ wtoken'[v] = wtoken[v]
                                      /\ hb'[v] = hb[v]
    BY <1>2, <1>6 DEF JobEnds, Released, Executing, TypeOK
  <2>3. WorkerShape'
    BY <1>3, <2>2 DEF WorkerShape
  <2>4. TokensDiffer' /\ Margin'
    BY <1>3, <2>2 DEF TokensDiffer, Margin
  <2>5. QED
    BY <1>4, <2>1, <2>3, <2>4
<1>7. QED
  BY <1>5, <1>6

\* The outcome is written to the row of the worker's own job; on time, nobody
\* else executes that job.
LEMMA OutcomeStep ==
  ASSUME IInv, NEW w \in Worker, WriteSuccess(w) \/ WriteRetry(w)
  PROVE  IInv'
<1> USE DEF IInv
<1>1. wjob[w] \in Job /\ Executing(w) /\ ~(wjob[w] > lastId)
  BY ExecutedIsBorn DEF WriteSuccess, WriteRetry, Executing
<1>2. TypeOK'
  BY <1>1, OutcomeType
<1>3. PICK s, d : s \in {"success", "failed", "retry_wait"} /\ WriteOutcome(w, s, d)
  BY DEF WriteSuccess, WriteRetry
<1>4. /\ status'[wjob[w]] = s /\ token'[wjob[w]] = 0
      /\ \A j \in Job : j # wjob[w] => /\ status'[j] = status[j]
                                       /\ token'[j] = token[j]
                                       /\ lease'[j] = lease[j]
      /\ UNCHANGED <<lastId, attempt, faults>>
  BY <1>1, <1>3 DEF WriteOutcome, TypeOK
<1>5. /\ ~Executing(w)' /\ hb'[w] = "off"
      /\ \A v \in Worker : v # w => /\ Executing(v)' <=> Executing(v)
                                    /\ wjob'[v] = wjob[v] /\ wtoken'[v] = wtoken[v]
                                    /\ hb'[v] = hb[v] /\ age'[v] = age[v]
  BY <1>3 DEF WriteOutcome, Released, Executing, TypeOK
<1>6. LeaseRow'
  BY <1>1, <1>3, <1>4 DEF LeaseRow
<1>7. Unborn'
  BY <1>1, <1>3, <1>4 DEF Unborn
<1>8. WorkerShape'
  BY <1>3, <1>4, <1>5 DEF WorkerShape
<1>9. TokensDiffer'
  BY <1>5 DEF TokensDiffer
<1>10. Margin'
  <2>1. ASSUME "late" \notin faults, NEW v \in Worker, v # w, Executing(v)
        PROVE  wjob[v] \in Job /\ wjob[v] # wjob[w]
    BY <1>1, <2>1, ExecutedIsBorn, MarginMeansOne DEF OneExecutor
  <2>2. QED
    BY <1>4, <1>5, <2>1 DEF Margin
<1>11. QED
  BY <1>2, <1>6, <1>7, <1>8, <1>9, <1>10

\* A process that ends leaves its row as it is.
LEMMA StopStep ==
  ASSUME IInv, NEW w \in Worker, Stop(w)
  PROVE  IInv'
<1> USE DEF IInv
<1>1. 0 \in 0..MaxJobs /\ 0 \in 0..MaxAttempts /\ 0 \in 0..Beat /\ stops' \in 0..MaxStops
  BY QueueAssumption DEF Stop, TypeOK
<1>2. TypeOK'
  BY <1>1 DEF Stop, TypeOK
<1>3. /\ ~Executing(w)' /\ hb'[w] = "off"
      /\ \A v \in Worker : v # w => /\ Executing(v)' <=> Executing(v)
                                    /\ wjob'[v] = wjob[v] /\ wtoken'[v] = wtoken[v]
                                    /\ hb'[v] = hb[v] /\ age'[v] = age[v]
      /\ UNCHANGED <<lastId, status, attempt, token, lease, faults>>
  BY DEF Stop, Executing, TypeOK
<1>4. LeaseRow' /\ Unborn'
  BY <1>3 DEF LeaseRow, Unborn
<1>5. WorkerShape' /\ TokensDiffer' /\ Margin'
  BY <1>3 DEF WorkerShape, TokensDiffer, Margin
<1>6. QED
  BY <1>2, <1>4, <1>5

\* A tick takes from the lease what it adds to the age of the heartbeat.
LEMMA TickStep ==
  ASSUME IInv, Tick
  PROVE  IInv'
<1> USE DEF IInv
<1>1. TypeOK'
  BY TickType
<1>2. /\ \A v \in Worker : Executing(v)' <=> Executing(v)
      /\ UNCHANGED <<lastId, status, attempt, token, wjob, wtoken, hb>>
      /\ "late" \notin faults' =>
           "late" \notin faults /\ \A w \in Worker : hb[w] = "on" => age[w] # Beat
  BY DEF Tick, Executing
<1>3. LeaseRow' /\ Unborn' /\ TokensDiffer'
  BY <1>2 DEF LeaseRow, Unborn, TokensDiffer
<1>4. WorkerShape'
  BY <1>2 DEF WorkerShape
<1>5. ASSUME "late" \notin faults', NEW w \in Worker, Executing(w)
      PROVE  /\ status[wjob[w]] = "running"
             /\ token[wjob[w]] = wtoken[w]
             /\ lease'[wjob[w]] + age'[w] >= Lease
  <2>1. hb[w] = "on" /\ age[w] # Beat /\ HoldsLease(w)
    BY <1>2, <1>5, MarginMeansLease DEF WorkerShape, ExecutesUnderLease, OwnLease
  <2>2. /\ wjob[w] \in Job /\ lease[wjob[w]] \in Int /\ lease[wjob[w]] > 0
        /\ age[w] \in Int /\ age[w] < Beat
    BY <1>5, <2>1, ExecutedIsBorn, QueueAssumption DEF HoldsLease
  <2>3. lease'[wjob[w]] = lease[wjob[w]] - 1 /\ age'[w] = age[w] + 1
    BY <2>1, <2>2 DEF Tick
  <2>4. lease[wjob[w]] + age[w] >= Lease
    BY <1>2, <1>5 DEF Margin
  <2>5. lease'[wjob[w]] + age'[w] >= Lease
    BY <2>2, <2>3, <2>4, QueueAssumption
  <2>6. QED
    BY <2>1, <2>5 DEF HoldsLease
<1>6. Margin'
  BY <1>2, <1>5 DEF Margin
<1>7. QED
  BY <1>1, <1>3, <1>4, <1>6

LEMMA NextIInv == IInv /\ [Next]_vars => IInv'
<1> SUFFICES ASSUME IInv, [Next]_vars PROVE IInv'
  OBVIOUS
<1>1. CASE CreateJob
  BY <1>1, FillStep
<1>2. CASE \E e \in Enqueuer : EnqueueCheck(e) \/ EnqueueMisread(e) \/ InsertBatch(e)
  BY <1>2, FillStep
<1>3. ASSUME NEW w \in Worker, WorkerStep(w) PROVE IInv'
  BY <1>3, ClaimStep, IdleStep, HeartbeatStep, JobEndsStep, OutcomeStep, StopStep
     DEF WorkerStep
<1>4. CASE Tick
  BY <1>4, TickStep
<1>5. CASE UNCHANGED vars
  <2>1. TypeOK' /\ LeaseRow' /\ Unborn'
    BY <1>5 DEF IInv, vars, TypeOK, LeaseRow, Unborn
  <2>2. WorkerShape' /\ TokensDiffer' /\ Margin'
    BY <1>5 DEF IInv, vars, WorkerShape, TokensDiffer, Margin, Executing
  <2>3. QED
    BY <2>1, <2>2 DEF IInv
<1>6. QED
  BY <1>1, <1>2, <1>3, <1>4, <1>5 DEF Next

-----------------------------------------------------------------------------
\* The inductive invariant holds in every reachable state, for any number of
\* workers, jobs, attempts and crashes and any lease longer than a beat.
THEOREM QueueInvariant == Spec => []IInv
  BY InitIInv, NextIInv, PTL DEF Spec

\* Attempts stay within max_attempts, leases within LEASE_SECONDS, and every
\* other column and variable within its range.
THEOREM TypeCorrect == Spec => []TypeOK
<1>1. IInv => TypeOK
  BY DEF IInv
<1>2. QED
  BY <1>1, QueueInvariant, PTL

\* A row is RUNNING exactly when it carries a lease token.
THEOREM RunningRowsAreLeased == Spec => []LeaseRow
<1>1. IInv => LeaseRow
  BY DEF IInv
<1>2. QED
  BY <1>1, QueueInvariant, PTL

\* Who executes a job on time owns its lease at every moment.
THEOREM ExecutionIsLeased == Spec => []ExecutesUnderLease
  BY QueueInvariant, MarginMeansLease, PTL

\* Two workers on time never execute the same job.
THEOREM ExecutionIsExclusive == Spec => []OneExecutor
  BY QueueInvariant, MarginMeansOne, PTL

\* No step of the queue changes the status of an ended job, unless a worker
\* was late: ended rows are neither reaped nor claimed, and who writes an
\* outcome on time writes it to a RUNNING row.
LEMMA EndedStep ==
  ASSUME IInv, [Next]_vars, NEW j \in Job,
         status[j] \in Ended, "late" \notin faults
  PROVE  status'[j] = status[j]
<1> USE DEF IInv, Ended
<1>1. CASE CreateJob \/ \E e \in Enqueuer : InsertBatch(e)
  <2>1. PICK n, b : Insert(n, b)
    BY <1>1 DEF CreateJob, InsertBatch
  <2>2. ~(j > lastId)
    BY DEF Unborn
  <2>3. j \notin lastId + 1 .. lastId + n
    BY <2>2, QueueAssumption DEF TypeOK
  <2>4. QED
    BY <2>1, <2>3 DEF Insert
<1>2. ASSUME NEW w \in Worker, NEW i \in Job, Claim(w, i) PROVE status'[j] = status[j]
  BY <1>2 DEF Claim, Claimable, ReapedStatus, Expired, TypeOK
<1>3. ASSUME NEW w \in Worker, WriteSuccess(w) \/ WriteRetry(w)
      PROVE  status'[j] = status[j]
  <2>1. status[wjob[w]] = "running"
    BY <1>3, MarginMeansLease
       DEF WriteSuccess, WriteRetry, Executing, ExecutesUnderLease, OwnLease, HoldsLease
  <2>2. PICK s, d : WriteOutcome(w, s, d)
    BY <1>3 DEF WriteSuccess, WriteRetry
  <2>3. QED
    BY <2>1, <2>2 DEF WriteOutcome, TypeOK
<1>4. CASE \/ \E e \in Enqueuer : EnqueueCheck(e) \/ EnqueueMisread(e)
           \/ Tick
           \/ UNCHANGED vars
  BY <1>4 DEF EnqueueCheck, EnqueueMisread, Tick, vars
<1>5. ASSUME NEW w \in Worker,
             \/ ClaimNothing(w) \/ Wake(w) \/ Heartbeat(w) \/ HeartbeatRaises(w)
             \/ Stop(w) \/ Restart(w)
             \/ \E p \in {"succeeding", "retrying"} : JobEnds(w, p)
      PROVE  status' = status
  BY <1>5 DEF ClaimNothing, Wake, Heartbeat, HeartbeatRaises, Stop, Restart, JobEnds
<1>6. QED
  BY <1>1, <1>2, <1>3, <1>4, <1>5 DEF Next, WorkerStep

\* A job that succeeded or failed stays so, as long as nobody is late.
THEOREM EndsAreFinal == Spec => EndIsFinal
<1>1. IInv /\ [Next]_vars =>
        [\A j \in Job : status[j] \in Ended /\ "late" \notin faults
                            => status'[j] = status[j]]_vars
  BY EndedStep
<1>2. QED
  BY <1>1, QueueInvariant, PTL DEF Spec, EndIsFinal

-----------------------------------------------------------------------------
(* Why there is one active batch: while an enqueuer is past its read there *)
(* is none, and what is active was inserted last.                          *)

LatestOnly ==
  Cardinality(Enqueuer) <= 1 /\ faults = {} =>
    /\ \A b \in 1..MaxJobs : BatchActive(b) => \A j \in Job : batch[j] <= b
    /\ passed # {} => \A b \in 1..MaxJobs : ~BatchActive(b)

Active == Pending \cup {"running"}

\* A job becomes active only by being inserted, as long as nobody is late.
LEMMA NothingRevives ==
  ASSUME IInv, "late" \notin faults, NEW j \in Job, status'[j] \in Active,
         Tick \/ \E w \in Worker : WorkerStep(w)
  PROVE  status[j] \in Active /\ UNCHANGED <<batch, passed>>
<1> USE DEF IInv, Active
<1>1. CASE Tick
  BY <1>1 DEF Tick
<1>2. ASSUME NEW w \in Worker, NEW i \in Job, Claim(w, i)
      PROVE  status[j] \in Active /\ UNCHANGED <<batch, passed>>
  BY <1>2 DEF Claim, Claimable, ReapedStatus, Expired, TypeOK
<1>3. ASSUME NEW w \in Worker, WriteSuccess(w) \/ WriteRetry(w)
      PROVE  status[j] \in Active /\ UNCHANGED <<batch, passed>>
  <2>1. status[wjob[w]] = "running"
    BY <1>3, MarginMeansLease
       DEF WriteSuccess, WriteRetry, Executing, ExecutesUnderLease, OwnLease, HoldsLease
  <2>2. PICK s, d : WriteOutcome(w, s, d)
    BY <1>3 DEF WriteSuccess, WriteRetry
  <2>3. QED
    BY <2>1, <2>2 DEF WriteOutcome, TypeOK
<1>4. ASSUME NEW w \in Worker,
             \/ ClaimNothing(w) \/ Wake(w) \/ Heartbeat(w) \/ HeartbeatRaises(w)
             \/ Stop(w) \/ Restart(w)
             \/ \E p \in {"succeeding", "retrying"} : JobEnds(w, p)
      PROVE  status[j] \in Active /\ UNCHANGED <<batch, passed>>
  BY <1>4 DEF ClaimNothing, Wake, Heartbeat, HeartbeatRaises, Stop, Restart, JobEnds
<1>5. QED
  BY <1>1, <1>2, <1>3, <1>4 DEF WorkerStep

\* The history of faults only grows.
LEMMA FaultsStay ==
  ASSUME [Next]_vars
  PROVE  faults \subseteq faults'
<1>1. ASSUME NEW w \in Worker, WorkerStep(w) PROVE faults \subseteq faults'
  <2>1. CASE \/ ClaimNothing(w) \/ Wake(w) \/ Heartbeat(w) \/ HeartbeatRaises(w)
             \/ Stop(w) \/ Restart(w)
    BY <2>1 DEF ClaimNothing, Wake, Heartbeat, HeartbeatRaises, Stop, Restart
  <2>2. CASE \/ \E j \in Job : Claim(w, j)
             \/ \E p \in {"succeeding", "retrying"} : JobEnds(w, p)
    BY <2>2 DEF Claim, JobEnds
  <2>3. CASE WriteSuccess(w) \/ WriteRetry(w)
    BY <2>3 DEF WriteSuccess, WriteRetry, WriteOutcome
  <2>4. QED
    BY <1>1, <2>1, <2>2, <2>3 DEF WorkerStep
<1>2. QED
  BY <1>1 DEF Next, CreateJob, EnqueueCheck, EnqueueMisread, InsertBatch, Tick, vars

LEMMA OneEnqueuer ==
  ASSUME Cardinality(Enqueuer) <= 1, NEW d \in Enqueuer, NEW e \in Enqueuer
  PROVE  d = e
<1>1. d # e => Cardinality({d} \cup {e}) = 2
  <2>1. IsFiniteSet({d}) /\ Cardinality({d}) = 1
    BY FS_Singleton
  <2>2. d # e => Cardinality({d} \cup {e}) = Cardinality({d}) + 1
    BY <2>1, FS_AddElement
  <2>3. QED
    BY <2>1, <2>2
<1>2. Cardinality({d} \cup {e}) <= Cardinality(Enqueuer)
  BY FS_Subset, QueueAssumption
<1>3. Cardinality(Enqueuer) \in Nat
  BY FS_CardinalityType, QueueAssumption
<1>4. QED
  BY <1>1, <1>2, <1>3

LEMMA LatestOnlyStep ==
  ASSUME IInv, LatestOnly, [Next]_vars
  PROVE  LatestOnly'
<1> USE DEF IInv
<1> SUFFICES ASSUME Cardinality(Enqueuer) <= 1, faults' = {}
             PROVE  /\ \A b \in 1..MaxJobs : BatchActive(b)' => \A j \in Job : batch'[j] <= b
                    /\ passed' # {} => \A b \in 1..MaxJobs : ~BatchActive(b)'
  BY DEF LatestOnly
<1>1. faults = {} /\ "late" \notin faults
  BY FaultsStay
<1>2. /\ \A b \in 1..MaxJobs : BatchActive(b) => \A j \in Job : batch[j] <= b
      /\ passed # {} => \A b \in 1..MaxJobs : ~BatchActive(b)
  BY <1>1 DEF LatestOnly
<1>3. CASE CreateJob
  <2>1. /\ \A j \in Job : batch'[j] # 0 => batch'[j] = batch[j] /\ status'[j] = status[j]
        /\ passed' = passed
    BY <1>3 DEF CreateJob, Insert
  <2>2. \A b \in 1..MaxJobs : BatchActive(b)' => BatchActive(b)
    BY <2>1 DEF BatchActive
  <2>3. \A j \in Job : batch'[j] = 0 \/ batch'[j] = batch[j]
    BY <2>1
  <2>4. QED
    BY <1>2, <2>1, <2>2, <2>3
<1>4. ASSUME NEW e \in Enqueuer, EnqueueCheck(e)
      PROVE  /\ \A b \in 1..MaxJobs : BatchActive(b)' => \A j \in Job : batch'[j] <= b
             /\ \A b \in 1..MaxJobs : ~BatchActive(b)'
  <2>1. \A b \in 1..MaxJobs : BatchActive(b)' <=> BatchActive(b)
    BY <1>4 DEF EnqueueCheck, BatchActive
  <2>2. \A b \in 1..MaxJobs : BatchActive(b) => IsLatest(b)
    BY <1>2 DEF IsLatest, BatchActive
  <2>3. QED
    BY <1>4, <2>1, <2>2 DEF EnqueueCheck, LatestBatchActive
<1>5. ASSUME NEW e \in Enqueuer, EnqueueMisread(e) PROVE FALSE
  BY <1>5 DEF EnqueueMisread
<1>6. ASSUME NEW e \in Enqueuer, InsertBatch(e)
      PROVE  /\ \A b \in 1..MaxJobs : BatchActive(b)' => \A j \in Job : batch'[j] <= b
             /\ passed' = {}
  <2>1. PICK b \in 1..MaxJobs : (\A j \in Job : batch[j] < b) /\ Insert(BatchSize, b)
    BY <1>6 DEF InsertBatch
  <2>2. \A j \in Job : batch'[j] = b \/ (batch'[j] = batch[j] /\ status'[j] = status[j])
    BY <2>1 DEF Insert
  <2>3. \A c \in 1..MaxJobs : ~BatchActive(c)
    BY <1>2, <1>6 DEF InsertBatch
  <2>4. \A c \in 1..MaxJobs : BatchActive(c)' => c = b
    BY <2>2, <2>3 DEF BatchActive
  <2>5. \A j \in Job : batch'[j] <= b
    <3>1. \A j \in Job : batch[j] \in Int
      BY QueueAssumption DEF TypeOK
    <3>2. QED
      BY <2>1, <2>2, <3>1
  <2>6. passed' = {}
    <3>1. \A d \in passed : d = e
      BY <1>6, OneEnqueuer DEF TypeOK
    <3>2. QED
      BY <1>6, <3>1 DEF InsertBatch
  <2>7. QED
    BY <2>4, <2>5, <2>6
<1>7. CASE Tick \/ \E w \in Worker : WorkerStep(w)
  <2>1. UNCHANGED <<batch, passed>>
    <3>1. CASE Tick
      BY <3>1 DEF Tick
    <3>2. ASSUME NEW w \in Worker, WorkerStep(w) PROVE UNCHANGED <<batch, passed>>
      <4>1. CASE \/ ClaimNothing(w) \/ Wake(w) \/ Heartbeat(w) \/ HeartbeatRaises(w)
                 \/ Stop(w) \/ Restart(w)
        BY <4>1 DEF ClaimNothing, Wake, Heartbeat, HeartbeatRaises, Stop, Restart
      <4>2. CASE \/ \E j \in Job : Claim(w, j)
                 \/ \E p \in {"succeeding", "retrying"} : JobEnds(w, p)
        BY <4>2 DEF Claim, JobEnds
      <4>3. CASE WriteSuccess(w) \/ WriteRetry(w)
        BY <4>3 DEF WriteSuccess, WriteRetry, WriteOutcome
      <4>4. QED
        BY <3>2, <4>1, <4>2, <4>3 DEF WorkerStep
    <3>3. QED
      BY <1>7, <3>1, <3>2
  <2>2. \A b \in 1..MaxJobs : BatchActive(b)' => BatchActive(b)
    <3> SUFFICES ASSUME NEW b \in 1..MaxJobs, NEW j \in Job,
                        batch'[j] = b, status'[j] \in Active
                 PROVE  BatchActive(b)
      BY DEF BatchActive, Active
    <3>1. status[j] \in Active
      BY <1>1, <1>7, NothingRevives
    <3>2. QED
      BY <2>1, <3>1 DEF BatchActive, Active
  <2>3. QED
    BY <1>2, <2>1, <2>2
<1>8. CASE UNCHANGED vars
  BY <1>2, <1>8 DEF vars, BatchActive
<1>9. QED
  BY <1>3, <1>4, <1>5, <1>6, <1>7, <1>8 DEF Next

\* With one enqueuer whose reads succeed there are never two metro batches with
\* unfinished jobs, for any number of workers, crashes and retries.
THEOREM BatchesDoNotOverlap == Spec => []OneActiveBatch
<1>1. Init => LatestOnly
  BY DEF Init, LatestOnly, BatchActive
<1>2. IInv /\ LatestOnly /\ [Next]_vars => LatestOnly'
  BY LatestOnlyStep
<1>3. IInv /\ LatestOnly => OneActiveBatch
  <2> SUFFICES ASSUME IInv, Cardinality(Enqueuer) <= 1, faults = {},
                      \A b \in 1..MaxJobs : BatchActive(b) => \A j \in Job : batch[j] <= b,
                      NEW b \in 1..MaxJobs, NEW c \in 1..MaxJobs,
                      BatchActive(b), BatchActive(c)
               PROVE  b = c
    BY DEF LatestOnly, OneActiveBatch, NoDuplicateActiveBatch
  <2>1. b <= c /\ c <= b
    BY DEF BatchActive
  <2>2. QED
    BY <2>1
<1>4. QED
  BY <1>1, <1>2, <1>3, QueueInvariant, PTL DEF Spec

-----------------------------------------------------------------------------
(* The queue implements the board: on time, the job of an execution is     *)
(* RUNNING and in nobody else's hands, and each step that changes a row or *)
(* an execution is one of the board's.                                     *)

\* What a job's column says about its place on the board.
LEMMA StageOf ==
  ASSUME NEW j \in Job
  PROVE  /\ status[j] = "absent" => jobStage[j] = "none"
         /\ status[j] \in Pending => jobStage[j] = "waiting"
         /\ status[j] = "success" => jobStage[j] = "done"
         /\ status[j] = "failed" => jobStage[j] = "dead"
         /\ status[j] = "running" =>
              jobStage[j] = IF executors[j] = {} THEN "orphaned" ELSE "held"
         /\ executors[j] = {w \in Worker : Executing(w) /\ wjob[w] = j}
  BY DEF jobStage, executors

LEMMA StageOfNext ==
  ASSUME NEW j \in Job
  PROVE  /\ status'[j] = "absent" => jobStage'[j] = "none"
         /\ status'[j] \in Pending => jobStage'[j] = "waiting"
         /\ status'[j] = "success" => jobStage'[j] = "done"
         /\ status'[j] = "failed" => jobStage'[j] = "dead"
         /\ status'[j] = "running" =>
              jobStage'[j] = IF executors'[j] = {} THEN "orphaned" ELSE "held"
         /\ executors'[j] = {w \in Worker : Executing(w)' /\ wjob'[w] = j}
  BY DEF jobStage, executors

\* Both are columns: known when they are known for every job.
LEMMA BoardColumns ==
  /\ jobStage = [j \in Job |-> jobStage[j]] /\ jobStage' = [j \in Job |-> jobStage'[j]]
  /\ executors = [j \in Job |-> executors[j]] /\ executors' = [j \in Job |-> executors'[j]]
<1> DEFINE place(j) == CASE status[j] = "absent" -> "none"
                     [] status[j] \in Pending -> "waiting"
                     [] status[j] = "success" -> "done"
                     [] status[j] = "failed" -> "dead"
                     [] status[j] = "running" ->
                            IF executors[j] = {} THEN "orphaned" ELSE "held"
<1>0. jobStage = [j \in Job |-> place(j)] /\ jobStage' = [j \in Job |-> place(j)']
  BY Zenon DEF jobStage
<1>1. /\ jobStage = [j \in Job |-> jobStage[j]] /\ jobStage' = [j \in Job |-> jobStage'[j]]
  <2> HIDE DEF place
  <2>1. QED
    BY <1>0, Zenon
<1>2. /\ executors = [j \in Job |-> executors[j]] /\ executors' = [j \in Job |-> executors'[j]]
  BY DEF executors
<1>3. QED
  BY <1>1, <1>2

LEMMA SameHands ==
  ASSUME NEW j \in Job,
         \A v \in Worker : Executing(v)' /\ wjob'[v] = j <=> Executing(v) /\ wjob[v] = j
  PROVE  executors'[j] = executors[j]
<1>1. \A v : v \in executors'[j] <=> v \in executors[j]
  BY StageOf, StageOfNext
<1>2. executors[j] = {v \in Worker : Executing(v) /\ wjob[v] = j}
      /\ executors'[j] = {v \in Worker : Executing(v)' /\ wjob'[v] = j}
  BY StageOf, StageOfNext
<1>3. QED
  BY <1>1, <1>2

\* A job's place depends on its status and on who executes it.
LEMMA SamePlace ==
  ASSUME TypeOK, NEW j \in Job, status'[j] = status[j], executors'[j] = executors[j]
  PROVE  jobStage'[j] = jobStage[j]
  BY DEF jobStage, TypeOK

\* Who executes a job on time is the only one.
LEMMA HeldByOne ==
  ASSUME IInv, "late" \notin faults, NEW w \in Worker, Executing(w)
  PROVE  /\ wjob[w] \in Job /\ status[wjob[w]] = "running" /\ HoldsLease(w)
         /\ executors[wjob[w]] = {w} /\ jobStage[wjob[w]] = "held"
<1>1. wjob[w] \in Job /\ HoldsLease(w)
  BY ExecutedIsBorn, MarginMeansLease DEF ExecutesUnderLease, OwnLease
<1>2. status[wjob[w]] = "running"
  BY <1>1 DEF HoldsLease
<1>3. executors[wjob[w]] = {v \in Worker : Executing(v) /\ wjob[v] = wjob[w]}
  BY <1>1, StageOf
<1>4. \A v \in Worker : Executing(v) /\ wjob[v] = wjob[w] => v = w
  BY MarginMeansOne DEF OneExecutor
<1>5. executors[wjob[w]] = {w}
  BY <1>3, <1>4
<1>6. QED
  BY <1>1, <1>2, <1>5, StageOf

\* A step that moves no status and no execution leaves the board alone.
LEMMA BoardStutters ==
  ASSUME IInv, UNCHANGED <<status, faults>>,
         \A w \in Worker : /\ Executing(w)' <=> Executing(w)
                           /\ Executing(w) => wjob'[w] = wjob[w]
  PROVE  UNCHANGED Board!boardVars
<1>1. executors' = executors
  BY DEF executors
<1>2. jobStage' = jobStage
  BY <1>1 DEF jobStage
<1>3. QED
  BY <1>1, <1>2 DEF Board!boardVars

LEMMA PostStep ==
  ASSUME IInv, NEW n \in Nat, NEW b, Insert(n, b),
         UNCHANGED <<phase, wjob, faults>>
  PROVE  \E S \in SUBSET Job : Board!Post(S)
<1>1. PICK S \in SUBSET Job : S = lastId + 1 .. lastId + n
  BY QueueAssumption DEF IInv, TypeOK, Insert
<1>2. executors' = executors
  BY DEF executors, Executing
<1>3. \A j \in Job : status'[j] = IF j \in S THEN "queued" ELSE status[j]
  BY <1>1 DEF Insert
<1>4. \A j \in S : status[j] = "absent"
  BY <1>1, QueueAssumption DEF IInv, Unborn, TypeOK
<1>5. \A j \in S : jobStage[j] = "none"
  BY <1>4, StageOf
<1>6. \A j \in Job : jobStage'[j] = IF j \in S THEN "waiting" ELSE jobStage[j]
  <2> SUFFICES ASSUME NEW j \in Job
               PROVE  jobStage'[j] = IF j \in S THEN "waiting" ELSE jobStage[j]
    OBVIOUS
  <2>1. CASE j \in S
    BY <1>3, <2>1, StageOfNext
  <2>2. CASE j \notin S
    BY <1>2, <1>3, <2>2, SamePlace DEF IInv
  <2>3. QED
    BY <2>1, <2>2
<1>7. jobStage' = [j \in Job |-> IF j \in S THEN "waiting" ELSE jobStage[j]]
  BY <1>6, BoardColumns
<1>8. Board!Post(S)
  BY <1>2, <1>5, <1>7 DEF Board!Post
<1>9. QED
  BY <1>8

LEMMA TakeStep ==
  ASSUME IInv, "late" \notin faults, NEW w \in Worker, NEW j \in Job, Claim(w, j)
  PROVE  \E R, D \in SUBSET Job : Board!Take(w, j, R, D)
<1>1. PICK R \in SUBSET Job, D \in SUBSET Job :
         /\ R = {i \in Expired(w) : ReapedStatus(w)[i] = "retry_wait"}
         /\ D = {i \in Expired(w) : ReapedStatus(w)[i] = "failed"}
  BY DEF Expired
<1>2. ~Executing(w) /\ Executing(w)' /\ wjob'[w] = j
      /\ \A v \in Worker : v # w => (Executing(v)' <=> Executing(v)) /\ wjob'[v] = wjob[v]
  BY DEF Claim, Executing, IInv, TypeOK
<1>3. \A v \in Worker : Executing(v) => wjob[v] \notin Expired(w) /\ wjob[v] # j
  <2> SUFFICES ASSUME NEW v \in Worker, Executing(v)
               PROVE  wjob[v] \notin Expired(w) /\ wjob[v] # j
    OBVIOUS
  <2>1. wjob[v] \in Job /\ HoldsLease(v) /\ lease[wjob[v]] \in Int
    BY HeldByOne, ExecutedIsBorn
  <2>2. wjob[v] \notin Expired(w)
    BY <2>1 DEF HoldsLease, Expired
  <2>3. QED
    BY <2>1, <2>2 DEF HoldsLease, Claim, Claimable, ReapedStatus
<1>4. \A i \in Expired(w) : i \in Job /\ status[i] = "running" /\ executors[i] = {}
  BY <1>3 DEF Expired, executors
<1>5. \A i \in R \cup D : jobStage[i] = "orphaned"
  BY <1>1, <1>4, StageOf
<1>6. \A i \in Job : w \notin executors[i]
  BY <1>2 DEF executors
<1>7. j \notin D /\ (jobStage[j] = "waiting" \/ j \in R)
  <2>1. ReapedStatus(w)[j] \in Pending
    BY DEF Claim, Claimable
  <2>2. CASE j \in Expired(w)
    BY <1>1, <2>1, <2>2 DEF ReapedStatus
  <2>3. CASE j \notin Expired(w)
    <3>1. status[j] \in Pending
      BY <2>1, <2>3 DEF ReapedStatus
    <3>2. QED
      BY <1>1, <2>3, <3>1, StageOf
  <2>4. QED
    BY <2>2, <2>3
<1>8. executors' = [executors EXCEPT ![j] = {w}]
  <2>1. executors'[j] = {w}
    BY <1>2, <1>3, StageOfNext
  <2>2. \A i \in Job : i # j => executors'[i] = executors[i]
    BY <1>2, SameHands
  <2>3. QED
    BY <2>1, <2>2, BoardColumns
<1>9. \A i \in Job : status'[i] = IF i = j THEN "running" ELSE ReapedStatus(w)[i]
  BY DEF Claim, ReapedStatus
<1>10. \A i \in Job : jobStage'[i] = CASE i = j -> "held"
                                       [] i # j /\ i \in D -> "dead"
                                       [] i # j /\ i \in R \ D -> "waiting"
                                       [] OTHER -> jobStage[i]
  <2> SUFFICES ASSUME NEW i \in Job
               PROVE  jobStage'[i] = CASE i = j -> "held"
                                       [] i # j /\ i \in D -> "dead"
                                       [] i # j /\ i \in R \ D -> "waiting"
                                       [] OTHER -> jobStage[i]
    OBVIOUS
  <2>1. CASE i = j
    <3>1. status'[i] = "running" /\ executors'[i] # {}
      BY <1>8, <1>9, <2>1 DEF executors
    <3>2. jobStage'[i] = "held"
      BY <3>1, StageOfNext
    <3>3. QED
      BY <2>1, <3>2
  <2>2. CASE i # j /\ i \in D
    <3>1. jobStage'[i] = "dead"
      BY <1>1, <1>9, <2>2, StageOfNext
    <3>2. QED
      BY <2>2, <3>1
  <2>3. CASE i # j /\ i \in R \ D
    <3>1. jobStage'[i] = "waiting"
      BY <1>1, <1>9, <2>3, StageOfNext
    <3>2. QED
      BY <2>3, <3>1
  <2>4. CASE i # j /\ i \notin R \cup D
    <3>1. i \notin Expired(w)
      BY <1>1, <2>4 DEF ReapedStatus
    <3>2. status'[i] = status[i] /\ executors'[i] = executors[i]
      BY <1>8, <1>9, <2>4, <3>1 DEF ReapedStatus, executors
    <3>3. jobStage'[i] = jobStage[i]
      BY <3>2, SamePlace DEF IInv
    <3>4. QED
      BY <2>4, <3>3
  <2>5. QED
    BY <2>1, <2>2, <2>3, <2>4
<1>11. jobStage' = [i \in Job |-> CASE i = j -> "held"
                                    [] i # j /\ i \in D -> "dead"
                                    [] i # j /\ i \in R \ D -> "waiting"
                                    [] OTHER -> jobStage[i]]
  BY <1>10, BoardColumns
<1>12. faults' = faults
  BY DEF Claim
<1>13. Board!Take(w, j, R, D)
  BY <1>5, <1>6, <1>7, <1>8, <1>11, <1>12 DEF Board!Take
<1>14. QED
  BY <1>13

\* When w lets go of its job, the hands are empty and the rest is as it was.
LEMMA HandsEmptied ==
  ASSUME IInv, "late" \notin faults, NEW w \in Worker, Executing(w), ~Executing(w)',
         \A v \in Worker : v # w => (Executing(v)' <=> Executing(v)) /\ wjob'[v] = wjob[v],
         \A i \in Job : i # wjob[w] => status'[i] = status[i],
         NEW s, jobStage'[wjob[w]] = s
  PROVE  /\ executors' = [executors EXCEPT ![wjob[w]] = {}]
         /\ jobStage' = [jobStage EXCEPT ![wjob[w]] = s]
<1>1. wjob[w] \in Job /\ executors[wjob[w]] = {w}
  BY HeldByOne
<1>2. executors'[wjob[w]] = {}
  BY <1>1, StageOf, StageOfNext
<1>3. \A i \in Job : i # wjob[w] => executors'[i] = executors[i]
  BY SameHands
<1>4. executors' = [executors EXCEPT ![wjob[w]] = {}]
  BY <1>1, <1>2, <1>3, BoardColumns
<1>5. \A i \in Job : i # wjob[w] => jobStage'[i] = jobStage[i]
  BY <1>3, SamePlace DEF IInv
<1>6. jobStage' = [jobStage EXCEPT ![wjob[w]] = s]
  BY <1>1, <1>5, BoardColumns
<1>7. QED
  BY <1>4, <1>6

LEMMA ReturnStep ==
  ASSUME IInv, "late" \notin faults, NEW w \in Worker, WriteSuccess(w) \/ WriteRetry(w)
  PROVE  \E j \in Job, s \in {"waiting", "done", "dead"} : Board!Return(w, j, s)
<1>1. Executing(w)
  BY DEF WriteSuccess, WriteRetry, Executing
<1>2. wjob[w] \in Job /\ executors[wjob[w]] = {w} /\ jobStage[wjob[w]] = "held"
  BY <1>1, HeldByOne
<1>3. PICK t, d : t \in {"success", "failed", "retry_wait"} /\ WriteOutcome(w, t, d)
  BY DEF WriteSuccess, WriteRetry
<1>4. /\ status'[wjob[w]] = t /\ faults' = faults
      /\ \A i \in Job : i # wjob[w] => status'[i] = status[i]
  BY <1>2, <1>3 DEF WriteOutcome, IInv, TypeOK
<1>5. /\ ~Executing(w)'
      /\ \A v \in Worker : v # w => (Executing(v)' <=> Executing(v)) /\ wjob'[v] = wjob[v]
  BY <1>3 DEF WriteOutcome, Released, Executing, IInv, TypeOK
<1>6. PICK s : s = jobStage'[wjob[w]]
  OBVIOUS
<1>7. s \in {"waiting", "done", "dead"}
  BY <1>2, <1>3, <1>4, <1>6, StageOfNext
<1>8. /\ executors' = [executors EXCEPT ![wjob[w]] = {}]
      /\ jobStage' = [jobStage EXCEPT ![wjob[w]] = s]
  BY <1>1, <1>4, <1>5, <1>6, HandsEmptied
<1>9. Board!Return(w, wjob[w], s)
  BY <1>2, <1>4, <1>7, <1>8 DEF Board!Return
<1>10. QED
  BY <1>2, <1>7, <1>9

LEMMA DropStep ==
  ASSUME IInv, "late" \notin faults, NEW w \in Worker, Stop(w), Executing(w)
  PROVE  \E j \in Job : Board!Drop(w, j)
<1>1. wjob[w] \in Job /\ executors[wjob[w]] = {w} /\ jobStage[wjob[w]] = "held"
      /\ status[wjob[w]] = "running"
  BY HeldByOne
<1>2. /\ ~Executing(w)' /\ status' = status /\ faults' = faults
      /\ \A v \in Worker : v # w => (Executing(v)' <=> Executing(v)) /\ wjob'[v] = wjob[v]
  BY DEF Stop, Executing, IInv, TypeOK
<1>3. executors'[wjob[w]] = {}
  BY <1>1, <1>2, StageOf, StageOfNext
<1>4. jobStage'[wjob[w]] = "orphaned"
  BY <1>1, <1>2, <1>3, StageOfNext
<1>5. /\ executors' = [executors EXCEPT ![wjob[w]] = {}]
      /\ jobStage' = [jobStage EXCEPT ![wjob[w]] = "orphaned"]
  BY <1>2, <1>4, HandsEmptied
<1>6. Board!Drop(w, wjob[w])
  BY <1>1, <1>2, <1>5 DEF Board!Drop
<1>7. QED
  BY <1>1, <1>6

LEMMA BoardStep ==
  ASSUME IInv, [Next]_vars
  PROVE  [Board!Next]_(Board!boardVars)
<1> SUFFICES ASSUME "late" \notin faults'
             PROVE  Board!Next \/ UNCHANGED Board!boardVars
  BY DEF Board!Next, Board!Overrun
<1>1. "late" \notin faults
  BY FaultsStay
<1>2. CASE CreateJob \/ \E e \in Enqueuer : InsertBatch(e)
  <2>1. PICK n \in Nat, b \in 0..MaxJobs : Insert(n, b) /\ UNCHANGED <<phase, wjob, faults>>
    BY <1>2, QueueAssumption DEF CreateJob, InsertBatch
  <2>2. QED
    BY <2>1, PostStep DEF Board!Next
<1>3. CASE \/ \E e \in Enqueuer : EnqueueCheck(e)
           \/ UNCHANGED vars
  <2>1. UNCHANGED <<status, faults, phase, wjob>>
    BY <1>3 DEF EnqueueCheck, vars
  <2>2. QED
    BY <2>1, BoardStutters DEF Executing
<1>4. CASE \E e \in Enqueuer : EnqueueMisread(e)
  <2>1. UNCHANGED <<status, phase, wjob>> /\ faults' = faults \cup {"misread"}
    BY <1>4 DEF EnqueueMisread
  <2>2. executors' = executors /\ jobStage' = jobStage
    BY <2>1 DEF executors, jobStage, Executing
  <2>3. QED
    BY <2>1, <2>2 DEF Board!boardVars
<1>5. CASE Tick
  <2>1. UNCHANGED <<status, phase, wjob>> /\ faults' = faults
    BY <1>5 DEF Tick
  <2>2. QED
    BY <2>1, BoardStutters DEF Executing
<1>6. ASSUME NEW w \in Worker, WorkerStep(w)
      PROVE  Board!Next \/ UNCHANGED Board!boardVars
  <2>1. CASE \E j \in Job : Claim(w, j)
    BY <1>1, <2>1, TakeStep DEF Board!Next
  <2>2. CASE ClaimNothing(w) \/ Wake(w) \/ Restart(w)
    <3>1. /\ UNCHANGED <<status, faults, wjob>>
          /\ \A v \in Worker : Executing(v)' <=> Executing(v)
      BY <2>2 DEF ClaimNothing, Wake, Restart, Executing, IInv, TypeOK
    <3>2. QED
      BY <3>1, BoardStutters
  <2>3. CASE Heartbeat(w)
    <3>1. UNCHANGED <<status, faults, phase, wjob>>
      BY <2>3 DEF Heartbeat
    <3>2. QED
      BY <3>1, BoardStutters DEF Executing
  <2>4. CASE HeartbeatRaises(w)
    BY <2>4 DEF HeartbeatRaises
  <2>5. CASE \E p \in {"succeeding", "retrying"} : JobEnds(w, p)
    <3>1. PICK p \in {"succeeding", "retrying"} : JobEnds(w, p)
      BY <2>5
    <3>2. Executing(w) /\ HoldsLease(w)
      BY <1>1, <3>1, HeldByOne DEF JobEnds, Executing
    <3>3. /\ UNCHANGED <<status, faults, wjob>>
          /\ \A v \in Worker : Executing(v)' <=> Executing(v)
      BY <3>1, <3>2 DEF JobEnds, Executing, IInv, TypeOK
    <3>4. QED
      BY <3>3, BoardStutters
  <2>6. CASE WriteSuccess(w) \/ WriteRetry(w)
    <3>1. PICK j \in Job, s \in {"waiting", "done", "dead"} : Board!Return(w, j, s)
      BY <1>1, <2>6, ReturnStep
    <3>2. QED
      BY <3>1 DEF Board!Next, Board!Stage
  <2>7. CASE Stop(w) /\ Executing(w)
    BY <1>1, <2>7, DropStep DEF Board!Next
  <2>8. CASE Stop(w) /\ ~Executing(w)
    <3>1. /\ UNCHANGED <<status, faults>>
          /\ \A v \in Worker : /\ Executing(v)' <=> Executing(v)
                               /\ Executing(v) => wjob'[v] = wjob[v]
      BY <2>8 DEF Stop, Executing, IInv, TypeOK
    <3>2. QED
      BY <3>1, BoardStutters
  <2>9. QED
    BY <1>6, <2>1, <2>2, <2>3, <2>4, <2>5, <2>6, <2>7, <2>8 DEF WorkerStep
<1>7. QED
  BY <1>2, <1>3, <1>4, <1>5, <1>6 DEF Next

\* To those who post work the queue is the board: while heartbeats are on time a
\* job is in one pair of hands, leaves them by the worker's own answer or its
\* death, and does not come back once it has ended.
THEOREM QueueImplementsBoard == Spec => BoardSpec
<1>1. Init => Board!Init
  BY DEF Init, Board!Init, jobStage, executors, Executing
<1>2. IInv /\ [Next]_vars => [Board!Next]_(Board!boardVars)
  BY BoardStep
<1>3. QED
  BY <1>1, <1>2, QueueInvariant, PTL DEF Spec, BoardSpec, Board!Spec
=============================================================================
