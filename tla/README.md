# TLA+ models of realty-radar

realty-radar collects apartment listings of the Seoul metropolitan area from one
site (SITE_A), keeps them in MySQL, enriches them (mortgage details, coordinates)
and serves searches, loan checks and a map. This directory holds TLA+ models of
the parts of it in which several processes, threads, coroutines or transactions
meet, the TLC runs that check them and TLAPS proofs of what must hold for every
size of the system. Paths below are relative to `src/realty_radar/` of the
repository unless they start with `docs/`.

## 1. Inventory

| Part | State | Operations | Meets |
|---|---|---|---|
| Crawl queue (`application/crawl_job_service.py`) | table `crawl_job`: status, attempt, lease token and expiry, available_at, batch in the dedupe key | create_job, enqueue_metro_batch, claim_next_job (with the reaper), heartbeat, mark_success, mark_retry | workers, scheduler, web routes, CLI, through transactions |
| Worker (`worker/runner.py`) | loop position, the claimed job, a heartbeat task | run, _heartbeat, stop | queue; one event loop for job and heartbeat |
| Dong collection (`application/crawl_pipeline_service.py`, scopes in `crawl_job_service.py`) | table `crawl_scope`; lifecycle, miss_count, last_seen_job_id of `listing_current` | open_scope, record_page, fail_scope, complete_scope, execute_job | collector, writer, other jobs on the same dong |
| Bounded writer (`application/async_batch_writer.py`) | queue.Queue(2000), the thread's batch, `_failure`, control events | submit, flush, aclose, `_run` | coroutines and one thread |
| Batch commit (`application/listing_batch_writer.py`) | `listing_current`, `complex_current`, `listing_history`, job counters | commit_batch, _increment_job_counts | lifecycle, geocoding, enrichment |
| Page collector (`crawler/adapters/site_a/adapter.py`) | asyncio.Queue of pages, up to 32 coroutines, the partial flag | collect_dong | HTTP client, writer |
| HTTP client (`crawler/adapters/site_a/http_client.py`) | session generation, circuit deadline, adaptive limit | get_json, _refresh, permit | all requests of the process |
| Detail enrichment (`application/mortgage_enrichment_service.py`) | detail_claim_token, detail_claimed_at, detail_checked_at of a listing | _claim_batch, _run_batch, _release_claims | job end, nightly sweep, batch commit |
| Geocode backfill (`enrichment/naver_maps/backfill.py`) | geocode status, coordinates, retry time of a complex | run, run_geocode_sweep | batch commit (address changes) |
| Listing search (`application/listing_search_service.py`) with the loan rules (`domain/loan/`) | none of its own: cursors handed to the client | search, paging forwards and back, runtime filters | the tables above, read only |
| Map (`application/listing_map_service.py`, `infrastructure/cache/`, `web/static/listing-map.js`) | viewport cache with a TTL; in the page: request ids, pending flags, viewport keys | build_viewport; requestMapData, requestCards | browser events, answers out of order |
| Scheduler (`scheduler/`) | cron jobs at 05:30, 06:00 and 23:00, log rows | enqueue, geocode sweep, detail sweep | queue, geocoding, enrichment |
| Accounts, settings, forms, templates (`web/`) | user rows, preferences | one request, one transaction | |
| Parser, region codes, public data, matching, analytics | none | pure functions and HTTP wrappers | |

What is hard here: jobs that outlive their lease; statements that read without a
lock and write later; a claim that commits the reaper's work only by the way; a
thread that fails while others wait for it; worker coroutines that nobody
watches; two jobs on one dong; retries that meet what an earlier attempt left; a
walk through pages of a list that changes; limits written down in two places;
coordinates that arrive after the address has gone; timers and answers of a page
that overtake each other.
`PROJECT.json` lists each of these under `hazards`, at its line, with the
properties that are about it.

## 2. Modules

    JobBoard            what the queue promises (abstract)
       ^  refined by          ^ instantiated by
    CrawlQueue               DongLifecycle      BatchWriter   PageCollector   DetailClaims
       ^ extended by             ^ extended by
    MCCrawlQueue             MCDongLifecycle

    GeocodeSweep             MapPage       ListingSearch       LoanRules       HttpClient
       ^ extended by            ^               ^                  ^
    MapViewport              MCMapPage     MCListingSearch     MCLoanRules
       ^
    MCMapViewport

CrawlQueue, DongLifecycle, BatchWriter, PageCollector, DetailClaims and HttpClient
each have a module of theorems that extends them (`CrawlQueueProofs` and so on).
`MapProofs` extends MapPage and MapViewport, and with it GeocodeSweep: the two halves
of the map. `SearchProofs` extends ListingSearch and LoanRules: the search and the
rules it filters with.

**JobBoard** is the abstract queue: jobs are posted, taken by one worker, given
back or dropped by a worker that dies; nobody takes a job from a live worker. Once
some worker has overrun its heartbeat (`late`) it promises nothing more.

**CrawlQueue** models `crawl_job` column by column (`status`, `attempt`, `token`,
`lease`, `due`, `batch`) and the position of every worker in `run()` (`phase`,
`wjob`, `wtoken`, `hb`, `age`). Time is counted in ticks and timestamps are kept
as distances from now. One SQL statement (with the locking SELECT that feeds it)
is one action. Where the code reads without a lock and writes later there are two:
`JobEnds` reads the lease and `WriteSuccess`/`WriteRetry` write the row by its
key; `EnqueueCheck` looks for an active batch and `InsertBatch` inserts one.
`ClaimNothing` keeps the reaped rows locked until `Wake` closes the session and
rolls them back, which is what the early return of `claim_next_job` does.
`HeartbeatRaises` ends the worker when its job ends, as the re-raise in the
`finally` of `run()` does.

**DongLifecycle** follows one dong through all jobs that collect it. Workers take
and return jobs by the actions of JobBoard (`Board == INSTANCE JobBoard`), so what
the queue promises, by its refinement, is what this module may use, without leases and
heartbeats, and `VisitTaken` lets a second
worker take a job from a late one. The rows of the dong are `life`, `miss` and
`seenBy`; `scope` is the status of `crawl_scope`; `buffer` is what a worker's
writer has not committed. The other dongs of a job are there through what they can
do to this one: cancel the visit (`GiveUp`), or have the job retried although this
dong was done (`Outcome`). When the aging fails (`AdvanceRaises`), the COMPLETE flushed
before it may still be stored, by the next commit of the session the job shares. `sighted`, `missedBy` and `faults` are history.

**BatchWriter** is the producer/consumer protocol of BoundedBatchWriter. Clients
share an event loop, so only one of them is between `_raise_if_failed` and
`put_nowait` (`between`); the thread may act there. Rows and counters are two
transactions, and `CommitFails(saved)` says which of them failed.

**PageCollector** is collect_dong: items in the page queue, the count of
unfinished ones that join() waits for, worker coroutines that fetch, queue the
next page, submit and end when something raises, and collect_dong itself with the
`finally` that sends the Nones. `pages` is how many pages SITE_A has. Rows are
abstracted to their page: an article the parser rejects is dropped without a trace in
the verdict about the dong.

**DetailClaims** is the enrichment runner: the claim (`Claim`, one transaction
that selects and updates), the requests of a batch answered in any order
(`Fetched`, or `Refused` when the session or the circuit ends the run), and the
writing transaction in its two halves, the snapshot it decides from (`ReadBack`)
and the fenced updates with the commit (`WriteBack`). A claim token is a fresh
uuid for every run, so in the model it is the runner's name while the run lasts
and `Gone` afterwards; that keeps the state finite without a bound on the number
of runs. The semaphore of a batch only limits how many requests are out at once
and is left out.

**HttpClient** is the session that all requests of a process share. A call of
get_json is at one of its awaits (`at`: permit, sent, backoff, lock, bootstrap) and
carries the generation it has noted, the refusals it has refreshed for and its
retries. Coroutines change places only at awaits, and the limiter's condition is
never held across one, so a permit is taken in the step that asks for it unless the
limit is reached. `used`, `refusedBy` and `outdated` are history: the session a
request went out with, those that refused the call, and whether it ever went out
with another one than it had noted.

**GeocodeSweep** is the table `complex_current` as the sweep sees it: address,
status, coordinates and whether the retry time has passed. A batch of the sweep is
two steps: `LoadBatch` reads the due complexes without a lock and gets its answers,
`CommitBatch` writes the columns that differ from what was read, by primary key, so
that `AddressChanges` (the upsert of the crawler) can come between them. Death
between the steps rolls the batch back. One sweep runs at a time: the cron job does
not overlap itself, and an operator who starts the script beside it is left out.
The geocoder is external: an address has one place, or none, or the call fails.

**MapViewport** extends it by the map service. `SqlViewport` and `StreamViewport`
are the two ways the code builds one answer: by grouping in SQL, and, when Python
has to judge every row, by summing up a stream. Places are in thousandths of a
degree; averages are represented by sum and count.

**MapPage** is `listing-map.js` with the cache of the service behind it. The state
is the map (`at`, `motion`), the flags of the instance, and for the two kinds of
request, map data and cards, the timer, the last key, the request under way and the
sign that one is pending. An answer is represented by what it answers: a viewport
and a query. A query is the set of filters it sets; a request asks for the
parameters of the base URL joined with those of the form, as `requestUrl` builds
it. Since the cache is everybody's, `MapAnswer` may bring the answer to any query
with the same `CacheKey`. A timeout of 0 ms is over before the user acts again, and
one search at a time is under way, as `hx-sync="this:replace"` has it. A request
that was aborted or superseded is forgotten: its answer fails the test of its id.
`Submit` is the handler as it runs: its first statement asks a WeakMap for a forEach and
raises, so that of a submit only the search of htmx is left, and what the page does for
a new query it does when the search is swapped in (`NewQuery`). The map starts close
enough for a list (INITIAL_ZOOM is 11). History navigation,
paging links and the listings of the modal are left out.

**ListingSearch** is `_run_search` in its four forms, rows or complexes, plain or
judged in Python. `KeysetPage` is the plain page and its two cursors, `ScanRows`
the scan of candidates that several SQL statements return in batches, and
`ScanGroups` the scan of complexes in the order of their cheapest candidates, whose
cursor carries a second anchor. A scan is a loop, and one turn of it an operator:
`ReadCandidates` and `ReadGroups`. A request is one transaction with one snapshot
(REPEATABLE READ), hence one step. Between requests rows change (`CrawlChanges`)
and profiles (`EditProfile`), and cursors are refused by their fingerprint. Which
rows satisfy the SQL conditions of the filters (`_filtered_rows`) is the variable
`listed`; metadata queries are left out.

**LoanRules** holds the products of `evaluator.py`, the candidate plan with the two
forms it is written in, and affordability. Its only state is the profile, any one
at the start and any that the settings form can give later (`SaveProfile`); the
properties are about pure functions, at every combination of the boundaries. `evaluate_neonatal_rent` is modelled although no caller in the
application uses it; the plan has limits for it.

Left out everywhere: logging, labels, counters that only feed reports, and
columns no modelled decision reads. `removed_at` is one: the program writes it
and reads it nowhere.

## 3. Runs

For each property of a passing run `PROJECT.json` names a mutation of the model,
shaped like a slip in the code, that TLC finds. The type invariants
are stated in the modules; they are proved, as parts of the inductive invariants of
section 4, and are in no run of their own.

| Run | Bounds | What it shows |
|---|---|---|
| queue_safety | 2 workers, 1 enqueuer, 2 jobs, 2 attempts, lease 2, beat 1, back-off up to 2, 2 stops | without a late heartbeat an execution holds its lease (`ExecutesUnderLease`) and is alone (`OneExecutor`); `LeaseRow`, always; ends are final (`EndIsFinal`); one active batch with one enqueuer whose reads succeed (`OneActiveBatch`); the queue implements the board (`BoardSpec`) |
| queue_liveness | 2 workers, 2 jobs, 1 stop, fair | waiting jobs are claimed (`PendingIsClaimed`), orphans with attempts left do not stay RUNNING (`OrphanIsRetried`) |
| lifecycle_safety | 3 jobs, 2 workers, 1 listing, 2 attempts, 1 repeated claim | removal needs two different jobs (`RemovedAfterTwoJobs`); a failed scope never ages (`FailedDongNeverAges`); a visit that is alone never ages what it saw (`AgesOnlyUnobservedAlone`) |
| writer_fair | 2 tasks, 2 rows each, queue 2, batch 2, fair | order and completeness of what is stored, what a flush or a close means, and that waiting ends |
| collector_fair | 3 complexes of 1-3 pages, page cap 2, 2 workers, fair | a dong that is not partial was read whole (`CompleteMeansEveryPage`); nobody is left behind (`ReturnLeavesNobody`); it ends, unless the last worker raises while an item is queued (`CollectionEnds`) |
| detail_claims | 3 listings (one of which leaves the site and returns), batches of 2, 2 batches per sweep, expiry after 1 tick, one runner of each kind, fair | details are stored once although claims run out under a slow runner (`CheckedOnce`); a live claim is exclusive (`ClaimHolds`); only a death leaves claims behind (`OnlyDeathLeavesClaims`); failing listings starve no other (`UncheckedIsTriedAgain`) |
| http_client | 3 requests, limit 1 to 2, 1 retry, 2 sessions, a success raises the limit, fair | a session is renewed only on the word of a request it refused, or by a call that came before there was any (`NewSessionIsKept`); a refused request is repeated with another session (`RepeatedWithNewSession`); a lowered limit is reached (`LimitTakesHold`) and no way out of a request keeps a permit or the lock for good (`SomeCallEnds`) |
| loan_rules | all profiles over 10 incomes, 0-2 children and the six flags; 2 trade types, 8 prices, 4 areas | every listing the evaluator accepts is an SQL candidate (`CandidatesCoverEligible`), the SQL condition is the plan (`ConditionIsThePlan`), every affordable listing is within the price bound (`CandidatesCoverAffordable`) |
| listing_search | 4 rows in 3 complexes, 2 sort values, pages of 1, batches of 2, 2 statements that overlap in a row, 1 change | the pages are the sorted list, cut (`WalkIsTheList`); what is left alone is shown once though other rows change (`StableShownOnce`); the link back leads back (`PreviousLeadsBack`) |
| map_viewport | 2 complexes, 2 addresses, 3 articles, batches of 1, 2 batches and 2 requests per sweep, 1 move, 1 death, zooms of all four modes, fair | the two viewports agree (`SqlAndStreamAgree`), counts add up at each zoom (`NothingIsLostOnTheMap`), markers stand at their address (`MarkersStandAtTheirAddress`), each complex is tried (`PendingIsAttempted`) |
| map_page | 2 close viewports and 1 far one, 2 filters of which the key holds 1, 3 things the user does (moves, edits, submits, clicks), fair | at rest the page shows the map (`SettledMapShowsViewport`) and the list (`SettledListShowsViewport`) of its viewport and query, and it comes to rest (`PageSettles`) |

The bounds are the smallest at which everything named in the hazards happens: a
second worker to take over, a second attempt to be the last one, a lease longer
than the beat by the one tick that separates them, a third job because removal
takes two misses after a sighting, a queue and a batch that fill up, a complex
longer than the page cap, more complexes than workers, a third request because two can never stay above a limit
of one, a page and a batch smaller than the list, prices and areas at the limits
and between them, a move between two others. TLC's action coverage shows that every action fires. The
constants `MaxJobs`, `Horizon` and `MaxStops` of CrawlQueue, `MaxRepeats` of
DongLifecycle, `MaxSessions` of HttpClient, `MaxMoves` and `MaxDeaths` of GeocodeSweep,
`MaxChanges` of ListingSearch and `MaxOps` of MapPage are bounds of the model, not of
the code.

Deadlock checking is off in lifecycle_safety (the finite set of jobs runs out), in
collector_fair (collect_dong returns, or hangs as `ErrorGetsOut` says it must not)
and in map_page (the user stops). writer_fair ends when the job has closed its
writer.

One run is expected to fail. queue_batch_stuck: a job that dies on its last attempt
stays RUNNING while the queue is otherwise empty, since the reaper's verdict is
rolled back each time, and so its batch stays active and blocks the daily one.

More departures of the code from what it or its documents say are stated in the
modules and belong to no run; TLC refutes each of them when it is put in place of
the properties of the configuration named here. `findings` in `PROJECT.json` quotes
both sides (`OnlyRefusedSessionsGo` is no finding: nothing in the repository says it).

| Claim | Configuration | What the code does |
|---|---|---|
| `NoDuplicateOnGoodReads` | CrawlQueue_safety, with 2 enqueuers | check-then-insert lets two enqueuers make two active batches |
| `ClaimIsExclusive` | CrawlQueue_safety | a worker told that its lease is lost goes on executing |
| `AgesOnlyUnobserved` | DongLifecycle_safety | two jobs on one dong overwrite each other's `last_seen_job_id`, and one ages a listing it has seen |
| `FailureIsReported` | BatchWriter_fair | a failed commit leaves a flush or a close waiting for ever |
| `JobAgesOnce` | DongLifecycle_safety | a deadlock takes the flushed COMPLETE with it, the aging is committed alone, and when the job is retried it ages the listing again: removed after one job |
| `ErrorGetsOut` | PageCollector_fair | when every request raises, join() waits for the complex no worker has reached; with 32 workers that takes a dong of 33 complexes, or one worker whose next page is queued when its rows are refused |
| `RefusalIsOfRefreshedSession` | HttpClient_fair | a request that paused while another one renewed the session gives up, or opens the circuit, although the session that refused it was never refreshed |
| `OnlyRefusedSessionsGo` | HttpClient_fair | calls that find no session obtain one each, in turn, and throw away the one just obtained |
| `NoMarkerAtAnOldAddress` | MapViewport_sweeps | a sweep that loaded a complex before its address changed stores the old place as OK |
| `MapShowsNewestViewport` | MapPage_rest | a timer outlives the rest it was set at and stores newer data under an older key |
| `ListIsOfTheViewport` | MapPage_rest | a search of an unchanged query leaves the unbounded list under the heading of the viewport |
| `SubmitAsksAgain` | MapPage_rest | the submit handler raises before it forgets a key or asks for anything |
| `MapIsOfTheQuery` | MapPage_rest | the cache key leaves out the applicant and several filters |

Two remarks from reading, not modelled: a grouped search sorted by the year of
construction looks up a sort column the grouping does not have
(`listing_search_service.py:238` and `:522`), which raises KeyError; and the SQL
lifecycle update stamps `removed_at` from the lifecycle already written in the same
statement.

### Provisos

`late` is set when an execution is still going past the time of a heartbeat, or a
heartbeat failed: the job's synchronous database calls hold the event loop the
heartbeat runs on, so this can happen, and leases protect nothing from there on.
`misread` is set when the progress read of an enqueue failed and was taken for "no
batch". `overlap` and `deadlock` are set when two jobs were in the dong at once and
when MySQL reported a deadlock in complete_scope. `outdated` is set when a request
is sent with another session than its call has noted. `CameFirst` is a call that got in
while there was no session and is still asking for its first; `Stranded` a collection
whose workers have all raised while an item is queued. `disturbed` is set when an
address changes while a sweep has its complex loaded. `late` of MapPage is set when a
timer fires after the map was moved from where it was set. An answer is `clean` when
the form held the query of the page at the time of the request: what an edited form
that was not searched adds to a request is its user's doing. `back` and `touched` of
ListingSearch are history: has the walk taken a step back, and which rows has the
crawl changed since it began. Each proviso of a property names one of these, and the
table above shows why it is needed.

### Fairness

- CrawlQueue `FairSpec`: a running worker process goes on (weak fairness of its
  steps; the loop has no step that waits for another process, except for row locks
  that a poll holds for its sleep), and time passes. Crashes are not fair and are
  bounded; a stopped worker is restarted by its supervisor.
- BatchWriter `FairSpec`: the writer thread and the event loop run. Whether a commit
  fails, a task raises or is cancelled is open.
- PageCollector `FairSpec`: the event loop runs, and every request is answered or
  times out (the client has timeouts of 5 and 15 seconds). Nobody has to cancel.
- HttpClient `FairSpec`: the event loop runs, requests are answered or time out and
  the browser, which has timeouts too, gives a session or fails. New calls, job
  starts and cancellations are open.
- DetailClaims `FairSpec`: the scheduler goes on starting sweeps, a sweep goes on
  (its requests end, as above), and time passes. Nothing is assumed of runs at job
  ends. A sweep that is refused or dies each time starves listings, and the
  property says so. `MaxBatches` times `BatchSize` covers the listings, as 50 times
  100 does unless more than 5,000 listings fail for good.
- MapViewport `ViewportSpec`: the cron job goes on starting sweeps, by whose time every retry time has
  passed, and a sweep goes on with its batches. Deaths are bounded and address changes are
  open; nothing else is assumed.
- MapPage `Spec`: the browser runs its timers, a fetch ends in an answer or an error,
  and a map that was moved reports that it rests. Nothing is assumed of the user.

## 4. Proofs

Every invariant and every action property of the passing runs is a theorem. What is
left to TLC is liveness; the table at the end of this section lists it.

### Crawl queue

`CrawlQueueProofs` proves for every number of workers, jobs and attempts, every
finite set of enqueuers and every lease and beat with `Beat < Lease`:

- `TypeCorrect`: Spec => []TypeOK
- `RunningRowsAreLeased`: Spec => []LeaseRow
- `ExecutionIsLeased`: Spec => []ExecutesUnderLease
- `ExecutionIsExclusive`: Spec => []OneExecutor
- `EndsAreFinal`: Spec => EndIsFinal
- `BatchesDoNotOverlap`: Spec => []OneActiveBatch
- `QueueImplementsBoard`: Spec => BoardSpec

The first five follow from `QueueInvariant` (Spec => []IInv). `OneExecutor` is not
inductive by itself: that two workers hold different leases follows from their
tokens, and that a lease cannot run out under its holder from the distance between
the age of the heartbeat and what is left of the lease. `IInv` says so: besides
`TypeOK` and `LeaseRow`, rows not yet inserted are blank (`Unborn`), a worker that
executes has a job and a token not newer than the row's last claim
(`WorkerShape`), two executions of one job differ in their tokens
(`TokensDiffer`), and, while nobody was late, the lease of an execution is at
least `Lease - age` (`Margin`). The proof has a lemma per action and, for the
actions that change many columns, one for the columns before the invariant.

`OneActiveBatch` needs `LatestOnly` besides: no job is of a later batch than an
active one, and once an enqueuer has passed its check no batch is active. It is
preserved because, on time, a job that has ended does not come back (`NothingRevives`),
and because with one enqueuer nobody else inserts between the check and the insert.

`QueueImplementsBoard` is the refinement step by step: the initial rows are an empty
board; an insert posts, a claim takes and sorts out the orphans the reaper has found, a
written outcome returns, a stop in the middle of a job drops, the step that makes
somebody late is an overrun, and everything else leaves the board alone. That a claim
finds nobody holding the job is `Margin`, and that the one who returns or drops it holds
it alone is `OneExecutor`.

### Detail claims

`DetailClaimsProofs` proves for every set of listings and of runners, and every
batch size, number of batches and expiry:

- `StoredOnce`: Spec => []CheckedOnce
- `ClaimsHold`: Spec => []ClaimHolds
- `ClaimsAreGivenBack`: Spec => OnlyDeathLeavesClaims
- `TypeCorrect`: Spec => []TypeOK
- `ClaimsStayFew`: no runner has more listings claimed than a batch holds

They follow from `ClaimInvariant` (Spec => []DInv). `ClaimHolds` alone is not
inductive: that a claim in time cannot be taken over needs the row to be exactly
as old as the batch (`OwnRows`), and that no claim is left behind needs every row
still held at the write to be among the answers (`Answered`, from
`ReadBack`). `SizeInvariant` adds the sizes: ORDER BY and LIMIT return at most as many as they should, because the
number of lower ids tells one row from another (`LowestAreFew`), the second of the two
statements of a claim takes what the first left of the limit (`CandidatesAreFew`), and so
the cursor, the largest id of a finite batch that is not empty, is one of its listings.

### Dong lifecycle

`DongLifecycleProofs` proves for every set of jobs, workers and listings and every
number of attempts:

- `RemovalTakesTwoJobs`: Spec => []RemovedAfterTwoJobs
- `FailedScopesAgeNothing`: Spec => FailedDongNeverAges
- `VisitsAgeOnlyUnobserved`: Spec => AgesOnlyUnobservedAlone

They follow from `LifecycleInvariant` (Spec => []IInv). That two jobs have missed a
removed listing is not inductive: a job could age it twice. `IInv` says why it does
not. While nobody is late a job is in one pair of hands (`OneHolder`), so that the
scope its worker read before the completion is still pending when it closes it
(`OpenWhileAdvancing`), and a job that has aged a listing has closed its scope
(`AgedOnceByEach`), which never opens again. `VisitsAlone` serves the third: without an overlap,
what a visit has sighted is in its buffer or still carries its job's id, and the
buffer is empty before the completion. That the lifecycle may be looked at on the board
is no theorem of this module, which takes and returns jobs by the board's own actions,
but `QueueImplementsBoard` of the queue.

### Writer and collector

`BatchWriterProofs` proves for every set of tasks and every number of rows, queue
size and batch size:

- `StoredRowsAreThoseAccepted`: Spec => []StoredIsPrefix
- `FlushKeepsItsPromise`: Spec => []FlushMeansStored
- `CloseKeepsItsPromise`: Spec => []CloseMeansAllStored

A control is answered long after it was put, and what it vouches for depends on where
in the queue it stood. The invariant (`WriterInvariant`) therefore says that there is a
count `seen[q]`, the accepted rows the thread has when it has taken the first `q`
items; each row of the queue is the next accepted one, and each control comes after
the rows it vouches for (`QueueLast`). With it go the rows stored and held, which are
the first of those accepted in their order (`StoredFirst`, `BatchNext`), the control
being served (`ServedRight`), those answered (`AnsweredRight`), what tasks and
execute_job know of themselves (`TaskShape`, `MainShape`), and all of it only while
nothing has failed (`Sound`): after a failure only the prefix is left, and no flush or
close returns.

`PageCollectorProofs` proves for every finite set of complexes, every page limit and
every number of workers:

- `CompleteDongIsWhole`: Spec => []CompleteMeansEveryPage
- `NobodyIsLeftBehind`: Spec => []ReturnLeavesNobody

join() knows a number only. `CollectorInvariant` says what the number counts, the
items that wait and the workers that work on one (`Counted`), so that neither is left
when it is zero; and that, unless the dong is partial or a worker has raised, each
page is submitted, being submitted, or still asked for, by itself or after an earlier
page of its complex that waits or is fetched (`NoPageForgotten`). The next page is put
before the present one is done, which is why the count cannot be zero in between.
After join() there are only Nones, one per worker that has not returned
(`OnlyNones`), and each worker takes one.

### HTTP client

`HttpClientProofs` proves for every set of requests, and any limits, retries and
sessions:

- `SessionIsThrownAwayOnRefusalOrAtFirst`: Spec => []NewSessionIsKept
- `RefusedIsRepeatedWithNewSession`: Spec => []RepeatedWithNewSession
- `LimiterCountsWhatIsOut`: the permits taken are the requests that are out, and at
  most `MaxLimit`, however they end

`ClientInvariant` follows one call from await to await: it notes no session newer than
the present one, is sent with the one it has noted or a later one, and when it waits
for the lock with the present session noted, that session has refused it, and when it
notes none it has never been sent (`Renewing`).
The present session can change only under the lock, which has one holder
(`OneRenews`).

### Map viewport and geocode sweep

`MapProofs` proves for every finite set of complexes and articles, any places, prices,
regions and zooms from 0 to 21, and any size and number of batches:

- `SqlAndStreamAgreeHolds`: ViewportSpec => []SqlAndStreamAgree
- `NothingIsLostHolds`: ViewportSpec => []NothingIsLostOnTheMap
- `MarkersStandHolds`: ViewportSpec => []MarkersStandAtTheirAddress
- `QuotaKeptHolds`: the requests made and those of the batch under way are never more
  than a sweep may make
- `CoordinatesStayHolds`: coordinates once found stay until the address changes, even
  when other addresses change under a batch

`MapInvHolds` (ViewportSpec => []MapInv) is the invariant. That a marker stands at its
address is not inductive: a batch writes what it found for the address it had read.
`SweepInv` therefore speaks of the batch too. What it has loaded and found has its types
and fits the quota (`BatchFits`); coordinates go with the status OK, and no complex of a
batch is located (`PlacedWhenOK`), which is also why a stale batch takes no coordinates
away; and while no address has changed under a batch, its rows are those of the table and
its results are the places of their addresses (`PlacedRight`).

The other two are about functions of a finite set. The definitions sum by folds and
recursive functions, and are unfolded by an induction that needs no operator as a
parameter: a set of numbers has a least element (from `NatLessThanWellFounded`), so a
set of good numbers that has 0, and n + 1 with every n, has all (`NumbersByInduction`);
for finite sets, by their size (`SetsByInduction`). With these a sum is additive over
disjoint sets and over groups (`SumDisjoint`, `SumByGroups`), and the stream holds, after
every number of rows, what GROUP BY gives of those rows (`SummariesAre`). That nothing is
counted twice needs that clusters of different cells have different ids: the western and
southern edge of a cluster are coordinates of its members, and so are in its cell
(`CellsCountMarkers`).

### Map page

`MapProofs` also proves for any viewports and filters, any part of the filters in the
cache key and any number of things the user does:

- `MapFollowsTheViewport`: Spec => []SettledMapShowsViewport
- `ListFollowsTheViewport`: Spec => []SettledListShowsViewport

At rest nothing is under way; the invariant (`PageInvariant`) has to say what is true
before. A map or a list that wants something has it, or has a timer or a request that
will bring it, or has failed; and a request for another viewport is followed by a timer
that asks again (`Follows`). The last key is that of what is shown (`KeysOK`), so that a
refresh that is skipped for an unchanged key skips nothing, and a request that is not
for where the map is has no last key before it (`AsksForHere`), because a search in the
middle of a drag forgets it. What is shown or asked for is of the last search, unless the
form had run ahead of it (`AsksForBase`).

### Listing search

`SearchProofs` proves for every finite set of rows, any complexes and sort values, any
statements that overlap in any way, every page size, batch size and number of changes,
and for each kind of search:

- `WalkIsTheListHolds`: Spec => []WalkIsTheList
- `PreviousLeadsBackHolds`: Spec => PreviousLeadsBack
- `StableShownOnceHolds`: Spec => StableShownOnce

The ground is laid in four steps.

1. *Keys in order.* `InOrder` picks for each position the key with so many before it.
   Different keys have different numbers before them, so each number occurs once
   (`InOrderSorts`), and no other sequence is sorted (`SortingIsInOrder`). What comes after the m-th key is the rest of the
   sequence (`AfterInOrder`), and before it, in the other direction, the beginning
   reversed (`BackInOrder`).
2. *The scans.* The overlapping statements, each limited, merged and cut, give the next
   candidates of all (`CandidateBatchIs`). A scan of rows that goes on has found
   everything wanted that it has passed (`RowScanInv`), so that it ends with what one sort
   would give (`ScanRowsIs`): each turn passes a candidate, and there are no more than
   rows. The scan of groups goes in another order than it shows. It may stop when no group
   still to come can be among the first (`GroupScanInv`, by `RawComesFirst`: what is shown
   of a complex is never ahead of its candidates).
3. *A page is cut from what is offered* (`CutFrom`). By one keyset that is all matches
   after the anchor (`KeysetPageIsCut`). For scanned groups it is those of them the scan
   can come upon from its own anchor, and the next anchor, the key before the first group
   that is left over, is one from which everything left is come upon again
   (`NextScanAnchorIs`, `GroupPageIsCut`).
4. *Putting pages together.* `FlattenIs` unfolds the sequence that FlattenSeq builds, by
   the same induction over numbers as in `MapProofs`; the loops of step 2 need it too.

`SearchInvHolds` (Spec => [](StateOK /\ WalkInv)) is the invariant of a walk that nothing
disturbs. The property says only that the pages are the list so far; the invariant says
why the next one continues it: page i is the piece of the list from position
`PageSize * (i - 1)`, and the cursors of the present page are those of its two neighbours
(`Stands`, `PageShows`). The link back has to look a whole page and one item back, or be
the first page.

`ReaderInvHolds` (Spec => [](StateOK /\ ReaderInv)) is that of a reader who goes only
forward while the crawl changes rows. Positions mean nothing then, but keys do: of what
the crawl left alone, which has the key it had (`CrawlKeeps`), the reader has seen exactly
what is not after the cursor, each once, and a scan from the second anchor will come upon
the rest (`Reads`). This needs that the profile is the one the walk began with, where rows
are judged by it; the cursor carries its fingerprint (`CursorInv`), and profiles only
count up, so that a cursor of the old one is refused.

### Loan rules

`SearchProofs` also proves, of LoanRules, for every profile (or none), every listing and any annuity
formula:

- `LoanSearchLosesNothing`: LoanSpec => []CandidatesCoverEligible
- `PlanIsWrittenTwice`: LoanSpec => []ConditionIsThePlan
- `PriceBoundLosesNothing`: LoanSpec => []CandidatesCoverAffordable

The run has the boundaries of today's limits; the theorems have every amount. A
lemma per product names the limits it contributes to the plan and shows that an
eligible listing is within them (`DidimdolHasLimits` and the others); the branch
takes the largest of each limit, so a lemma about Max (`MaxOfLimits`) carries the
bound over (`SaleBranchCovers`, `RentBranchIs`). The two writings of the plan treat a
listing of the capital area differently, and agree because no product's limit is
lower there than elsewhere. No product lends more than the bound on the price
assumes (`LoansAreBounded`), whatever is selected (`SelectedIsBounded`).

### Assumptions

What the proofs take for granted of the constants is stated in the modules, and TLC
evaluates it in the runs: `QueueAssumption` (natural numbers, finitely many enqueuers, a
beat shorter than the lease: 15 s and 60 s in the code) and `BackoffAssumption` (the
delay is between one tick and its cap), `LifecycleAssumption` (the mark for "no job" is no
job; at least one attempt), `WriterAssumption` (execute_job is not one of its tasks;
positive queue and batch), `CollectorAssumption` (finitely many complexes and at least
one, positive page limit and worker limit), `DetailAssumption` (disjoint names, positive
sizes), `HttpAssumption` (the start of a job is not a request; limits in order),
`MapPageAssumption` (the key holds some of the filters; "nothing" is neither a viewport
nor a request), `SweepAssumption` (finitely many complexes; an address has one
place; positive sizes), `ViewportAssumption` (finitely many articles, each in a complex;
regions and prices are numbers), `SearchAssumption` (finitely many rows, each returned by
at least one statement; positive sizes; "none" is neither a key nor a cursor) and
`LoanAssumption` (profiles and rows have their types).

The invariants above were checked by TLC as invariants of the runs' configurations
before they were proved.

### Only model-checked

| What | Why |
|---|---|
| `PendingIsClaimed`, `OrphanIsRetried`, `AnswersCome`, `CollectionEnds`, `UncheckedIsTriedAgain`, `LimitTakesHold`, `SomeCallEnds`, `PendingIsAttempted`, `PageSettles` | liveness under fairness |

## 5. What is not modelled, and the plan

Not modelled: HTML and forms, the parser and the region tables, the browser
bootstrap, accounts and sessions, public-data clients, price analytics, the filter
panel, the general cache. They are one request and one transaction each, or pure
functions of a line or two; two registrations of one name are decided by the
database's unique key. Within modelled parts: the SQL conditions of a filter
(`_filtered_rows`), which are a conjunction per column; listing history and its
change mask, which no decision reads; the wording of loan reasons and the annuity
formula, a parameter of LoanRules; history navigation and the complex modal of the
map page; `build_markers`.

What is left of the plan: a batch of DongLifecycle's visits is written by BatchWriter;
both are proved, and what the lifecycle uses of the writer (a flush that returns has
stored) is `FlushKeepsItsPromise`, but their composition is not stated as a module.

## 6. Running

    tlc -config CrawlQueue_safety.cfg MCCrawlQueue
    tlapm CrawlQueueProofs.tla
    tlapm DongLifecycleProofs.tla
    tlapm BatchWriterProofs.tla
    tlapm PageCollectorProofs.tla
    tlapm DetailClaimsProofs.tla
    tlapm HttpClientProofs.tla
    tlapm MapProofs.tla
    tlapm SearchProofs.tla

Every run takes less than three minutes on two cores. `PROJECT.json` lists for each
run its module and configuration, and for every definition the lines of code it
stands for.
