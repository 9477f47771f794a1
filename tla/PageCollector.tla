---------------------------- MODULE PageCollector ----------------------------
(***************************************************************************)
(* SiteAAdapter.collect_dong (crawler/adapters/site_a/adapter.py): a pool  *)
(* of coroutines takes (complex, page) items from an asyncio.Queue, asks   *)
(* SITE_A for the page, puts the complex's next page into the queue and    *)
(* submits the rows; collect_dong waits with join() until every item is    *)
(* done, sends each worker a None and gathers them.                        *)
(*                                                                         *)
(* Coroutines change places only at an await, so what a worker does between *)
(* the answer of SITE_A and the submit is one step.                        *)
(***************************************************************************)
EXTENDS Naturals, FiniteSets, SequencesExt

CONSTANTS
    Complex,        \* apartment complexes of the dong
    MaxWorkers,     \* 32 in the code
    MaxPages        \* MAX_PAGES_PER_COMPLEX (100 in the code)

ASSUME CollectorAssumption ==
    /\ IsFiniteSet(Complex) /\ Complex # {}
    /\ MaxWorkers \in Nat \ {0}
    /\ MaxPages \in Nat \ {0}

(* min(32, max(1, len(complexes))); an empty dong returns at once *)
WorkerCount ==
    IF Cardinality(Complex) <= MaxWorkers THEN Cardinality(Complex) ELSE MaxWorkers

Worker == 1..WorkerCount

VARIABLES
    pages,          \* how many pages SITE_A has for each complex
    queue,          \* page_queue
    unfinished,     \* its count of items put and not task_done
    at,             \* where each worker is
    item,           \* the (complex, page) it works on
    partial,        \* state["partial"]
    got,            \* pages of each complex whose rows are submitted
    main            \* where collect_dong is

workerVars == <<queue, unfinished, at, item, partial, got>>
vars == <<pages, workerVars, main>>

None == [complex |-> {}, page |-> 0]
Item == [complex : Complex, page : 1..MaxPages]

TypeOK ==
    /\ pages \in [Complex -> 1..MaxPages + 1]
    /\ queue \in Seq(Item \cup {None})
    /\ unfinished \in Nat
    /\ at \in [Worker -> {"get", "fetch", "submit", "raised", "returned"}]
    /\ item \in [Worker -> Item \cup {None}]
    /\ partial \in BOOLEAN
    /\ got \in [Complex -> SUBSET (1..MaxPages)]
    /\ main \in {"join", "cancelled", "gather", "gatherCancelled", "returned", "raised"}

Init ==
    /\ pages \in [Complex -> 1..MaxPages + 1]
    /\ queue = [i \in 1..Cardinality(Complex) |->
                   [complex |-> SetToSeq(Complex)[i], page |-> 1]]
    /\ unfinished = Cardinality(Complex)
    /\ at = [w \in Worker |-> "get"]
    /\ item = [w \in Worker |-> None]
    /\ partial = FALSE
    /\ got = [c \in Complex |-> {}]
    /\ main = "join"

-----------------------------------------------------------------------------
(* The workers *)

Get(w) ==
    /\ at[w] = "get"
    /\ queue # <<>>
    /\ queue' = Tail(queue)
    /\ item' = [item EXCEPT ![w] = Head(queue)]
    /\ IF Head(queue) = None
       THEN /\ at' = [at EXCEPT ![w] = "returned"]
            /\ unfinished' = unfinished - 1
       ELSE /\ at' = [at EXCEPT ![w] = "fetch"]
            /\ UNCHANGED unfinished
    /\ UNCHANGED <<pages, partial, got, main>>

(* The finally of every way out of an item *)
TaskDone(w, place) ==
    /\ at' = [at EXCEPT ![w] = place]
    /\ item' = [item EXCEPT ![w] = None]
    /\ unfinished' = unfinished - 1

(* RetryWaitError and any error other than NaverHttpError end the worker. *)
FetchRaises(w) ==
    /\ at[w] = "fetch"
    /\ TaskDone(w, "raised")
    /\ UNCHANGED <<pages, queue, partial, got, main>>

PageUnusableUnnoticed(w) ==
    /\ at[w] = "fetch"
    /\ TaskDone(w, "get")
    /\ UNCHANGED <<pages, queue, partial, got, main>>

PageUnusableNotDone(w) ==
    /\ at[w] = "fetch"
    /\ partial' = TRUE
    /\ at' = [at EXCEPT ![w] = "get"]
    /\ item' = [item EXCEPT ![w] = None]
    /\ UNCHANGED <<pages, queue, unfinished, got, main>>

(* NaverHttpError, no article list, or ids that an earlier page of the      *)
(* complex had: the dong is partial, and the complex's next page not asked  *)
(* for.                                                                     *)
PageUnusable(w) ==
    /\ at[w] = "fetch"
    /\ partial' = TRUE
    /\ TaskDone(w, "get")
    /\ UNCHANGED <<pages, queue, got, main>>

(* A list of articles, with at least one usable id (ids) or without.  The   *)
(* next page is put before the rows are submitted.  The rows are those the  *)
(* parser accepts: an article it rejects is counted and dropped.            *)
PageArrives(w, ids) ==
    LET c == item[w].complex
        p == item[w].page
        more == p < pages[c]
    IN  /\ at[w] = "fetch"
        /\ partial' = (partial \/ (more /\ (~ids \/ p >= MaxPages)))
        /\ IF more /\ ids /\ p < MaxPages
           THEN /\ queue' = Append(queue, [complex |-> c, page |-> p + 1])
                /\ unfinished' = unfinished + 1
           ELSE UNCHANGED <<queue, unfinished>>
        /\ at' = [at EXCEPT ![w] = "submit"]
        /\ UNCHANGED <<pages, item, got, main>>

(* on_batch has taken the rows, or raises when the writer has failed. *)
Submitted(w) ==
    /\ at[w] = "submit"
    /\ got' = [got EXCEPT ![item[w].complex] = @ \cup {item[w].page}]
    /\ TaskDone(w, "get")
    /\ UNCHANGED <<pages, queue, partial, main>>

SubmitRaises(w) ==
    /\ at[w] = "submit"
    /\ TaskDone(w, "raised")
    /\ UNCHANGED <<pages, queue, partial, got, main>>

-----------------------------------------------------------------------------
(* collect_dong *)

SendNone(place) ==
    /\ queue' = queue \o [i \in Worker |-> None]
    /\ unfinished' = unfinished + WorkerCount
    /\ main' = place
    /\ UNCHANGED <<pages, at, item, partial, got>>

Joined ==
    /\ main = "join"
    /\ unfinished = 0
    /\ SendNone("gather")

(* Another dong of the job has raised and execute_job cancels this one. *)
JoinCancelled ==
    /\ main = "join"
    /\ SendNone("gatherCancelled")

GatheredEarly ==
    /\ main \in {"gather", "gatherCancelled"}
    /\ main' = IF main = "gather" THEN "returned" ELSE "raised"
    /\ UNCHANGED <<pages, workerVars>>

(* gather raises as soon as a worker has raised, and does not wait for the  *)
(* others; a cancelled join raises CancelledError when they have returned.  *)
Gathered ==
    /\ main \in {"gather", "gatherCancelled"}
    /\ \/ /\ \E w \in Worker : at[w] = "raised"
          /\ main' = "raised"
       \/ /\ \A w \in Worker : at[w] = "returned"
          /\ main' = IF main = "gather" THEN "returned" ELSE "raised"
    /\ UNCHANGED <<pages, workerVars>>

(* gather is cancelled with the job: so are the workers it waits for. *)
GatherCancelled ==
    /\ main = "gather"
    /\ main' = "raised"
    /\ at' = [w \in Worker |-> IF at[w] = "returned" THEN "returned" ELSE "raised"]
    /\ UNCHANGED <<pages, queue, unfinished, item, partial, got>>

WorkerNext(w) ==
    \/ Get(w)
    \/ FetchRaises(w)
    \/ PageUnusable(w)
    \/ \E ids \in BOOLEAN : PageArrives(w, ids)
    \/ Submitted(w)
    \/ SubmitRaises(w)

Next ==
    \/ \E w \in Worker : WorkerNext(w)
    \/ Joined
    \/ JoinCancelled
    \/ GatherCancelled
    \/ Gathered

Spec == Init /\ [][Next]_vars

(* The event loop runs what can run, and every request has a timeout.       *)
(* Nothing makes another dong fail.                                         *)
FairSpec ==
    /\ Spec
    /\ \A w \in Worker : WF_vars(WorkerNext(w))
    /\ WF_vars(Joined \/ Gathered)

-----------------------------------------------------------------------------
(* Properties *)

\* A dong that is not reported as partial was read to its last page: every
\* page of every complex was fetched and its rows submitted.  complete_scope
\* ages what was not seen, on the strength of this.  The claim is one per page:
\* an article the parser rejects is not submitted, makes no dong partial, and is
\* aged like one that SITE_A no longer has.
CompleteMeansEveryPage ==
    main = "returned" /\ ~partial =>
        \A c \in Complex : got[c] = 1..pages[c]

\* When collect_dong returns, none of its workers is left behind.
ReturnLeavesNobody ==
    main = "returned" => queue = <<>> /\ \A w \in Worker : at[w] = "returned"

\* Every worker has raised and an item is still queued: a complex that no
\* worker has reached when there are more of them than workers, or the page a
\* worker put just before its rows were refused.  Nobody takes it, and join()
\* waits for it.
Stranded ==
    main = "join" /\ queue # <<>> /\ \A w \in Worker : at[w] = "raised"

\* The collection comes to an end, whatever SITE_A answers and whoever raises or
\* is cancelled, or is stranded: while one worker is left, the items are used up
\* and counted down, and the Nones of the finally find their takers.
CollectionEnds == <>(main \in {"returned", "raised"} \/ Stranded)

\* "SITE_A HTTP circuit is open; retry the job later": an error that ends a
\* worker gets out of collect_dong, so that the job is retried.  It does not:
\* join() knows nothing of the workers, and a collection that is Stranded waits
\* for ever, while the job's heartbeat keeps its lease.
ErrorGetsOut ==
    (\E w \in Worker : at[w] = "raised") ~> main = "raised"
=============================================================================
