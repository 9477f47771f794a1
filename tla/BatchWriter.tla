----------------------------- MODULE BatchWriter -----------------------------
(***************************************************************************)
(* BoundedBatchWriter (application/async_batch_writer.py): coroutines of   *)
(* the crawl put rows into a bounded queue.Queue, one thread takes them    *)
(* out and commits them in batches.  flush() and aclose() send an event    *)
(* through the same queue and wait for the thread to set it.               *)
(*                                                                         *)
(* The clients are the dong tasks of execute_job                           *)
(* (crawl_pipeline_service.py), each of which submits its rows and then    *)
(* flushes, and execute_job itself, which closes the writer when all of    *)
(* them are over.  They share one event loop, so of the clients only one   *)
(* can be between _raise_if_failed and put_nowait; the thread can run at   *)
(* any time, there too.                                                    *)
(***************************************************************************)
EXTENDS Naturals, SequencesExt

CONSTANTS
    Task,           \* collect_one_dong tasks
    Main,           \* execute_job
    NoClient,
    Rows,           \* rows each task submits
    QueueSize,      \* max_queue_size (2,000 in the code)
    BatchSize       \* batch_size (500 in the code)

ASSUME WriterAssumption ==
    /\ Main \notin Task /\ NoClient \notin Task \cup {Main}
    /\ Rows \in Nat
    /\ QueueSize \in Nat \ {0}
    /\ BatchSize \in Nat \ {0}

Client == Task \cup {Main}

VARIABLES
    queue,          \* of rows and controls
    batch, stored,  \* rows the thread holds, rows it has committed
    counted,        \* rows it has added to its result and to crawl_job
    thread,         \* where the thread is in _run
    serving,        \* the client whose control it serves, or NoClient
    failure,        \* self._failure is set
    answered,       \* clients whose event is set
    pc, sent,       \* where each client is; the rows it has submitted
    between,        \* the client between the check and put_nowait, or NoClient
    accepted,       \* history: rows in the order they were put
    stranded        \* history: clients whose control nobody will serve

queueVars == <<queue, accepted, stranded>>
threadVars == <<batch, stored, counted, thread, serving, failure>>
clientVars == <<pc, sent, between>>
vars == <<queueVars, threadVars, clientVars, answered>>

Row == [row : BOOLEAN, of : Client, n : 0..Rows]
RowItem(c, n) == [row |-> TRUE, of |-> c, n |-> n]
Control(c) == [row |-> FALSE, of |-> c, n |-> 0]

Place == {"collect", "submit", "flush", "close", "wait", "ok", "raised", "failed", "cancelled"}

TypeOK ==
    /\ queue \in Seq(Row) /\ Len(queue) <= QueueSize
    /\ batch \in Seq(Row) /\ Len(batch) <= BatchSize
    /\ stored \in Seq(Row)
    /\ accepted \in Seq(Row)
    /\ counted \in 0..Len(stored)
    /\ thread \in {"get", "commit", "draining", "ended"}
    /\ serving \in Client \cup {NoClient}
    /\ failure \in BOOLEAN
    /\ answered \in SUBSET Client
    /\ pc \in [Client -> Place]
    /\ sent \in [Task -> 0..Rows]
    /\ between \in Client \cup {NoClient}
    /\ stranded \in SUBSET Client

Init ==
    /\ queue = <<>>
    /\ batch = <<>>
    /\ stored = <<>>
    /\ accepted = <<>>
    /\ counted = 0
    /\ thread = "get"
    /\ serving = NoClient
    /\ failure = FALSE
    /\ answered = {}
    /\ pc = [c \in Client |-> "collect"]
    /\ sent = [t \in Task |-> 0]
    /\ between = NoClient
    /\ stranded = {}

-----------------------------------------------------------------------------
(* The clients *)

Over(t) == pc[t] \in {"ok", "raised", "failed", "cancelled"}

(* A task has rows, has no more, or gets an error from SITE_A, which it     *)
(* keeps to itself (failed) or raises on; execute_job closes when its tasks *)
(* are over.                                                                *)
Calls(c, p) ==
    /\ between = NoClient
    /\ pc[c] = "collect"
    /\ IF c = Main THEN p = "close" /\ \A t \in Task : Over(t)
       ELSE \/ p = "submit" /\ sent[c] < Rows
            \/ p = "flush" /\ sent[c] = Rows
            \/ p \in {"raised", "failed"}
    /\ pc' = [pc EXCEPT ![c] = p]
    /\ UNCHANGED <<queueVars, threadVars, sent, between, answered>>

Putting(c) == pc[c] \in {"submit", "flush", "close"}

(* _raise_if_failed in _put.  collect_one_dong catches what submit raises,  *)
(* and not what flush raises.                                               *)
Check(c) ==
    /\ between = NoClient
    /\ Putting(c)
    /\ IF failure
       THEN /\ pc' = [pc EXCEPT ![c] = IF @ = "submit" THEN "failed" ELSE "raised"]
            /\ UNCHANGED between
       ELSE between' = c /\ UNCHANGED pc
    /\ UNCHANGED <<queueVars, threadVars, sent, answered>>

(* put_nowait; on Full the client sleeps and checks again *)
PutFull(c) ==
    /\ between = c
    /\ Len(queue) = QueueSize
    /\ between' = NoClient
    /\ UNCHANGED <<queueVars, threadVars, pc, sent, answered>>

PutRow(c) ==
    /\ between = c
    /\ pc[c] = "submit"
    /\ Len(queue) < QueueSize
    /\ queue' = Append(queue, RowItem(c, sent[c] + 1))
    /\ accepted' = Append(accepted, RowItem(c, sent[c] + 1))
    /\ sent' = [sent EXCEPT ![c] = @ + 1]
    /\ pc' = [pc EXCEPT ![c] = "collect"]
    /\ between' = NoClient
    /\ UNCHANGED <<stranded, threadVars, answered>>

PutControl(c) ==
    /\ between = c
    /\ pc[c] \in {"flush", "close"}
    /\ Len(queue) < QueueSize
    /\ queue' = Append(queue, Control(c))
    /\ stranded' = IF thread = "ended" THEN stranded \cup {c} ELSE stranded
    /\ pc' = [pc EXCEPT ![c] = "wait"]
    /\ between' = NoClient
    /\ UNCHANGED <<accepted, threadVars, sent, answered>>

\* Slip: nobody looks at the failure after the wait.
ReturnWithoutCheck(c) ==
    /\ between = NoClient
    /\ pc[c] = "wait"
    /\ c \in answered
    /\ pc' = [pc EXCEPT ![c] = "ok"]
    /\ UNCHANGED <<queueVars, threadVars, sent, between, answered>>

(* The event is set; aclose also joins the thread.  Then the failure is     *)
(* looked at once more.                                                     *)
Return(c) ==
    /\ between = NoClient
    /\ pc[c] = "wait"
    /\ c \in answered
    /\ c = Main => thread = "ended"
    /\ pc' = [pc EXCEPT ![c] = IF failure THEN "raised" ELSE "ok"]
    /\ UNCHANGED <<queueVars, threadVars, sent, between, answered>>

(* A task has raised: gather cancels the others where they wait. *)
Cancel(t) ==
    /\ between = NoClient
    /\ ~Over(t)
    /\ \E u \in Task : pc[u] = "raised"
    /\ pc' = [pc EXCEPT ![t] = "cancelled"]
    /\ UNCHANGED <<queueVars, threadVars, sent, between, answered>>

-----------------------------------------------------------------------------
(* The thread *)

Get ==
    /\ thread = "get"
    /\ queue # <<>>
    /\ LET item == Head(queue)
       IN  IF item.row
           THEN /\ batch' = Append(batch, item)
                /\ thread' = IF Len(batch') >= BatchSize THEN "commit" ELSE "get"
                /\ UNCHANGED serving
           ELSE /\ thread' = "commit"
                /\ serving' = item.of
                /\ UNCHANGED batch
    /\ queue' = Tail(queue)
    /\ UNCHANGED <<accepted, stranded, stored, counted, failure, clientVars, answered>>

(* flush_seconds are over and the queue is empty *)
Timeout ==
    /\ thread = "get"
    /\ queue = <<>>
    /\ batch # <<>>
    /\ thread' = "commit"
    /\ UNCHANGED <<queueVars, batch, stored, counted, serving, failure,
                   clientVars, answered>>

\* Slip: the batch is not cleared when the queue was empty.
CommitKeepsBatch ==
    /\ thread = "commit"
    /\ stored' = stored \o batch
    /\ counted' = counted + Len(batch)
    /\ batch' = IF serving = NoClient THEN batch ELSE <<>>
    /\ answered' = IF serving = NoClient THEN answered ELSE answered \cup {serving}
    /\ serving' = NoClient
    /\ thread' = IF serving = Main THEN "ended" ELSE "get"
    /\ UNCHANGED <<queueVars, failure, clientVars>>

(* commit_batch stores the rows and then, in a second transaction, adds to  *)
(* the job's counters.                                                      *)
Commit ==
    /\ thread = "commit"
    /\ stored' = stored \o batch
    /\ counted' = counted + Len(batch)
    /\ batch' = <<>>
    /\ answered' = IF serving = NoClient THEN answered ELSE answered \cup {serving}
    /\ serving' = NoClient
    /\ thread' = IF serving = Main THEN "ended" ELSE "get"
    /\ UNCHANGED <<queueVars, failure, clientVars>>

\* Slip: the exception is logged and the thread goes on.
CommitSwallows(saved) ==
    /\ thread = "commit"
    /\ batch # <<>>
    /\ stored' = IF saved THEN stored \o batch ELSE stored
    /\ batch' = <<>>
    /\ answered' = answered \cup ({serving} \ {NoClient})
    /\ serving' = NoClient
    /\ thread' = IF serving = Main THEN "ended" ELSE "get"
    /\ UNCHANGED <<queueVars, counted, failure, clientVars>>

(* One of the two transactions raises and _failure is set.  The control     *)
(* that was being served is out of the queue, and its event is not set.     *)
CommitFails(saved) ==
    /\ thread = "commit"
    /\ batch # <<>>
    /\ stored' = IF saved THEN stored \o batch ELSE stored
    /\ failure' = TRUE
    /\ thread' = "draining"
    /\ stranded' = stranded \cup ({serving} \ {NoClient})
    /\ UNCHANGED <<queue, accepted, batch, counted, serving, clientVars, answered>>

\* Slip: the rows are taken out, the controls are not answered.
DrainSilently ==
    /\ thread = "draining"
    /\ queue # <<>>
    /\ queue' = Tail(queue)
    /\ UNCHANGED <<accepted, stranded, threadVars, clientVars, answered>>

(* _unblock_controls: get_nowait until the queue is found empty *)
Drain ==
    /\ thread = "draining"
    /\ queue # <<>>
    /\ queue' = Tail(queue)
    /\ answered' = IF Head(queue).row THEN answered
                   ELSE answered \cup {Head(queue).of}
    /\ UNCHANGED <<accepted, stranded, threadVars, clientVars>>

Drained ==
    /\ thread = "draining"
    /\ queue = <<>>
    /\ thread' = "ended"
    /\ UNCHANGED <<queueVars, batch, stored, counted, serving, failure,
                   clientVars, answered>>

-----------------------------------------------------------------------------
ClientNext(c) ==
    \/ \E p \in {"submit", "flush", "close", "raised", "failed"} : Calls(c, p)
    \/ Check(c)
    \/ PutFull(c)
    \/ PutRow(c)
    \/ PutControl(c)
    \/ Return(c)

ThreadNext ==
    \/ Get
    \/ Timeout
    \/ Commit
    \/ \E saved \in BOOLEAN : CommitFails(saved)
    \/ Drain
    \/ Drained

Next ==
    \/ \E c \in Client : ClientNext(c)
    \/ \E t \in Task : Cancel(t)
    \/ ThreadNext

Spec == Init /\ [][Next]_vars

(* The thread and the event loop both run; no call is left half way. *)
FairSpec ==
    /\ Spec
    /\ WF_vars(ThreadNext)
    /\ \A c \in Client : WF_vars(ClientNext(c))
    /\ \A t \in Task : WF_vars(Cancel(t))

-----------------------------------------------------------------------------
(* Properties *)

\* What is stored is what was put, in the order it was put: no row is skipped,
\* stored twice or overtaken, also when the batch fails half way.
StoredIsPrefix == IsPrefix(stored, accepted)

\* When flush returns to a task, every row the task submitted is committed:
\* complete_scope, which comes next, takes the rows it does not find for gone.
FlushMeansStored ==
    \A t \in Task : pc[t] = "ok" =>
        \A n \in 1..Rows : \E i \in DOMAIN stored : stored[i] = RowItem(t, n)

\* When aclose returns to execute_job, nothing that was put is lost and the
\* counters it reports are those of the rows.
CloseMeansAllStored ==
    pc[Main] = "ok" => stored = accepted /\ counted = Len(accepted)

\* A client that waits for its event gets on, but for two cases: the commit
\* that its own control asked for fails, or its control comes after the thread
\* has failed and emptied the queue.
AnswersCome ==
    \A c \in Client : pc[c] = "wait" ~> pc[c] # "wait" \/ c \in stranded

\* "bounded DB writer failed": a failure of the thread reaches execute_job,
\* which raises it, so that the job takes its retry path.
FailureIsReported == failure ~> pc[Main] = "raised"
=============================================================================
