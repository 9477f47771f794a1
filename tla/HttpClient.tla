------------------------------ MODULE HttpClient ------------------------------
(***************************************************************************)
(* NaverHttpClient (crawler/adapters/site_a/http_client.py): all requests  *)
(* of a process share one browser session, which is renewed under a lock   *)
(* when the site rejects it, a circuit that stops requests after a         *)
(* rejection of a renewed session, and an adaptive limit on the requests   *)
(* that are out at once.                                                   *)
(*                                                                         *)
(* Coroutines change places at an await, so a step goes from one await to  *)
(* the next.  Acquiring the limiter's condition is not counted as one: it  *)
(* is never held across another await.                                     *)
(***************************************************************************)
EXTENDS Naturals, FiniteSets

CONSTANTS
    Request,        \* coroutines that call get_json
    JobStart,       \* the caller of refresh_session
    MinLimit, MaxLimit, \* bounds of the adaptive limit (4 and 32 in the code)
    InitialLimit,   \* where it starts (8)
    SuccessRun,     \* successes that raise it (50)
    MaxTries,       \* retries of a failing request (2)
    MaxSessions     \* bound: sessions obtained

ASSUME HttpAssumption ==
    /\ JobStart \notin Request
    /\ MinLimit \in Nat \ {0} /\ MaxLimit \in Nat /\ MaxTries \in Nat /\ MaxSessions \in Nat
    /\ InitialLimit \in MinLimit..MaxLimit
    /\ SuccessRun \in Nat \ {0}

Caller == Request \cup {JobStart}
Refusal == {401, 403}

VARIABLES
    generation,     \* _generation; 0 as long as not _started
    circuit,        \* monotonic() < _circuit_open_until
    limit, active, successes,   \* the limiter
    at,             \* where each caller is
    noted,          \* the generation it has noted; 0: None
    did,            \* the refusals it has refreshed for
    tries,          \* retry_attempt
    used,           \* history: the session its request was sent with
    refusedBy,      \* history: the sessions that refused this call
    outdated        \* history: it was sent with another session than noted

limiter == <<limit, active, successes>>
call == <<at, noted, did, tries>>
history == <<used, refusedBy, outdated>>
vars == <<generation, circuit, limiter, call, history>>

TypeOK ==
    /\ generation \in 0..MaxSessions
    /\ circuit \in BOOLEAN
    /\ limit \in MinLimit..MaxLimit
    /\ active \in 0..MaxLimit
    /\ successes \in 0..SuccessRun
    /\ at \in [Caller -> {"idle", "permit", "sent", "backoff", "lock", "bootstrap"}]
    /\ noted \in [Caller -> 0..MaxSessions]
    /\ did \in [Caller -> SUBSET Refusal]
    /\ tries \in [Caller -> 0..MaxTries]
    /\ used \in [Caller -> 0..MaxSessions]
    /\ refusedBy \in [Caller -> SUBSET (0..MaxSessions)]
    /\ outdated \in [Caller -> BOOLEAN]

Init ==
    /\ generation = 0
    /\ circuit = FALSE
    /\ limit = InitialLimit
    /\ active = 0
    /\ successes = 0
    /\ at = [c \in Caller |-> "idle"]
    /\ noted = [c \in Caller |-> 0]
    /\ did = [c \in Caller |-> {}]
    /\ tries = [c \in Caller |-> 0]
    /\ used = [c \in Caller |-> 0]
    /\ refusedBy = [c \in Caller |-> {}]
    /\ outdated = [c \in Caller |-> FALSE]

Goes(c, place) == at' = [at EXCEPT ![c] = place]

(* The call returns or raises. *)
Ends(c) ==
    /\ Goes(c, "idle")
    /\ noted' = [noted EXCEPT ![c] = 0]
    /\ did' = [did EXCEPT ![c] = {}]
    /\ tries' = [tries EXCEPT ![c] = 0]
    /\ refusedBy' = [refusedBy EXCEPT ![c] = {}]
    /\ outdated' = [outdated EXCEPT ![c] = FALSE]

(* permit() and the sending of the request with the session g: at once     *)
(* below the limit, also before those that have been woken and not run yet. *)
ForPermit(c, g) ==
    \/ /\ active < limit
       /\ active' = active + 1
       /\ used' = [used EXCEPT ![c] = g]
       /\ Goes(c, "sent")
    \/ /\ active >= limit
       /\ Goes(c, "permit")
       /\ UNCHANGED <<active, used>>

-----------------------------------------------------------------------------
(* The beginning of get_json, and refresh_session. *)

Enter(r) ==
    /\ at[r] = "idle" /\ at[JobStart] = "idle"
    /\ ~circuit
    /\ noted' = [noted EXCEPT ![r] = generation]
    /\ IF generation = 0
       THEN Goes(r, "lock") /\ UNCHANGED <<active, used>>
       ELSE ForPermit(r, generation)
    /\ UNCHANGED <<generation, circuit, limit, successes, did, tries, refusedBy, outdated>>

(* begin_job, before the first request of a job and after the last one of  *)
(* the job before.                                                         *)
StartJob ==
    /\ \A c \in Caller : at[c] = "idle"
    /\ Goes(JobStart, "lock")
    /\ UNCHANGED <<generation, circuit, limiter, noted, did, tries, history>>

-----------------------------------------------------------------------------
(* _refresh: nothing is done when the session is no longer the noted one.  *)

LockFree == \A c \in Caller : at[c] # "bootstrap"

LockedUnchecked(c) ==
    /\ at[c] = "lock" /\ LockFree
    /\ Goes(c, "bootstrap")
    /\ UNCHANGED <<generation, circuit, limiter, noted, did, tries, history>>

LockedKeepsNoted(c) ==
    /\ at[c] = "lock" /\ LockFree
    /\ IF noted[c] \in {0, generation}
       THEN Goes(c, "bootstrap") /\ UNCHANGED <<active, used>>
       ELSE ForPermit(c, generation)
    /\ UNCHANGED <<generation, circuit, limit, successes, noted, did, tries, refusedBy, outdated>>

Locked(c) ==
    /\ at[c] = "lock" /\ LockFree
    /\ IF noted[c] \in {0, generation}
       THEN Goes(c, "bootstrap") /\ UNCHANGED <<noted, active, used>>
       ELSE ForPermit(c, generation) /\ noted' = [noted EXCEPT ![c] = generation]
    /\ UNCHANGED <<generation, circuit, limit, successes, did, tries, refusedBy, outdated>>

Bootstrapped(c) ==
    /\ at[c] = "bootstrap"
    /\ generation < MaxSessions
    /\ generation' = generation + 1
    /\ circuit' = FALSE
    /\ IF c = JobStart
       THEN Goes(c, "idle") /\ UNCHANGED <<noted, active, used>>
       ELSE ForPermit(c, generation + 1) /\ noted' = [noted EXCEPT ![c] = generation + 1]
    /\ UNCHANGED <<limit, successes, did, tries, refusedBy, outdated>>

(* The browser fails, or captures no Authorization header. *)
BootstrapFails(c) ==
    /\ at[c] = "bootstrap"
    /\ Ends(c)
    /\ UNCHANGED <<generation, circuit, limiter, used>>

-----------------------------------------------------------------------------
(* The request. *)

(* Sent after a wait: with the session there is by now, whatever is noted. *)
NotesLate(r) == outdated' = [outdated EXCEPT ![r] = @ \/ noted[r] # generation]

SendUnlimited(r) ==
    /\ at[r] = "permit"
    /\ active' = active + 1
    /\ used' = [used EXCEPT ![r] = generation]
    /\ Goes(r, "sent")
    /\ NotesLate(r)
    /\ UNCHANGED <<generation, circuit, limit, successes, noted, did, tries, refusedBy>>

Send(r) ==
    /\ at[r] = "permit"
    /\ active < limit
    /\ active' = active + 1
    /\ used' = [used EXCEPT ![r] = generation]
    /\ Goes(r, "sent")
    /\ NotesLate(r)
    /\ UNCHANGED <<generation, circuit, limit, successes, noted, did, tries, refusedBy>>

Answered(r) ==
    /\ at[r] = "sent"
    /\ active' = active - 1
    /\ used' = [used EXCEPT ![r] = 0]

(* record_success; beyond SuccessRun the count matters no more. *)
Raise ==
    /\ successes + 1 >= SuccessRun /\ limit < MaxLimit
    /\ limit' = limit + 1
    /\ successes' = 0

CountSuccess ==
    \/ Raise
    \/ /\ successes + 1 < SuccessRun \/ limit >= MaxLimit
       /\ successes' = IF successes < SuccessRun THEN successes + 1 ELSE successes
       /\ UNCHANGED limit

Succeeds(r) ==
    /\ Answered(r)
    /\ CountSuccess
    /\ Ends(r)
    /\ UNCHANGED <<generation, circuit>>

(* Another status, or a success that is not JSON. *)
Fails(r) ==
    /\ Answered(r)
    /\ Ends(r)
    /\ UNCHANGED <<generation, circuit, limit, successes>>

(* record_throttle, for 429. *)
Throttle ==
    /\ limit' = IF limit \div 2 > MinLimit THEN limit \div 2 ELSE MinLimit
    /\ successes' = 0

(* Timeouts, network errors and 5xx, or 429: again after a pause, MaxTries *)
(* times.                                                                  *)
Transient(r) ==
    /\ Answered(r)
    /\ Throttle \/ UNCHANGED <<limit, successes>>
    /\ IF tries[r] >= MaxTries
       THEN Ends(r)
       ELSE /\ tries' = [tries EXCEPT ![r] = @ + 1]
            /\ Goes(r, "backoff")
            /\ UNCHANGED <<noted, did, refusedBy, outdated>>
    /\ UNCHANGED <<generation, circuit>>

BackedOff(r) ==
    /\ at[r] = "backoff"
    /\ ForPermit(r, generation)
    /\ NotesLate(r)
    /\ UNCHANGED <<generation, circuit, limit, successes, noted, did, tries, refusedBy>>

(* 401 or 403: the first time with a new session, then no more; a second   *)
(* 403 opens the circuit.                                                  *)
Refused(r, status) ==
    /\ Answered(r)
    /\ IF status \in did[r]
       THEN /\ circuit' = (circuit \/ status = 403)
            /\ Ends(r)
       ELSE /\ did' = [did EXCEPT ![r] = @ \cup {status}]
            /\ refusedBy' = [refusedBy EXCEPT ![r] = @ \cup {used[r]}]
            /\ Goes(r, "lock")
            /\ UNCHANGED <<circuit, noted, tries, outdated>>
    /\ UNCHANGED <<generation, limit, successes>>

CancelledKeepsPermit(c) ==
    /\ at[c] # "idle"
    /\ used' = [used EXCEPT ![c] = 0]
    /\ Ends(c)
    /\ UNCHANGED <<generation, circuit, limit, successes, active>>

(* The job is cancelled; the permit and the lock are given back. *)
Cancelled(c) ==
    /\ at[c] # "idle"
    /\ active' = IF at[c] = "sent" THEN active - 1 ELSE active
    /\ used' = [used EXCEPT ![c] = 0]
    /\ Ends(c)
    /\ UNCHANGED <<generation, circuit, limit, successes>>

CircuitRunsOut ==
    /\ circuit
    /\ circuit' = FALSE
    /\ UNCHANGED <<generation, limiter, call, history>>

Refreshes(c) == Locked(c) \/ Bootstrapped(c) \/ BootstrapFails(c)

Requests(r) ==
    \/ Send(r) \/ Succeeds(r) \/ Fails(r) \/ Transient(r) \/ BackedOff(r)
    \/ \E status \in Refusal : Refused(r, status)

Next ==
    \/ \E r \in Request : Enter(r) \/ Requests(r)
    \/ StartJob
    \/ \E c \in Caller : Refreshes(c) \/ Cancelled(c)
    \/ CircuitRunsOut

Spec == Init /\ [][Next]_vars

(* The event loop runs what can run, requests and browsers have timeouts.  *)
FairSpec ==
    /\ Spec
    /\ \A c \in Caller : WF_vars(Refreshes(c))
    /\ \A r \in Request : WF_vars(Requests(r))

-----------------------------------------------------------------------------
(* Properties. *)

\* The call got in while there was no session, and has not been sent yet: it
\* asks for a session without naming one that it wants replaced.
CameFirst(r) == noted[r] = 0 /\ refusedBy[r] = {}

\* A session is thrown away on the word of a request that it has itself refused,
\* or by a call that came first.  Of many requests refused together one renews
\* the session, and those that were refused by the old one leave the new one
\* alone; but of several calls that find no session each obtains one in turn,
\* and replaces the one just obtained, which has refused nobody.
NewSessionIsKept ==
    \A r \in Request :
        at[r] = "bootstrap" /\ generation # 0 =>
            generation \in refusedBy[r] \/ CameFirst(r)

\* Without the exception: only what a session has refused replaces it.  False as
\* soon as two calls find no session.
OnlyRefusedSessionsGo ==
    \A r \in Request :
        at[r] = "bootstrap" /\ generation # 0 => generation \in refusedBy[r]

\* A refused request is repeated with another session than those that refused
\* it, so that a second refusal says something of the renewed session; provided
\* that it was always sent with the session it had noted.
RepeatedWithNewSession ==
    \A r \in Request : at[r] = "sent" /\ ~outdated[r] => used[r] \notin refusedBy[r]

\* "SITE_A denied the refreshed session", without the proviso: a request that
\* waits for a permit or pauses while another one renews the session is sent
\* with the new session and still notes the old one, so that its refusal renews
\* nothing, and the second refusal is of the same session.
RefusalIsOfRefreshedSession ==
    \A r \in Request : at[r] = "sent" => used[r] \notin refusedBy[r]

\* A lowered limit takes hold: however many requests were out when it fell, the
\* number comes down to it.
LimitTakesHold == []<>(active <= limit)

\* The callers never all wait for each other, for the lock or for a permit.
SomeCallEnds == []<>(\E r \in Request : at[r] = "idle")
=============================================================================
