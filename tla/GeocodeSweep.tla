----------------------------- MODULE GeocodeSweep -----------------------------
(***************************************************************************)
(* Where the complexes are.  The crawl stores a complex with its address    *)
(* and, when the address of a stored complex changes, throws its            *)
(* coordinates away (listing_batch_writer.py).  A daily sweep, and a script *)
(* an operator may start at any time, look the addresses of complexes       *)
(* without coordinates up at an external geocoder (backfill.py), in         *)
(* batches.  A batch reads its complexes without a lock, asks the geocoder  *)
(* for up to minutes, and writes what it changed by primary key.            *)
(*                                                                          *)
(* One sweep runs at a time here; the batch's reads are one snapshot, so    *)
(* the answers of the geocoder are drawn when the batch is read.  Place is  *)
(* the geocoder's knowledge: where an address is.                           *)
(***************************************************************************)
EXTENDS Integers, FiniteSets, FiniteSetsExt

CONSTANTS
  Complexes,    \* complex ids
  Addresses,
  Place,        \* the coordinates of an address
  Nowhere,      \* latitude and longitude are NULL
  BatchSize, MaxBatches, MaxRequests,   \* the arguments of run_geocode_sweep
  MaxMoves, MaxDeaths   \* bounds on address changes and on processes that die

ASSUME SweepAssumption ==
  /\ Complexes \subseteq Nat /\ IsFiniteSet(Complexes)
  /\ Place \in [Addresses -> Nat \X Nat]
  /\ Nowhere \notin Nat \X Nat
  /\ {BatchSize, MaxBatches, MaxRequests} \subseteq Nat \ {0}
  /\ {MaxMoves, MaxDeaths} \subseteq Nat

VARIABLES
  complex,     \* complex_current: address, geocode status, coordinates, retry time
  sweep,       \* the counters of the sweep under way
  batch,       \* the transaction of the sweep: the rows as loaded and their results
  moves, deaths,   \* count address changes and deaths, up to their bounds
  disturbed    \* has an address changed under a batch that had loaded it?

sweepVars == <<complex, sweep, batch, moves, deaths, disturbed>>

Statuses == {"PENDING", "OK", "NOT_FOUND", "FAILED"}
\* geocode_retry_after: not set, later than the start of the sweep, or passed.
Retries == {"none", "later", "passed"}

NoSweep == [on |-> FALSE, batches |-> 0, requests |-> 0]
NoBatch == [loaded |-> <<>>, results |-> <<>>, requests |-> 0]

New(address) ==
  [address |-> address, status |-> "PENDING", at |-> Nowhere, retry |-> "none"]

SweepTypeOK ==
  /\ complex \in [Complexes -> [address : Addresses, status : Statuses,
                                at : (Nat \X Nat) \cup {Nowhere}, retry : Retries]]
  /\ sweep \in [on : BOOLEAN, batches : 0..MaxBatches, requests : 0..MaxRequests]
  /\ moves \in 0..MaxMoves /\ deaths \in 0..MaxDeaths /\ disturbed \in BOOLEAN

-----------------------------------------------------------------------------
(* The crawl.                                                               *)

\* As if only the address were written, and the coordinates stayed.
AddressOnly(c, address) ==
  /\ moves < MaxMoves /\ moves' = moves + 1
  /\ address # complex[c].address
  /\ complex' = [complex EXCEPT ![c].address = address]
  /\ disturbed' = (disturbed \/ c \in DOMAIN batch.loaded)
  /\ UNCHANGED <<sweep, batch, deaths>>

\* The upsert of a complex whose address differs from the stored one.
AddressChanges(c, address) ==
  /\ moves < MaxMoves /\ moves' = moves + 1
  /\ address # complex[c].address
  /\ complex' = [complex EXCEPT ![c] = New(address)]
  /\ disturbed' = (disturbed \/ c \in DOMAIN batch.loaded)
  /\ UNCHANGED <<sweep, batch, deaths>>

-----------------------------------------------------------------------------
(* The sweep.                                                               *)

\* By the clock of the cron job every retry time has passed; the script may come
\* earlier.  `now` stays the same for the whole sweep.
StartSweep(passed) ==
  /\ ~sweep.on
  /\ sweep' = [NoSweep EXCEPT !.on = TRUE]
  /\ complex' = [c \in Complexes |->
                  IF passed /\ complex[c].retry = "later"
                  THEN [complex[c] EXCEPT !.retry = "passed"] ELSE complex[c]]
  /\ UNCHANGED <<batch, moves, deaths, disturbed>>

Due(c) == \/ complex[c].status = "PENDING"
          \/ complex[c].status = "FAILED" /\ complex[c].retry = "passed"

\* The first BatchSize of those due, by id.
Candidates ==
  LET due == {c \in Complexes : Due(c)}
  IN  {c \in due : Cardinality({d \in due : d < c}) < BatchSize}

\* Coordinates of a complex with the same address are reused.
Known == {complex[c].address : c \in {d \in Complexes : complex[d].status = "OK"}}

Asked(cs) == {complex[c].address : c \in cs} \ Known

\* The loop stops at the first candidate that would need one request too many.
Processed(candidates, limit) ==
  {c \in candidates : Cardinality(Asked({d \in candidates : d <= c})) <= limit}

\* As if a failure could be repeated at once.
NoDelay == "passed"

Retry == "later"        \* now + retry_delay

Result(status, at) ==
  [status |-> status,
   at |-> IF status = "OK" THEN at ELSE Nowhere,
   retry |-> IF status = "FAILED" THEN Retry ELSE "none"]

\* ComplexGeocodeBackfill.run
LoadBatch ==
  /\ sweep.on /\ batch = NoBatch
  /\ Candidates # {}
  /\ LET done == Processed(Candidates, MaxRequests - sweep.requests)
     IN  \E answer \in [Asked(done) -> {"OK", "NOT_FOUND", "FAILED"}],
            source \in [Known -> {c \in Complexes : complex[c].status = "OK"}] :
           /\ \A a \in Known : complex[source[a]].address = a
           /\ batch' = [loaded |-> [c \in Candidates |-> complex[c]],
                        results |-> [c \in done |->
                                      LET a == complex[c].address
                                      IN  IF a \in Known
                                          THEN Result("OK", complex[source[a]].at)
                                          ELSE Result(answer[a], Place[a])],
                        requests |-> Cardinality(Asked(done))]
  /\ UNCHANGED <<complex, sweep, moves, deaths, disturbed>>

\* Nothing is due: the batch is empty, and the sweep ends.
NothingDue ==
  /\ sweep.on /\ batch = NoBatch
  /\ Candidates = {}
  /\ sweep' = NoSweep
  /\ UNCHANGED <<complex, batch, moves, deaths, disturbed>>

\* Only the columns that differ from the loaded row are written, whatever the row
\* holds now.
Flushed(now, loaded, result) ==
  [now EXCEPT !.status = IF result.status # loaded.status THEN result.status ELSE @,
              !.at = IF result.at # loaded.at THEN result.at ELSE @,
              !.retry = IF result.retry # loaded.retry THEN result.retry ELSE @]

CommitBatch ==
  /\ batch # NoBatch
  /\ complex' = [c \in Complexes |->
                  IF c \in DOMAIN batch.results
                  THEN Flushed(complex[c], batch.loaded[c], batch.results[c])
                  ELSE complex[c]]
  /\ LET batches == sweep.batches + 1
         requests == sweep.requests + batch.requests
     IN  sweep' = IF batches = MaxBatches \/ requests >= MaxRequests THEN NoSweep
                  ELSE [on |-> TRUE, batches |-> batches, requests |-> requests]
  /\ batch' = NoBatch
  /\ UNCHANGED <<moves, deaths, disturbed>>

\* The process ends; the transaction is rolled back.
SweepDies ==
  /\ sweep.on
  /\ deaths < MaxDeaths /\ deaths' = deaths + 1
  /\ sweep' = NoSweep /\ batch' = NoBatch
  /\ UNCHANGED <<complex, moves, disturbed>>

SweepInit ==
  /\ complex \in [Complexes -> {New(a) : a \in Addresses}]
  /\ sweep = NoSweep /\ batch = NoBatch /\ moves = 0 /\ deaths = 0 /\ disturbed = FALSE

SweepNext ==
  \/ \E c \in Complexes, a \in Addresses : AddressChanges(c, a)
  \/ \E passed \in BOOLEAN : StartSweep(passed)
  \/ LoadBatch \/ NothingDue \/ CommitBatch \/ SweepDies

=============================================================================
