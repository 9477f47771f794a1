------------------------------ MODULE JobBoard ------------------------------
(***************************************************************************)
(* What the crawl queue promises to the people who post work on it: a job  *)
(* is in the hands of at most one worker, nobody takes it out of the hands *)
(* of a live worker, and what has ended stays ended.  Leases, heartbeats,  *)
(* clocks and back-off do not appear here.                                 *)
(*                                                                         *)
(* The promise stands as long as no worker overran its heartbeat (late).   *)
(***************************************************************************)
CONSTANTS Job, Worker

VARIABLES
    stage,      \* where each job is
    hands,      \* the workers that are executing it
    late        \* some worker has overrun its heartbeat

boardVars == <<stage, hands, late>>

Stage == {"none", "waiting", "held", "orphaned", "done", "dead"}

Init ==
    /\ stage = [j \in Job |-> "none"]
    /\ hands = [j \in Job |-> {}]
    /\ late = FALSE

(* Somebody posts jobs. *)
Post(S) ==
    /\ \A j \in S : stage[j] = "none"
    /\ stage' = [j \in Job |-> IF j \in S THEN "waiting" ELSE stage[j]]
    /\ UNCHANGED <<hands, late>>

(* A free worker takes a job that waits or whose worker is gone.  On the    *)
(* way it may sort out other orphans: back to waiting (R) or given up (D).  *)
Take(w, j, R, D) ==
    /\ \A i \in Job : w \notin hands[i]
    /\ \A i \in R \cup D : stage[i] = "orphaned"
    /\ j \notin D
    /\ stage[j] = "waiting" \/ j \in R
    /\ stage' = [i \in Job |-> CASE i = j -> "held"
                                 [] i # j /\ i \in D -> "dead"
                                 [] i # j /\ i \in R \ D -> "waiting"
                                 [] OTHER -> stage[i]]
    /\ hands' = [hands EXCEPT ![j] = {w}]
    /\ UNCHANGED late

(* The worker that holds the job ends it, or gives it back. *)
Return(w, j, s) ==
    /\ stage[j] = "held"
    /\ hands[j] = {w}
    /\ s \in {"waiting", "done", "dead"}
    /\ stage' = [stage EXCEPT ![j] = s]
    /\ hands' = [hands EXCEPT ![j] = {}]
    /\ UNCHANGED late

(* The worker dies with the job in its hands. *)
Drop(w, j) ==
    /\ stage[j] = "held"
    /\ hands[j] = {w}
    /\ stage' = [stage EXCEPT ![j] = "orphaned"]
    /\ hands' = [hands EXCEPT ![j] = {}]
    /\ UNCHANGED late

(* From the first overrun heartbeat on, anything may happen. *)
Overrun == late'

Next ==
    \/ Overrun
    \/ \E S \in SUBSET Job : Post(S)
    \/ \E w \in Worker, j \in Job, R, D \in SUBSET Job : Take(w, j, R, D)
    \/ \E w \in Worker, j \in Job, s \in Stage : Return(w, j, s)
    \/ \E w \in Worker, j \in Job : Drop(w, j)

Spec == Init /\ [][Next]_boardVars
=============================================================================
