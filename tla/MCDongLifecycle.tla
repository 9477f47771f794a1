--------------------------- MODULE MCDongLifecycle ---------------------------
EXTENDS DongLifecycle, TLC

\* Workers, jobs and listings are each interchangeable.
Symm == Permutations(Worker) \cup Permutations(Job) \cup Permutations(Article)
=============================================================================
