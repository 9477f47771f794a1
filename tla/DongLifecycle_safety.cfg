SPECIFICATION Spec
CONSTANTS
 Job = {j1, j2, j3}
 Worker = {w1, w2}
 Article = {a1}
 NoJob = NoJob
 MaxAttempts = 2
 MaxRepeats = 1
SYMMETRY Symm
INVARIANTS
 RemovedAfterTwoJobs
PROPERTIES
 FailedDongNeverAges
 AgesOnlyUnobservedAlone
CHECK_DEADLOCK FALSE
