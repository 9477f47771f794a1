SPECIFICATION Spec
CONSTANTS
 Worker = {w1, w2}
 Enqueuer = {e1}
 MaxJobs = 2
 BatchSize = 1
 MaxAttempts = 2
 Lease = 2
 Beat = 1
 MaxBackoff = 2
 Horizon = 1
 MaxStops = 2
SYMMETRY Symm
INVARIANTS
 LeaseRow
 ExecutesUnderLease
 OneExecutor
 OneActiveBatch
PROPERTIES
 EndIsFinal
 BoardSpec
