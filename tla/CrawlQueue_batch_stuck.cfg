SPECIFICATION FairSpec
CONSTANTS
 Worker = {w1}
 Enqueuer = {e1}
 MaxJobs = 1
 BatchSize = 1
 MaxAttempts = 2
 Lease = 2
 Beat = 1
 MaxBackoff = 1
 Horizon = 1
 MaxStops = 2
PROPERTY
 BatchesEnd
