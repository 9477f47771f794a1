SPECIFICATION FairSpec
CONSTANTS
 Worker = {w1, w2}
 Enqueuer = {}
 MaxJobs = 2
 BatchSize = 1
 MaxAttempts = 2
 Lease = 2
 Beat = 1
 MaxBackoff = 1
 Horizon = 1
 MaxStops = 1
PROPERTIES
 PendingIsClaimed
 OrphanIsRetried
