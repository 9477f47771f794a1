SPECIFICATION FairSpec
CONSTANTS
 Article = {1, 2, 3}
 AtJobEnd = {job}
 Sweeper = {sweep}
 Unclaimed = unclaimed
 Gone = gone
 BatchSize = 2
 MaxBatches = 2
 Expiry = 0
 Changing = {2}
INVARIANTS
 CheckedOnce
 ClaimHolds
PROPERTIES
 UncheckedIsTriedAgain
 OnlyDeathLeavesClaims
CHECK_DEADLOCK FALSE
