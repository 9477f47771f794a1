SPECIFICATION FairSpec
CONSTANTS
 Request = {r1, r2, r3}
 JobStart = job
 MinLimit = 1
 MaxLimit = 2
 InitialLimit = 2
 SuccessRun = 1
 MaxTries = 1
 MaxSessions = 2
INVARIANTS
 NewSessionIsKept
 RepeatedWithNewSession
PROPERTIES
 LimitTakesHold
 SomeCallEnds
