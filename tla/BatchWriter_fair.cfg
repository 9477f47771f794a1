SPECIFICATION FairSpec
CONSTANTS
 Task = {t1, t2}
 Main = main
 NoClient = none
 Rows = 2
 QueueSize = 2
 BatchSize = 2
INVARIANTS
 StoredIsPrefix
 FlushMeansStored
 CloseMeansAllStored
PROPERTY
 AnswersCome
CHECK_DEADLOCK FALSE
