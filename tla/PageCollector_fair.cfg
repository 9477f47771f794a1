SPECIFICATION FairSpec
CONSTANTS
 Complex = {c1, c2, c3}
 MaxWorkers = 2
 MaxPages = 2
INVARIANTS
 CompleteMeansEveryPage
 ReturnLeavesNobody
PROPERTIES
 CollectionEnds
CHECK_DEADLOCK FALSE
