SPECIFICATION Spec
CONSTANTS
  Rows = {1, 2, 3, 4}
  Values = {1, 2}
  ComplexOf <- MCComplexOf
  Streams = {"a", "b"}
  StreamsOf <- MCStreamsOf
  PageSize = 1
  BatchSize = 2
  MaxChanges = 1
  Nil = Nil
INVARIANT
  WalkIsTheList
PROPERTIES
  StableShownOnce
  PreviousLeadsBack
