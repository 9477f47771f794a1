SPECIFICATION ViewportSpec
CONSTANTS
  Complexes = {1, 2}
  Addresses = {"a", "b"}
  Place <- MCPlace
  Nowhere = Nowhere
  BatchSize = 1
  MaxBatches = 2
  MaxRequests = 2
  MaxMoves = 1
  MaxDeaths = 1
  Articles = {1, 2, 3}
  InComplex <- MCInComplex
  Region <- MCRegion
  price <- MCPrice
  Zooms = {8, 12, 14, 15}
INVARIANTS
  SqlAndStreamAgree
  NothingIsLostOnTheMap
  MarkersStandAtTheirAddress
PROPERTY
  PendingIsAttempted
