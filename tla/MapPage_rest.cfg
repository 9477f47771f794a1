SPECIFICATION Spec
CONSTANTS
  Filters = {"price", "region"}
  Keyed = {"price"}
  Forms = {{"price"}, {"region"}}
  Views = {"V1", "V2", "Far"}
  Start = "V1"
  Close = {"V1", "V2"}
  Zoomed <- MCZoomed
  Centre <- MCCentre
  Nil = Nil
  Everywhere = Everywhere
  MaxOps = 3
CHECK_DEADLOCK FALSE
INVARIANTS
  SettledMapShowsViewport
  SettledListShowsViewport
PROPERTY
  PageSettles
