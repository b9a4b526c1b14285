SPECIFICATION LiveSpec
CONSTANTS
  api = api
  worker = worker
  p1 = p1
  p2 = p2
  d1 = d1
  t1 = t1
  None = None
  Procs = {api}
  Requests = {p1, p2, d1}
  Host <- AllOnApi
  Kind <- KindOf
  Production = TRUE
  Faults = {"save", "delivery"}
  MaxInFlight = 3
  MaxCrashes = 1
INVARIANTS
  AckedIsDurable
  SoloRefusedLeavesNoTrace
PROPERTY EveryRequestSettles
