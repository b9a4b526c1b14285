SPECIFICATION Spec
CONSTANTS
  api = api
  worker = worker
  p1 = p1
  p2 = p2
  d1 = d1
  t1 = t1
  None = None
  Procs = {api}
  Requests = {p1, d1, t1}
  Host <- AllOnApi
  Kind <- KindOf
  Production = TRUE
  Faults = {"save", "unknown", "delivery"}
  MaxInFlight = 1
  MaxCrashes = 2
PROPERTY KeepsPromise
