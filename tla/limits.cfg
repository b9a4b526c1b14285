SPECIFICATION LimitSpec
CONSTANTS
  api = api
  u1 = u1
  u2 = u2
  d1 = d1
  d2 = d2
  k1 = k1
  storage = storage
  events = events
  served = served
  None = None
  NoLimit = NoLimit
  Procs = {api}
  Requests = {u1, u2, d1, d2, k1}
  Host <- AllOnApi
  Kind <- KindOf
  Production = TRUE
  Faults = {"save"}
  MaxInFlight = 2
  MaxCrashes = 1
  Meters = {storage, events, served}
  Limit <- LimitOf
  Cost <- CostOf
  Declared <- DeclaredOf
  Used <- UsedBy
  Checks <- AllChecked
  Uploads = {u1, u2}
  RiskOf <- RiskAfter
SYMMETRY Alike
INVARIANTS
  LimitTypeOK
  LimitsHold
  AnsweredFitLimits
