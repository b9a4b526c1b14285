SPECIFICATION Spec
CONSTANTS
  t1 = t1
  t2 = t2
  x1 = x1
  x2 = x2
  Tabs = {t1, t2}
  Rows = {x1, x2}
  Free = x2
  Config = Config
  Quotas = {1, 8}
  Journeys <- MCJourneys
INVARIANTS
  TypeOK
  ConsoleHasSession
  BusyIsInFlight
  SubmittedIsShown
  GateIsTrue
  RowsAreServers
  QuotaIsWanted
