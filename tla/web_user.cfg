SPECIFICATION Spec
CONSTANTS
  a1 = a1
  a2 = a2
  a3 = a3
  i1 = i1
  Accounts = {a1, a2, a3}
  Members = {a1, a2}
  Nobody = Nobody
  Images = {i1}
  Owner <- MCOwner
  Journeys <- MCJourneys
  MaxWrites = 1
INVARIANTS
  TypeOK
  ShownUserOwnsToken
  TokenIsChecked
  PageIsServers
  RowsAreServers
  NothingSpinsForever
