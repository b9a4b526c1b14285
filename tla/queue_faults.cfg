SPECIFICATION Spec
CONSTANTS
  w1 = w1
  w2 = w2
  t1 = t1
  t2 = t2
  a1 = a1
  a2 = a2
  Workers = {w1, w2}
  Tasks = {t1, t2}
  Admins = {a1, a2}
  Flaky = {t1, t2}
  RetryLimit = 2
  BatchSize = 2
  MaxEntries = 2
  MaxFaults = 1
INVARIANTS
  TypeOK
  NothingIsLost
  DeadLettersHaveFailed
  DeadLettersAreUndone
  OneCopy
SYMMETRY Symmetry
