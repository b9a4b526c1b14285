SPECIFICATION LiveSpec
CONSTANTS
  w1 = w1
  w2 = w2
  t1 = t1
  t2 = t2
  a1 = a1
  a2 = a2
  Workers = {w1, w2}
  Tasks = {t1}
  Admins = {}
  Flaky = {t1}
  RetryLimit = 2
  BatchSize = 1
  MaxEntries = 1
  MaxFaults = 2
PROPERTY EveryTaskSettles
