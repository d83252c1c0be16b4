\* One sale, two overlapping drains, every request answered, delayed or lost, one
\* crash or stall at the tills and one failure or crash at the server.
SPECIFICATION Spec
CONSTANTS
  d1 = d1
  d2 = d2
  t1 = t1
  t2 = t2
  Drains = {d1, d2}
  Sales = {t1}
  MaxRetryAttempts = 2
  BatchSize = 2
  SendConcurrency = 2
  WebLocks = FALSE
  TillFaults = {"crash", "stall"}
  MaxTillFaults = 1
  Qty <- MCQty
  InitialStock = 2
  ServerFaults = {"statement", "crash"}
  MaxServerFaults = 1
INVARIANTS
  SentIsRecorded
  SentAtOnceIsCharged
PROPERTY
  KeepsPromise
CHECK_DEADLOCK FALSE
