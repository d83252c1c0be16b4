\* One drain at a time under the leader lock, two sales and an order update, which
\* may cancel a line, in batches of two, with a crash or a stalled heartbeat anywhere.
SPECIFICATION Spec
CONSTANTS
  d1 = d1
  d2 = d2
  t1 = t1
  t2 = t2
  o1 = o1
  Drains = {d1, d2}
  TxJobs = {t1, t2}
  OrderJobs = {o1}
  CancelJobs = {o1}
  MaxRetryAttempts = 2
  BatchSize = 2
  SendConcurrency = 2
  WebLocks = TRUE
  FaultKinds = {"crash", "stall"}
  MaxFaults = 1
INVARIANTS
  BackoffRespected
  GivenUpAfterFailures
  RowAgreesWithJob
SYMMETRY Symmetry
CHECK_DEADLOCK FALSE
