\* Overlapping drains of two tabs without the leader lock, with a crash, a
\* stalled heartbeat or a failing IndexedDB write anywhere.
SPECIFICATION AttendedSpec
CONSTANTS
  d1 = d1
  d2 = d2
  t1 = t1
  t2 = t2
  o1 = o1
  Drains = {d1, d2}
  TxJobs = {t1}
  OrderJobs = {o1}
  CancelJobs = {}
  MaxRetryAttempts = 2
  BatchSize = 2
  SendConcurrency = 2
  WebLocks = FALSE
  FaultKinds = {"crash", "storage", "stall"}
  MaxFaults = 1
INVARIANTS
  TypeOK
  OneHolder
  AttemptsBounded
  NoSendPastCeiling
PROPERTIES
  StaleAnswerIgnored
  SettledIsFinal
  EveryJobSettles
CHECK_DEADLOCK FALSE
