\* One sale, pushed once or twice; the stock does not suffice.
SPECIFICATION Spec
CONSTANTS
  t1 = t1
  t2 = t2
  p1 = p1
  p2 = p2
  r1 = r1
  r2 = r2
  NoPayload = NoPayload
  Txs = {t1}
  Payloads = {p1}
  Requests = {r1, r2}
  Qty <- MCQty
  InitialStock = 0
  FaultKinds = {}
  MaxFaults = 0
INVARIANT
  DocumentIsWhole
CHECK_DEADLOCK FALSE
