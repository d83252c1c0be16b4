\* Two sales in two versions each, pushed twice alone or together, in any
\* order, with too little stock for both and one fault anywhere.
SPECIFICATION Spec
CONSTANTS
  t1 = t1
  t2 = t2
  p1 = p1
  p2 = p2
  r1 = r1
  r2 = r2
  NoPayload = NoPayload
  Txs = {t1, t2}
  Payloads = {p1, p2}
  Requests = {r1, r2}
  Qty <- MCQty
  InitialStock = 2
  FaultKinds = {"statement", "crash"}
  MaxFaults = 1
INVARIANTS
  TypeOK
  ChargedOnce
  StockAccounts
  AnswerIsTrue
  UnchargedIsReported
PROPERTY
  DocumentIsFinal
SYMMETRY Symmetry
CHECK_DEADLOCK FALSE
