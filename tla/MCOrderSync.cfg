SPECIFICATION Spec
CONSTANTS
  Calls = {c1, c2}
  Items <- MCItems
  MaxQty = 1
  Carts <- MCCarts
  MaxChanges = 2
  MaxAttempts = 2
  MaxRequests = 3
  Drains = 1
  FaultKinds = {"statement", "crash", "tab"}
  MaxFaults = 1
SYMMETRY Symmetry
INVARIANTS TypeOK AckedIsRecorded SnapshotIsWhole ServerCatchesUp
CHECK_DEADLOCK FALSE
