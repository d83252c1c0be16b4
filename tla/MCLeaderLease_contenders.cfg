\* Two tabs start at the same time, and one is slow between reading and writing.
SPECIFICATION Spec
CONSTANTS
  a1 = a1
  a2 = a2
  b1 = b1
  A = A
  B = B
  Gone = Gone
  NoLease = NoLease
  Runs = {a1, a2, b1}
  Tabs = {A, B}
  Tab <- MCTab
  Timely = FALSE
  MaxStalls = 0
  MaxCrashes = 0
INVARIANT
  OneLeader
CHECK_DEADLOCK FALSE
