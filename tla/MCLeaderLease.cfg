\* Two calls in one tab and one in another; a tab that stalls, a tab that is
\* closed.  Settle outlasts the sections other tabs are in.
SPECIFICATION FairSpec
CONSTANTS
  a1 = a1
  a2 = a2
  b1 = b1
  A = A
  B = B
  Gone = Gone
  NoLease = NoLease
  Runs = {a1, a2, b1}
  Tabs = {A, B}
  Tab <- MCTab
  Timely = TRUE
  MaxStalls = 1
  MaxCrashes = 1
INVARIANTS
  TypeOK
  OneLeader
  OneLeaderPerTab
  NoLeaseLeftBehind
PROPERTY
  OrphanIsReclaimed
CHECK_DEADLOCK FALSE
