CONSTANTS
  p1 = p1
  p2 = p2
  r1 = r1
  r2 = r2
  w1 = w1
  w2 = w2
  q1 = q1
  q2 = q2
  q3 = q3
  NONE = NONE
  NOROW = NOROW
  Procs <- TwoProcs
  Readers <- TwoReaders
  Writers <- TwoWriters
  TTL = 2
  MaxLoad = 1
  MaxTime = 5
  Requests <- ThreeRequests
  Keys = {1, 2}
  CLI = 0
  Calls <- SomeCalls
  ScopesOf <- Scopes
  ActsFor <- Principals
SPECIFICATION PoliciesSpec
SYMMETRY Interchangeable
INVARIANTS
  StalenessBounded
  OwnWritesVisible
  RecordsAgree
  OnlyIdleCallsDeadlock
PROPERTIES
  RevocationStands
CHECK_DEADLOCK FALSE
