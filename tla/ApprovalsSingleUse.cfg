CONSTANTS
  o1 = o1
  o2 = o2
  o3 = o3
  o4 = o4
  f1 = f1
  f2 = f2
  s1 = s1
  s2 = s2
  NONE = NONE
  Ops <- Ops4
  Fingerprints <- OneQuestion
  Streams <- OneStream
  PrincipalStream <- AllInS1
  TTL = 1
  MaxTime = 1
  MaxEdits = 0
SPECIFICATION Spec
SYMMETRY Interchangeable
INVARIANTS
  SingleUse
CHECK_DEADLOCK FALSE
