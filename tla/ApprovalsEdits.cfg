CONSTANTS
  o1 = o1
  o2 = o2
  o3 = o3
  o4 = o4
  f1 = f1
  f2 = f2
  s1 = s1
  s2 = s2
  NONE = NONE
  Ops <- Ops3
  Fingerprints <- TwoQuestions
  Streams <- OneStream
  PrincipalStream <- AllInS1
  TTL = 1
  MaxTime = 1
  MaxEdits = 1
SPECIFICATION Spec
SYMMETRY Interchangeable
INVARIANTS
  RedemptionIsBacked
ACTION_CONSTRAINT EditTells
CHECK_DEADLOCK FALSE
