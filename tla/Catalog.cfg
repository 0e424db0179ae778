CONSTANTS
  c1 = c1
  c2 = c2
  c3 = c3
  NONE = NONE
  Calls <- ThreeCalls
  Urns <- TwoUrns
  Covering <- Covers
  Labels <- TwoLabels
  Levels <- TwoLevels
  Seeded <- Everything
  SeedRows <- SomeRows
  Jobs <- SomeJobs
SPECIFICATION Spec
INVARIANTS
  LastScanStands
  ResolvedIsComplete
PROPERTIES
  HumanAssertionsStand
  RunsAreWhole
CHECK_DEADLOCK FALSE
