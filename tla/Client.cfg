CONSTANTS
  c1 = c1
  c2 = c2
  c3 = c3
  NONE = NONE
  Calls <- ThreeCalls
  Duties = {"redact", "watermark"}
  ControlPlane = {"redact"}
  Keys <- TwoKeys
  Starts <- SomeStarts
  Becomes <- SomeEdits
  Abilities = {{"watermark"}, {"redact", "watermark"}}
  Skips = {{"watermark"}}
  TTL = 2
  Size = 1
  Timeout = 1
  Retries = 1
  Patience = 1
  MaxApprovals = 2
  MaxEdits = 1
SPECIFICATION Spec
SYMMETRY Interchangeable
INVARIANTS
  AllowsAreGivenAndFresh
  OneRedemptionEach
  HonestReportsStand
  RecordMatchesTrail
CHECK_DEADLOCK FALSE
