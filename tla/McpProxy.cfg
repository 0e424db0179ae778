CONSTANTS
  Algorithm = "deny_overrides"
  DefaultEffect = "deny"
  Actions = {"read", "write", "execute", "delete", "return"}
  Labels <- PiiOnly
  ScanLimit = 2
  HasTokenizer = FALSE
  Models <- NoModels
  Rules <- SixRules
  Requests <- SomeRequests
  Results <- SomeResults
  Listings <- SomeListings
  Ids = {"1"}
  NoId = "none"
  Names <- AllNames
  NoName = ""
  MaxEdits = 1
SPECIFICATION Spec
INVARIANTS
  CallsGoAsDecided
  ResultsComeBackAsDecided
  OutcomesAreTrue
  OfferedAsDeclared
CHECK_DEADLOCK FALSE
