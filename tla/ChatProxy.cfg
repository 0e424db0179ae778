CONSTANTS
  Algorithm = "deny_overrides"
  DefaultEffect = "deny"
  Actions = {"infer", "return"}
  Labels <- PiiOnly
  ScanLimit = 2
  HasTokenizer = FALSE
  Models <- ThreeModels
  Rules <- SevenRules
  Prompts <- SomePrompts
  Answers <- SomeAnswers
  Asked <- Callers
  Purposes <- ChatOrSupport
  TokenLimits <- AnyTokens
  Backends <- NotCh
  MaxEdits = 1
SPECIFICATION Spec
INVARIANTS
  SentAsDecided
  DeliveredAsDecided
  RedactedAsDecided
  MoreRulesNeverLoosen
  RedeemingShedsNothing
CHECK_DEADLOCK FALSE
