CONSTANTS
  Modes = {"window", "buffer"}
  Window = 2
  GovernEvery = 2
  SecretLen = 3
  MaxAnswer = 7
  MaxPiece = 3
  Payloads <- SomePayloads
  Detectors <- FourDetectors
  Severity <- Rank
  Shapeless <- NoShape
  RuleLists <- SomeRules
  Floors = {0, 50}
  MaxChars = 6
  MaxDepth = 2
  MaxValue = 2
  Processes = {1, 2}
  Retired = 1
  MaxGeneration = 2
  Documents <- SomeDocuments
  AccessRequests <- SomeRequests
  MoreLabels <- SomeLabels
  Sorted <- InOrder
  Index <- Places
  Malformed <- OddPlaces
  Attributes <- Members
  Float <- Rounded
  MaxFloat = 8
SPECIFICATION PayloadsSpec
INVARIANTS
  NothingSensitiveDelivered
  StreamEndsAsReported
  OnlyFindingsTouched
  LeftoversExplained
  TokensReadBack
  AnswersAsWritten
  MoreLabelsStillMatch
CHECK_DEADLOCK FALSE
