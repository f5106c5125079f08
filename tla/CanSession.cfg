SPECIFICATION Spec
CONSTANTS
  Endianness = {TRUE, FALSE}
  Evaluates <- MCEvaluates
  Schema <- MCSchema
  Requests <- MCRequests
  Payloads <- MCPayloads
  Foreign <- MCForeign
  MaxInFlight = 2
  MaxAnswers = 2
INVARIANTS
  ValueWasGiven
  OnlyAskedFor
  AnswersAreReadable
  NothingStale
