SPECIFICATION Spec
CONSTANTS
  Endianness = {FALSE}
  Evaluates <- MCEvaluates
  Schema <- MCThreeBytes
  Requests <- MCThreeRequests
  Payloads <- MCThreePayload
  Foreign <- MCNoForeign
  MaxInFlight = 2
  MaxAnswers = 1
INVARIANTS
  ValueWasGiven
