SPECIFICATION Spec
CONSTANTS
  Endianness = {TRUE}
  Evaluates <- MCEvaluates
  Schema <- MCTwoBytePids
  Requests <- MCTwoByteRequests
  Payloads <- MCOnePayload
  Foreign <- MCNoForeign
  MaxInFlight = 2
  MaxAnswers = 1
INVARIANTS
  OnlyAskedFor
