SPECIFICATION Spec
CONSTANTS
  Endianness = {TRUE}
  Evaluates <- MCEvaluates
  Schema <- MCTwoBytePids
  Requests <- MCTwoByteRequests
  Payloads <- MCFivePayload
  Foreign <- MCNoForeign
  MaxInFlight = 2
  MaxAnswers = 1
INVARIANTS
  PayloadFits
