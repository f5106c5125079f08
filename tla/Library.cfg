\* Every document, and every operation of the system may fail at any time.
SPECIFICATION Spec
CONSTANTS
  Documents <- MCDocuments
  Malformed <- MCMalformed
  MayFail   <- MCMayFail
  NotInfix  <- MCNotInfix
  Evaluates <- MCEvaluates
  Payloads  <- LibraryPayloads
INVARIANTS
  EntriesOwnTheirBlocks
  NothingLeaks
  OnlyLateFailuresKill
  PassedThroughCanBeRead
  StopsOnlyAtGaps
  AnswersMeanTheDocument
PROPERTIES
  LoadsTheDocument
  LoadReturns
