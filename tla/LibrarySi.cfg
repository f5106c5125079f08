\* Every raw unit, and nothing fails.
SPECIFICATION Spec
CONSTANTS
  Documents <- UnitDocuments
  Malformed <- MCMalformed
  MayFail   = {}
  NotInfix  <- MCNotInfix
  Evaluates <- MCEvaluates
  Payloads  <- LibraryPayloads
INVARIANTS
  ValuesAreSi
