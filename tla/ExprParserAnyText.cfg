SPECIFICATION Spec
CONSTANTS
  Exprs <- MCAnyText
  Types = {"float", "int32"}
  LitValue <- MCLitValue
  LONG_MAX = 60
  FLT_MAX = 80
  OP_STACK_SIZE = 3
  OUT_STACK_SIZE = 3
INVARIANTS
  TypeOK
  PrecedenceLadder
  Evaluable
  CompiledIsMatched
  AssertsOnlyMalformed
PROPERTIES
  Termination
