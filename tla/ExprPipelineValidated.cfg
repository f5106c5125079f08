SPECIFICATION PipelineSpec
CONSTANTS
  Exprs <- MCValidated
  Types = {"float", "uint8"}
  LitValue <- MCLitValue
  LONG_MAX = 1000
  FLT_MAX = 1000
  OP_STACK_SIZE = 20
  OUT_STACK_SIZE = 50
  Frames <- MCFrames
  INT32_SPAN = 64
INVARIANTS
  ValidatedIsSafe
