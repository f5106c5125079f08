SPECIFICATION PipelineSpec
CONSTANTS
  Exprs <- MCTexts
  Types = {"float", "uint8"}
  LitValue <- MCLitValue
  LONG_MAX = 60
  FLT_MAX = 60
  OP_STACK_SIZE = 20
  OUT_STACK_SIZE = 50
  Frames <- MCFrames
  INT32_SPAN = 64
INVARIANTS
  ValueIsInfix
  OpStackNeed
PROPERTIES
  CompilesTheSyntaxTree
