SPECIFICATION PipelineSpec
CONSTANTS
  Exprs <- MCWord
  Types = {"uint32"}
  LitValue <- MCLitValue
  LONG_MAX = 1000
  FLT_MAX = 1000
  OP_STACK_SIZE = 20
  OUT_STACK_SIZE = 50
  Frames <- MCWordFrames
  INT32_SPAN = 256
INVARIANTS
  UnsignedIsKept
