SPECIFICATION Spec
CONSTANTS
  Invocations  <- Calls
  Descriptions <- MCDescriptions
  NumberOf     <- MCNumberOf
INVARIANTS
  MergesAll
