SPECIFICATION Spec
CONSTANTS
  Programs <- MCPrograms
  Types = {"float", "uint8"}
  Frames <- MCFrames
  INT32_SPAN = 8
INVARIANTS
  EvalStackFits
  OutcomeIsStatic
PROPERTIES
  EvaluationEnds
