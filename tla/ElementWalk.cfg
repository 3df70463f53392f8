SPECIFICATION Spec
CONSTANTS
  Elements = {0, 1, 2, 3}
INVARIANTS
  AnswerIsRight
  OperatorIsLoop
PROPERTIES
  WalkEnds
CHECK_DEADLOCK FALSE
