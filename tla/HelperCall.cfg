SPECIFICATION Spec
CONSTANTS
  Texts <- MCTexts
  MaxLines = 2
  Cap = 0
  TransientMax = 1
  ProtocolMax = 1
INVARIANT AnswerInTime
PROPERTY LeftoverIsKilled
CHECK_DEADLOCK FALSE
