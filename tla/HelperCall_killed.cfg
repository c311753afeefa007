SPECIFICATION Spec
CONSTANTS
  Texts <- MCTexts
  MaxLines = 2
  Cap = 0
  TransientMax = 1
  ProtocolMax = 1

PROPERTIES KillStops
CHECK_DEADLOCK FALSE
