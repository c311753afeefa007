SPECIFICATION FairSpec
CONSTANTS
  Agents = {a1}
  MaxDispatches = 2
  MaxLines = 2
  Prompts <- MCPrompts
  StallTimeout = 1
  HardCap = 2
PROPERTIES DispatchReturns
CHECK_DEADLOCK FALSE
