SPECIFICATION FairSpec
CONSTANTS
  Agents = {a1}
  MaxDispatches = 2
  MaxLines = 2
  Prompts <- MCPrompts
  StallTimeout = 1
  HardCap = 2
INVARIANTS EveryAgentKillable PayloadIsResult BlocksOnce
PROPERTIES NoFalseKill JobEnds ResultReturns
CHECK_DEADLOCK FALSE
