SPECIFICATION Spec
CONSTANTS
  FixBase = 2
  MaxId = 3
  MaxCalls = 3
INVARIANTS OriginalWavesPreserved
CHECK_DEADLOCK FALSE
