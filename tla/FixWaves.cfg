SPECIFICATION Spec
CONSTANTS
  FixBase = 2
  MaxId = 3
  MaxCalls = 3
INVARIANT ScopeHasOrder
PROPERTY KnownWavesKept
CHECK_DEADLOCK FALSE
