SPECIFICATION FairSpec
CONSTANTS
  Waves = {1, 2, 3}
  Agents = {1, 2, 3}
  MaxRetries = 2
INVARIANTS TypeOK SmallestReadyFirst CycleRefused TransientBudgetSpent
PROPERTIES OnlyTransientRerun ImplementsDag Terminates
CHECK_DEADLOCK FALSE
