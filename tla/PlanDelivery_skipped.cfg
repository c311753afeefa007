SPECIFICATION Spec
CONSTANTS
  Manifests <- Skipping
  MaxEdits = 2
  MaxPrs = 2
  MaxFaults = 2
  MaxJobs = 2
INVARIANTS SkippedPrIsNotOpened
CHECK_DEADLOCK FALSE
