SPECIFICATION Spec
CONSTANTS
  Manifests <- MCManifests
  MaxEdits = 2
  MaxPrs = 2
  MaxFaults = 2
  MaxJobs = 2
INVARIANT SummaryOfFinalized
CHECK_DEADLOCK FALSE
