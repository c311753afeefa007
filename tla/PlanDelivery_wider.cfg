SPECIFICATION Spec
CONSTANTS
  Manifests <- MCManifests
  MaxEdits = 2
  MaxPrs = 2
  MaxFaults = 1
  MaxJobs = 2
INVARIANTS TypeOK PrCarriesWork MergedWhenDone
CHECK_DEADLOCK FALSE
