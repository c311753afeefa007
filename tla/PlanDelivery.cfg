SPECIFICATION FairSpec
CONSTANTS
  Manifests <- MCManifests
  MaxEdits = 2
  MaxPrs = 1
  MaxFaults = 1
  MaxJobs = 2
INVARIANTS PrCarriesWork MergedWhenDone
PROPERTY FinalizeEnds
CHECK_DEADLOCK FALSE
