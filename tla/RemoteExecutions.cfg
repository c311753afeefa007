SPECIFICATION FairSpec
CONSTANTS
  DaemonClients = {d1}
  CliClients = {c1}
  MaxPrs = 2
  MaxFaults = 1
INVARIANTS RecordTruthful
PROPERTIES SuccessStands Settles
CHECK_DEADLOCK FALSE
