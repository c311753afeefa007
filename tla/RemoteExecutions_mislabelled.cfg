SPECIFICATION FairSpec
CONSTANTS
  DaemonClients = {d1}
  CliClients = {}
  MaxPrs = 1
  MaxFaults = 0
INVARIANTS FailedIsFailed
CHECK_DEADLOCK FALSE
