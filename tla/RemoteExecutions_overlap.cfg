SPECIFICATION FairSpec
CONSTANTS
  DaemonClients = {d1}
  CliClients = {c1}
  MaxPrs = 2
  MaxFaults = 0
PROPERTIES TransitionsLand
CHECK_DEADLOCK FALSE
