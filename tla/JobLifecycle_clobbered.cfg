SPECIFICATION Spec
CONSTANTS
  LastStep = 3
  r1 = r1
  Runs = {r1}
  Hosts = {"foreground"}
  StatusMayBeLost = FALSE
  Pausing = FALSE
PROPERTY EndKeepsStatuses
