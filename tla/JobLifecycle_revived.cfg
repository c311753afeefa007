SPECIFICATION Spec
CONSTANTS
  LastStep = 2
  r1 = r1
  r2 = r2
  Runs = {r1, r2}
  Hosts = {"daemon"}
  StatusMayBeLost = FALSE
  Pausing = FALSE
SYMMETRY RunSymmetry
PROPERTY KilledRunStops
