SPECIFICATION Spec
CONSTANTS
  LastStep = 3
  r1 = r1
  Runs = {r1}
  Hosts = {"daemon"}
  StatusMayBeLost = FALSE
  Pausing = FALSE
INVARIANT NoFailedStepBeforeSummary
