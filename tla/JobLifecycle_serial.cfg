SPECIFICATION Spec
CONSTANTS
  LastStep = 3
  r1 = r1
  Runs = {r1}
  Hosts = {"daemon", "foreground"}
  StatusMayBeLost = TRUE
  Pausing = TRUE
INVARIANTS TypeOK EarlierStepsDone EntryMatchesRun RecordsAgree
PROPERTY KillSticks
