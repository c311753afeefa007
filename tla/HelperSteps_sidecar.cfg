SPECIFICATION Spec
CONSTANTS
  MaxIterations = 3
  TransientMax = 3
  ProtocolMax = 1
  Findings = {f1, f2}
  f1 = f1
  f2 = f2
  MaxResumes = 1
INVARIANT SidecarIsOwn
CHECK_DEADLOCK FALSE
