SPECIFICATION Spec
CONSTANTS
  Servers = {s1, s2}
  s1 = s1
  s2 = s2
  None = None
INVARIANT CtrlCStops
CHECK_DEADLOCK FALSE
