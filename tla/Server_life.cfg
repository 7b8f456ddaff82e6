SPECIFICATION FairSpec
CONSTANTS
  Servers = {s1, s2}
  s1 = s1
  s2 = s2
  None = None
INVARIANT TypeOK
INVARIANT ReturnsOnlyIfStopped
INVARIANT StoppedForGood
PROPERTY StopEndsRun
CHECK_DEADLOCK FALSE
