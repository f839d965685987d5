SPECIFICATION Spec
CONSTANTS
  i1 = i1
  i2 = i2
  i3 = i3
  p1 = p1
  p2 = p2
  p3 = p3
  p4 = p4
  Instance <- TwoInstances
  Pid <- ThreePids
  Foreign = FALSE
INVARIANTS
  SameBotRunsOnce
