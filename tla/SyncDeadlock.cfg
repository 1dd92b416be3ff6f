CONSTANTS
  c1 = c1
  c2 = c2
  Containers = {c1, c2}
  None = None
  MaxUpdates = 1
  Events = {}
SPECIFICATION FairSpec
PROPERTY StartReturns
CHECK_DEADLOCK FALSE
