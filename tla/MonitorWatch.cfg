CONSTANTS
  w1 = w1
  r1 = r1
  Watchers = {w1}
  Waiters = {r1}
  Slices = {1, 2}
  Name <- SameName
  MaxChanges = 2
  MaxLeaves = 1
SPECIFICATION FairSpec
INVARIANTS CacheCurrent StatusTrue WaitedForReady Current
PROPERTY NobodyHeld
CHECK_DEADLOCK FALSE
