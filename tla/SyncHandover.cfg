CONSTANTS
  c1 = c1
  c2 = c2
  Containers = {c1, c2}
  None = None
  MaxUpdates = 3
  Events = {"syncErr", "openErr", "close"}
SPECIFICATION FairSpec
INVARIANTS Handover OneReader SourcesRead
PROPERTIES AllHandled
CHECK_DEADLOCK FALSE
