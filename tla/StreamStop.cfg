CONSTANTS
  s1 = s1
  s2 = s2
  Sources = {s1}
  Late = {}
  Options <- Tailing
  MaxNum = 1
  Fetcher = "agent"
  MaxAdds = 1
  MaxWrites = 1
  Events = {"exit", "delete", "futErr", "leave", "openErr", "pastErr"}
SPECIFICATION FairSpec
INVARIANTS EndsForAReason
PROPERTIES Stops Delivered
CHECK_DEADLOCK FALSE
