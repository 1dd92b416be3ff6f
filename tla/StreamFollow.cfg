CONSTANTS
  s1 = s1
  s2 = s2
  Sources = {s1}
  Late = {s2}
  Options <- EveryKind
  MaxNum = 1
  Fetcher = "kube"
  MaxAdds = 1
  MaxWrites = 3
  Events = {"futErr", "ctx", "openErr", "pastErr"}
SPECIFICATION Spec
INVARIANTS TypeOK NoSendOnOut NoSendOnFuture OutOrder NoLoss
CHECK_DEADLOCK FALSE
