CONSTANTS
  s1 = s1
  Sources = {s1}
  Late = {}
  Options <- TailFollow
  MaxNum = 1
  Fetcher = "kube"
  MaxAdds = 0
  MaxWrites = 1
  Events = {"leave"}
SPECIFICATION Spec
INVARIANT NoSendOnOut
