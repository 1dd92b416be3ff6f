CONSTANTS
  s1 = s1
  s2 = s2
  Sources = {s1, s2}
  Options <- HeadAndTail
  MaxNum = 2
  Feeds <- MCFeeds
  MaxLen = 2
  MaxTime = 3
SPECIFICATION FairSpec
INVARIANTS SentSorted WindowOrError WindowUnlessFailed
PROPERTIES AllEnd MergeSpec
