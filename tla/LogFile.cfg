CONSTANTS
  Cases <- MCCases
  Chunk = 2
SPECIFICATION Spec
INVARIANTS TypeOK SearchExact WindowSent FollowExact
PROPERTIES CatchesUp Ends
CHECK_DEADLOCK FALSE
