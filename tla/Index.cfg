CONSTANTS
  Objects <- SomeObjects
  Kind <- SomeKinds
  Name <- SomeNames
  Owners <- SomeOwners
  NodeOf <- SomeNodes
  Paths <- SomePaths
  MaxChanges = 3
  Events = {"relist", "reown"}
SPECIFICATION FairSpec
INVARIANTS SourcesTrue
PROPERTIES InSync
CHECK_DEADLOCK FALSE
