CONSTANTS
  Clients = {"c1", "c2"}
  Manager = "manager"
  Unreadable = {2}
  MaxWrites = 3
  Scopes <- FourScopes
  Contexts = {"k"}
  Callers = {"p1", "p2", "p3"}
  ContextsOf <- SomeContexts
SPECIFICATION Spec
INVARIANTS WatcherCurrent SubscribersCurrent OneConnection
PROPERTIES CallsReturn
CHECK_DEADLOCK FALSE
