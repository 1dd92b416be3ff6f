CONSTANTS
  n1 = n1
  n2 = n2
  Namespaces <- TwoNamespaces
  Names <- ThreeNames
  Initials <- SomeInitials
  Limit = 2
  Kinds = {"list", "count"}
  MaxChanges = 2
  MaxLosses = 1
SPECIFICATION Spec
INVARIANTS ViewConsistent CountTrue
PROPERTIES EndsTogether
CHECK_DEADLOCK FALSE
