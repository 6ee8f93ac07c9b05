SPECIFICATION Spec
CONSTANTS
  Definitions = {d1, d2}
  MaxVersions = 2
  NodeLists = {n1, n2}
  Requests = {r1}
  Calls = {c1, c2}
  None = None
INVARIANTS
  FlowTypeOK
  PublishedIsUsable
  BoundVersionsKept
  ArchivedTogether
SYMMETRY Symmetry
CHECK_DEADLOCK FALSE
