SPECIFICATION Spec
CONSTANTS
  Employees = {e1, e2, e3}
  Calls = {c1, c2}
  LastDay = 1
  MaxRows = 4
INVARIANTS
  ReportingTypeOK
  ShownIsForest
  LinesInOrder
SYMMETRY Symmetry
CHECK_DEADLOCK FALSE
