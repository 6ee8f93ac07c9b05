SPECIFICATION Spec
CONSTANTS
  Applications = {v1, v2}
  MaxSteps = 1
  MaxPeriods = 2
  MaxAssignments = 3
  MaxDay = 3
  Calls = {c1, c2}
  None = None
  Corrections = {2}
INVARIANTS
  LifecycleTypeOK
  OneDepartmentPerDay
  EndedPeriodIsLeft
  ChainOfPeriods
  EndedByCompletedConversion
SYMMETRY Symmetry
CHECK_DEADLOCK FALSE
