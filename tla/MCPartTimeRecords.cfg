SPECIFICATION Spec
CONSTANTS
  Applications = {p1, p2}
  Duties = {d1}
  MaxDay = 2
  MaxSteps = 2
  Calls = {c1, c2}
  None = None
INVARIANTS
  PartTimeTypeOK
  InForceOnlyWhenDue
  RecordFollowsApproval
  SeriallyDisjoint
SYMMETRY Symmetry
CHECK_DEADLOCK FALSE
