SPECIFICATION Spec
CONSTANTS
  Records = {p1, p2}
  Requests = {r1, r2}
  Users = {u1, u2}
  Calls = {c1, c2}
  MaxDay = 1
  MaxExtensions = 1
  None = None
INVARIANTS
  ApprovedCanBeConfirmed
SYMMETRY Symmetry
CHECK_DEADLOCK FALSE
