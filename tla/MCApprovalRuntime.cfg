SPECIFICATION Spec
CONSTANTS
  Users = {u1, u2}
  Conversions = {cv1}
  PartTimeRecords = {pt1}
  Requests = {r1}
  Calls = {c1, c2}
  MaxSteps = 3
  None = None
INVARIANTS
  TypeOK
  BusinessFollowsRequest
  SerialDecisions
  EffectiveOnlyIfUnanimous
  PendingHasOpenStep
PROPERTIES
  DecisionsAreFinal
  ImplementsSerialApproval
CHECK_DEADLOCK FALSE
