CONSTANTS
  p1 = p1
  p2 = p2
  ann = ann
  bob = bob
  None = None
  Participants = {p1}
  Executors = {ann, bob}
  Template <- ReturningWorkflow
  Calls = {c1}
  CardsEnabled = TRUE
  MaxAttempts = 2
  MaxManaged = 0
SPECIFICATION Spec
CHECK_DEADLOCK FALSE
INVARIANTS
  ReturnedStepGoesOn
