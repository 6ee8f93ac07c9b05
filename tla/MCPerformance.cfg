CONSTANTS
  p1 = p1
  p2 = p2
  ann = ann
  bob = bob
  None = None
  Participants = {p1, p2}
  Executors = {ann, bob}
  Template <- TwoTemplates
  Calls = {c1, c2}
  CardsEnabled = TRUE
  MaxAttempts = 1
  MaxManaged = 1
SPECIFICATION Spec
CHECK_DEADLOCK FALSE
INVARIANTS
  PerformanceTypeOK
  ScoredByAll
  OneModuleAtATime
  NobodyOverruled
  CompletedCycleIsDone
  SomebodyIsAsked
PROPERTIES
  ResultIsFrozen
SYMMETRY Symmetry
