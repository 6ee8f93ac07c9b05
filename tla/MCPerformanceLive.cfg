CONSTANTS
  p1 = p1
  p2 = p2
  ann = ann
  bob = bob
  None = None
  Participants = {p1}
  Executors = {ann, bob}
  Template <- OneAssessment
  Calls = {c1, c2}
  CardsEnabled = TRUE
  MaxAttempts = 1
  MaxManaged = 1
SPECIFICATION FairSpec
CHECK_DEADLOCK FALSE
PROPERTIES
  ScoredModuleCompletes
  OpenModuleGetsScorers
