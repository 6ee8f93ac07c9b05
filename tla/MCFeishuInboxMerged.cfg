SPECIFICATION Spec
CONSTANTS
  ModuleTasks = {t1, t2}
  StepTasks = {s1}
  Notifications = {n1, n2}
  Messages = {m1, m2}
  None = None
CHECK_DEADLOCK FALSE
INVARIANTS
  PendingIsShown
