SPECIFICATION Spec
CONSTANTS
  Task = {t1, t2}
  Entries = 1
  CqEntries = 1
  NoTask = NoTask
PROPERTIES
  SubmittedReturns
CHECK_DEADLOCK FALSE
