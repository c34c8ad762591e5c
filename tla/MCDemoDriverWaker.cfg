SPECIFICATION Spec
CONSTANTS
  Task = {t1, t2, t3}
  Entries = 1
  CqEntries = 1
  NoTask = NoTask
INVARIANTS
  PendingRegistersWaker
CHECK_DEADLOCK FALSE
