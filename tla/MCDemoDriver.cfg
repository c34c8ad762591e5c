SPECIFICATION Spec
CONSTANTS
  Task = {t1, t2, t3}
  Entries = 1
  CqEntries = 1
  NoTask = NoTask
SYMMETRY Symmetry
INVARIANTS
  TypeOK
  LockHeldInside
  EventInOnePlace
  ReadyCounts
  RegistrarClosed
PROPERTIES
  KeepsApi
CHECK_DEADLOCK FALSE
