SPECIFICATION Spec
CONSTANTS
  Addr = {a1, a2}
  Task = {t1, t2}
  Reaper = {r1, r2}
  NoAddr = NoAddr
  NoTask = NoTask
INVARIANTS
  TypeOK
  NoUseAfterFree
  UnreachableArms
  KernelDataAlive
  ResultWakesLatestTask
  SomeoneFrees
PROPERTIES
  DisposedOnce
  EventuallyFreed
  Atomic
CHECK_DEADLOCK TRUE
