SPECIFICATION Spec
CONSTANTS
  Ring = {r1}
  Addr = {a1}
  Entries = 2
  NoAddr = NoAddr
  NoTask = NoTask
  Event <- AllEvents
  Kind <- EventKinds
  NoEvent = NoEvent
INVARIANTS
  LentDataAlive
