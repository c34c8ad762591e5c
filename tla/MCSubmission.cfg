SPECIFICATION Spec
CONSTANTS
  Ring = {r1, r2}
  Addr = {a1, a2}
  Entries = 3
  NoAddr = NoAddr
  NoTask = NoTask
  Event <- TwoEvents
  Kind <- TwoKinds
  NoEvent = NoEvent
INVARIANTS
  TypeOK
  ResultIsOfTheSlot
  NoEventLost
PROPERTIES
  CallbacksRun
  UsesRing
