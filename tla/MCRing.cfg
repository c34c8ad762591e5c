SPECIFICATION Spec
CONSTANTS
  Ring = {r1, r2}
  Addr = {a1, a2}
  Entries = 3
  NoAddr = NoAddr
  NoTask = NoTask
INVARIANTS
  TypeOK
  SoleOwner
  UserDataValid
  ParkedWillBeWoken
PROPERTIES
  AwaitedResolves
  UsesCompletions
  KeepsPromise
