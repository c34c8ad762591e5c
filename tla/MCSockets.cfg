SPECIFICATION Spec
CONSTANTS
  s = s
  none = none
  b1 = b1
  b2 = b2
  Box <- Boxes
  Slice <- Slices
  SliceLen <- Lengths
  Capacity = 2
  MaxSent = 2
  MaxConn = 3
  NoEvent = NoEvent
  NoResult = NoResult
  NoBox = NoBox
  NoSource = NoSource
  Err = Err
SYMMETRY SameBoxes
INVARIANTS
  TypeOK
  LentMemoryAlive
  StreamIsFaithful
  AddressIsOfTheConnection
