SPECIFICATION Spec
CONSTANTS
  t1 = t1
  t2 = t2
  newline = newline
  none = none
  b1 = b1
  b2 = b2
  Box <- Boxes
  Text <- Texts
  Static <- Borrowed
  TextLen <- Lengths
  Capacity = 2
  MaxOut = 4
  MaxLeft = 1
  NoEvent = NoEvent
  NoResult = NoResult
  NoBox = NoBox
  NoSource = NoSource
  Err = Err
SYMMETRY SameBoxes
INVARIANTS
  TypeOK
  OutputIsAccountedFor
