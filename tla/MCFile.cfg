SPECIFICATION Spec
CONSTANTS
  s = s
  none = none
  b1 = b1
  b2 = b2
  Box <- Boxes
  Slice <- Slices
  SliceLen <- Lengths
  EmptySlice = none
  Capacity = 2
  MaxPos = 3
  NoEvent = NoEvent
  NoResult = NoResult
  NoBox = NoBox
  NoSource = NoSource
  NoSlice = NoSlice
  Err = Err
  Statx = Statx
SYMMETRY SameBoxes
INVARIANTS
  TypeOK
  LentBufferAlive
  ReadsAreContiguous
  WriteReportsItsSlice
  FdIsOwn
