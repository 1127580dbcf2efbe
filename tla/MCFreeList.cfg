CONSTANTS
  NICFREE = 2
  Block = {b1, b2, b3, b4}
  Payload <- MCPayload
SYMMETRY MCSymmetry
SPECIFICATION Spec
INVARIANTS
  TypeOK
  ListInv
  FsckClean
PROPERTY PoolSpec
CHECK_DEADLOCK FALSE
