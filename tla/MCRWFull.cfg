CONSTANTS
  NINO = 5
  INOPB = 1
  NDIR = 4
  LADDR = 1
  NINDIR = 2
  NICFREE = 2
  Block = {b1,b2,b3,b4,b5}
  Ghost = 6
  Name = {"lf", "a"}
  LostFound = "lf"
  ParentKinds = {"dir"}
  Leaves = {"a"}
  MaxFile = 3
  PUTBUF = 2
SPECIFICATION Spec
SYMMETRY MCSymmetry
INVARIANT ConsistentAfterEachCall
CHECK_DEADLOCK FALSE
