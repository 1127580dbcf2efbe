CONSTANTS
  NINO = 5
  INOPB = 1
  NDIR = 3
  LADDR = 1
  NINDIR = 2
  NICFREE = 2
  Block = {b1,b2,b3,b4}
  Ghost = 6
  Name = {"lf", "a"}
  LostFound = "lf"
  ParentKinds = {"dir"}
  Leaves = {"lf", "a"}
  MaxFile = 0
  PUTBUF = 1
SPECIFICATION Spec
SYMMETRY MCSymmetry
INVARIANT FsckClean
CHECK_DEADLOCK FALSE
