CONSTANTS
  NINO = 5
  INOPB = 1
  NDIR = 4
  LADDR = 1
  NINDIR = 2
  NICFREE = 2
  Block = {b1,b2,b3,b4}
  Ghost = 0
  Name = {"lf", "a"}
  LostFound = "lf"
  ParentKinds = {"dir","file"}
  Leaves = {"a"}
  MaxFile = 1
  PUTBUF = 2
SPECIFICATION Spec
SYMMETRY MCSymmetry
INVARIANT FsckClean
CHECK_DEADLOCK FALSE
