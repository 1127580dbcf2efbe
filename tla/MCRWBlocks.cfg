CONSTANTS
  NINO = 5
  INOPB = 5
  NDIR = 4
  LADDR = 1
  NINDIR = 3
  NICFREE = 1
  Block = {b1,b2,b3,b4,b5}
  Ghost = 0
  Name = {"lf", "a"}
  LostFound = "lf"
  ParentKinds = {"dir","file","none"}
  Leaves = {"a"}
  MaxFile = 3
  PUTBUF = 2
SPECIFICATION Spec
SYMMETRY MCSymmetry
CONSTRAINT DriftBound
INVARIANTS
  BlocksAccounted
  ContentsKept
  CountsCoverNames
  DiskExact
PROPERTIES
  FailsOnlyWhenFull
  OnlyPathsThroughFilesHarm
  OnlyReplacingDrifts
CHECK_DEADLOCK FALSE
