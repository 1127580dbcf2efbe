CONSTANTS
  NINO = 6
  INOPB = 1
  NDIR = 4
  LADDR = 1
  NINDIR = 2
  NICFREE = 2
  Block = {1,2,3,4,5,6}
  Ghost = 0
  Name = {"lf", "a"}
  LostFound = "lf"
  ParentKinds = {"dir","file","none"}
  Leaves = {"lf", "a"}
  MaxFile = 2
  PUTBUF = 1
  MaxCalls = 2
  MaxClears = 2
SPECIFICATION SessionSpec
INVARIANTS Settled RepairedClean OldOrNew OnlyLost FilesKept CopyExact DotdotsRepaired SalvageSuffices FreeListReaders
CHECK_DEADLOCK FALSE
