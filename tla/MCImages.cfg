CONSTANTS
  NINO = 10
  INOPB = 1
  NDIR = 4
  LADDR = 1
  NINDIR = 2
  NICFREE = 2
  Block = {1,2,3,4,5,6,7,8,9,10,11}
  Ghost = 4
  Name = {"lf", "a", "b", "c"}
  LostFound = "lf"
  ParentKinds = {"dir","file","none"}
  Leaves = {"a"}
  MaxFile = 3
  PUTBUF = 1
  LongName = "long"
  NTREC = 1
  SUMBUF = 2
  MaxEntries = 3
  MaxUsed = 2
  Shapes <- MCShapes
  Hosts <- MCHosts
  Junk <- MCJunk
SPECIFICATION ImagesSpec
INVARIANTS TarExact MktreeKept ImagesClean RoundTrip ReadableRestored  VerifyTells WalksMeetOnce
CHECK_DEADLOCK FALSE
