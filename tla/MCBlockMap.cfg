CONSTANTS
  LADDR = 1
  NINDIR = 2
  NBLOCKS = 24
  MaxCalls = 3
SPECIFICATION Spec
INVARIANTS DumpRestores EachBlockOnce
PROPERTY ReadersSeeTheMap
CHECK_DEADLOCK FALSE
