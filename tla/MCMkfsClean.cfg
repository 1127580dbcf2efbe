CONSTANTS
  MAXFN = 6
  DEFM = 2
  DEFN = 4
  MINFS = 8
  Size <- MCSize
  OptM <- MCOptM
  OptN <- MCOptN
SPECIFICATION Spec
INVARIANT EveryBlockListed
CHECK_DEADLOCK FALSE
