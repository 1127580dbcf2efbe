CONSTANTS
  MAXFN = 6
  DEFM = 2
  DEFN = 4
  MINFS = 8
  Size <- MCSize
  OptM <- MCOptM
  OptN <- MCOptN
SPECIFICATION Spec
INVARIANTS
  TypeOK
  AtMostOnce
  Coverage
PROPERTY Terminates
CHECK_DEADLOCK FALSE
