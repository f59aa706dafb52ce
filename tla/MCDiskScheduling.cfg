CONSTANTS
  disk_size = 5
  MAX = 5
  Files <- MCFiles
SPECIFICATION Spec
INVARIANTS
  EveryRequestServed
  CircularOrder
  SSTFChoosesNearest
  TotalsAreOfTurningPoints
  LOOKIsShortest
CHECK_DEADLOCK FALSE
