CONSTANTS
  disk_size = 5
  MAX = 5
  Files <- MCFiles
SPECIFICATION Spec
INVARIANT CircularSweepsServeAll
CHECK_DEADLOCK FALSE
