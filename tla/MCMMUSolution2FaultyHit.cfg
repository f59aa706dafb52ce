CONSTANTS
  PAGES = 5
  FRAME_COUNT = 3
  TLB_SIZE = 2
  NUM_LINES = 8
  Lines <- MCLines
SPECIFICATION Spec
INVARIANT NoFaultyHit
CHECK_DEADLOCK FALSE
