CONSTANTS
  PAGES = 5
  FRAME_COUNT = 3
  TLB_SIZE = 2
  NUM_LINES = 8
  Lines <- MCLines
SPECIFICATION Spec
INVARIANTS
  PagingConsistent
  TLBUnique
  ResidentPagesCachedRight
  WrongOnlyWhenEvicted
CHECK_DEADLOCK FALSE
