CONSTANTS
  PAGE_TABLE_SIZE = 5
  NUM_FRAMES = 3
  TLB_SIZE = 2
  NUM_LINES = 9
  Lines <- MCLines
SPECIFICATION Spec
INVARIANTS
  TypeOK
  PagingConsistent
  TLBCoherent
  DuplicateIsRecent
  AnswersWithRightPage
PROPERTY ImplementsDemandPaging
CHECK_DEADLOCK FALSE
