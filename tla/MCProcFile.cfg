CONSTANTS
  Readers = {r1, r2}
  Programs <- MCPrograms
  HZ = 2
  ULONG = 4
  FirstJiffies = 2
  MaxTicks = 4
SPECIFICATION Spec
INVARIANT AnswersSecondsSinceLoading
PROPERTIES
  CleanSessionGetsOneLine
  SessionEndsWhenAlone
CHECK_DEADLOCK FALSE
