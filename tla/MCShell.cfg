CONSTANTS
  HISTORY_SIZE = 3
  ARGUMENT_SIZE = 4
  INT_MAX = 4
  PIDS = {p1, p2}
  Lines <- MCLines
SPECIFICATION Spec
INVARIANTS
  TypeOK
  ForegroundIsAwaited
  AmpersandAwaitedOnlyBeyondArgs
PROPERTIES
  ImplementsCommandLog
  StartsNewestCommand
  ZombiesAreReaped
CHECK_DEADLOCK FALSE
