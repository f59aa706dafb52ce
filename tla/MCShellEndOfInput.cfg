CONSTANTS
  HISTORY_SIZE = 3
  ARGUMENT_SIZE = 4
  INT_MAX = 4
  PIDS = {p1, p2}
  Lines <- MCLines
SPECIFICATION Spec
PROPERTY CountsWhatIsEntered
CHECK_DEADLOCK FALSE
