CONSTANTS
  Processes <- MCProcesses
  Root = "P1"
  Kids <- PLfork
SPECIFICATION Spec
INVARIANTS
  OutputInOrderOfCreation
  PidsPrinted
  NoOrphans
PROPERTY TreeEnds
CHECK_DEADLOCK FALSE
