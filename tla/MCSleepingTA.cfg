CONSTANTS
  NUM_STUDENTS = 3
  NUM_WAITING_CHAIRS = 2
SPECIFICATION Spec
INVARIANTS
  HallwayIsRing
  OneChairEach
  SemaphoresAddUp
  HelpedTakesNoSeat
PROPERTIES
  ImplementsWaitingRoom
  EveryVisitEnds
