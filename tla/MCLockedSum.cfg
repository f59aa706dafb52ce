CONSTANT Programs <- MCPrograms
SPECIFICATION Spec
PROPERTIES
  ImplementsAtomicSum
  SumEnds
CHECK_DEADLOCK FALSE
