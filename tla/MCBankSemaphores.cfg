CONSTANTS
  LIMIT = 8
  num_deposit_threads = 4
  num_withdraw_threads = 2
  Amounts <- MCAmounts
SPECIFICATION Spec
INVARIANTS
  BalanceInBounds
  CapacityConserved
PROPERTIES
  ImplementsAtomicSum
  EndsExactlyWhenThereIsRoom
CHECK_DEADLOCK FALSE
