SPECIFICATION Spec
CONSTANTS
  paid = paid
  free = free
  w1 = w1
  w2 = w2
  NoMessage = NoMessage
  Task <- PaidTask
  External <- PaidTask
  Worker <- Workers
  MaxRetries = 2
  MaxLosses = 1
  MaxFaults = 1
SYMMETRY WorkerSymmetry
INVARIANTS
  TypeOK
  OneRunPerAttempt
  OneSubmitPerAttempt
  StuckIsVisible
PROPERTIES
  AttemptsInOrder
CHECK_DEADLOCK FALSE
