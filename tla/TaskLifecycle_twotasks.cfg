SPECIFICATION Spec
CONSTANTS
  paid = paid
  free = free
  w1 = w1
  w2 = w2
  NoMessage = NoMessage
  Task <- BothTasks
  External <- PaidTask
  Worker <- Workers
  MaxRetries = 1
  MaxLosses = 0
  MaxFaults = 1
SYMMETRY WorkerSymmetry
INVARIANTS
  MessageHasTask
  SoleDelivery
  BooksAgree
  StatusMatchesResult
PROPERTIES
  VerdictStands
CHECK_DEADLOCK FALSE
