SPECIFICATION Spec
CONSTANTS
  paid = paid
  free = free
  w1 = w1
  w2 = w2
  NoMessage = NoMessage
  Task <- PaidTask
  External <- PaidTask
  Worker <- Workers
  MaxRetries = 1
  MaxLosses = 0
  MaxFaults = 0
INVARIANT FailureStored
CHECK_DEADLOCK FALSE
