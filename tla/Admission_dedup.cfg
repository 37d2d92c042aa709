SPECIFICATION Spec
CONSTANTS
  r1 = r1
  r2 = r2
  r3 = r3
  e1 = e1
  e2 = e2
  bare = bare
  k = k
  blank = blank
  p = p
  q = q
  NoKey = NoKey
  NoTask = NoTask
  rapidapi_inbound = TRUE
  Blank = blank
  Request <- Retries
  Key <- Keys
  Payload <- Payloads
  idempotency_key <- RetryKey
  payload <- RetryPayload
INVARIANT DuplicateRefused
CHECK_DEADLOCK FALSE
