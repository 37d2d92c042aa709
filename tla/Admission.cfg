\* Requests that share a key, that have an empty one, and one without.
SPECIFICATION Spec
CONSTANTS
  r1 = r1
  r2 = r2
  r3 = r3
  e1 = e1
  e2 = e2
  bare = bare
  k = k
  blank = blank
  p = p
  q = q
  NoKey = NoKey
  NoTask = NoTask
  rapidapi_inbound = TRUE
  Blank = blank
  Request <- Requests
  Key <- Keys
  Payload <- Payloads
  idempotency_key <- RequestKey
  payload <- RequestPayload
INVARIANTS
  TypeOK
  ConflictIsBacked
  BilledOnce
  AnswersAgree
  RegistersFirst
  ReplayIsBacked
PROPERTIES
  AdmitsOnce
SYMMETRY Alike
CHECK_DEADLOCK FALSE
