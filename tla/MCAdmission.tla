---------------------------- MODULE MCAdmission ----------------------------
(* Requests that share a key, some with different payloads, two with an     *)
(* empty Idempotency-Key header and one without a header.                   *)
EXTENDS Admission, TLC

CONSTANTS r1, r2, r3, e1, e2, bare, k, blank, p, q

Keys == {k, blank}
Payloads == {p, q}

KeyOf(requests) ==
  [r \in requests |->
     CASE r \in {e1, e2} -> blank [] r = bare -> NoKey [] OTHER -> k]
PayloadOf(requests) == [r \in requests |-> IF r = r3 THEN q ELSE p]

Requests == {r1, r3, e1, e2, bare}
RequestKey == KeyOf(Requests)
RequestPayload == PayloadOf(Requests)

(* The two requests with an empty header differ in nothing.                 *)
Alike == Permutations({e1, e2})

Retries == {r1, r2, r3}
RetryKey == KeyOf(Retries)
RetryPayload == PayloadOf(Retries)
=============================================================================
