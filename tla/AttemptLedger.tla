--------------------------- MODULE AttemptLedger ---------------------------
(***************************************************************************)
(* What process_task promises of the numbered attempts of a task, whoever  *)
(* delivers its messages how often: an attempt is claimed once and closed  *)
(* once; a paid one is reported to the source exactly once in between, and *)
(* one that is recorded as failed was never claimed.                       *)
(***************************************************************************)

CONSTANTS
  Attempt,
  Paid     \* the attempts that owe the source a result

VARIABLE ledger

Entries == {"free", "failed", "claimed", "reported", "closed"}

Init == ledger = [a \in Attempt |-> "free"]

Step(a, from, to) ==
  /\ ledger[a] = from
  /\ ledger' = [ledger EXCEPT ![a] = to]

Claim(a) == Step(a, "free", "claimed")
Report(a) == a \in Paid /\ Step(a, "claimed", "reported")
Close(a) == Step(a, IF a \in Paid THEN "reported" ELSE "claimed", "closed")
Refuse(a) == Step(a, "free", "failed")

Next ==
  \E a \in Attempt : Claim(a) \/ Report(a) \/ Close(a) \/ Refuse(a)

Spec == Init /\ [][Next]_ledger
=============================================================================
