----------------------------- MODULE AdmitOnce -----------------------------
(***************************************************************************)
(* What both ways into the system promise, POST /v1/tasks and              *)
(* ingest_source_tasks: a subject (an idempotency key, or an offer of the  *)
(* paid-task source) gets its task committed at most once, then that task  *)
(* is published at most once, or its publisher is lost and it never is.    *)
(***************************************************************************)

CONSTANT Subject
VARIABLE admission

Init == admission = [s \in Subject |-> "new"]

Step(s, from, to) ==
  /\ admission[s] = from
  /\ admission' = [admission EXCEPT ![s] = to]

Create(s) == Step(s, "new", "committed")
Enqueue(s) == Step(s, "committed", "enqueued")
Lose(s) == Step(s, "committed", "lost")

Next == \E s \in Subject : Create(s) \/ Enqueue(s) \/ Lose(s)

Spec == Init /\ [][Next]_admission
=============================================================================
