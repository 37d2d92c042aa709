------------------------------- MODULE Ingest -------------------------------
(***************************************************************************)
(* ingest_source_tasks (packages/queue/tasks.py): the polls of the paid    *)
(* task source that Celery beat starts and those of POST /v1/source/pull,  *)
(* as they overlap. Each walks through the offers it fetched: is there a   *)
(* row, is it profitable, accept it at the source, commit the three rows,  *)
(* publish. An exception ends the walk; there is no retry. The source is   *)
(* MockTaskSource, which offers as many tasks as it is asked for.          *)
(*                                                                         *)
(* Money is counted in micro-dollars, a probability in percent.            *)
(***************************************************************************)
EXTENDS Integers, FiniteSets

CONSTANTS
  Item,        \* the offers: i stands for the external_task_id mkp-i
  Poller,      \* invocations that may run at once
  Beat,        \* those of them that beat schedules
  limit,       \* the argument of each invocation, 0 where there is none
  task_source_poll_batch_size,
  prompt_size, \* len(str(input_payload)) of each offer
  infra_cost_per_task_usd,
  token_cost_per_1k_usd,
  success_probability,
  min_margin_usd,
  MaxFaults,   \* bound on exceptions and crashes
  NoItem

ASSUME Assumptions ==
  /\ Item \subseteq Nat \ {0}
  /\ Beat \subseteq Poller
  /\ limit \in [Poller -> Int]
  /\ \A r \in Beat : limit[r] = 0
  /\ task_source_poll_batch_size \in 1 .. 200
  /\ prompt_size \in [Item -> Nat]
  /\ infra_cost_per_task_usd \in Nat
  /\ token_cost_per_1k_usd \in Nat
  /\ success_probability \in 0 .. 100
  /\ min_margin_usd \in Nat
  /\ MaxFaults \in Nat
  /\ NoItem \notin Item

VARIABLES
  stage,     \* where each poller is in the loop body
  batch,     \* the offers it has still to look at
  item,      \* the offer it is at
  promised,  \* the offers accept_task was called for
  rows,      \* tasks, external_tasks and task_economics rows of an offer
  queued,    \* process_task.delay calls for the task of an offer
  faults

vars == <<stage, batch, item, promised, rows, queued, faults>>

-----------------------------------------------------------------------------
(* MockTaskSource                                                          *)

(* limit or settings.task_source_poll_batch_size                           *)
Limit(r) == IF limit[r] = 0 THEN task_source_poll_batch_size ELSE limit[r]

(* fetch_available_tasks: the first ones, as many as the limit says.       *)
Offers(r) == {i \in Item : i <= Limit(r)}

(* round(0.03 + (i % 5) * 0.01, 4)                                         *)
payout_usd(i) == 30000 + (i % 5) * 10000

-----------------------------------------------------------------------------
(* ProfitabilityEngine.evaluate                                            *)

(* round(_, 6) of n / d micro-dollars, halves upwards.                     *)
Round(n, d) == (2 * n + d) \div (2 * d)

estimated_tokens(i) ==
  LET tokens == 2 * ((prompt_size[i] + 3) \div 4)
  IN IF tokens > 150 THEN tokens ELSE 150

estimated_cost(i) ==
  infra_cost_per_task_usd
  + Round(estimated_tokens(i) * token_cost_per_1k_usd, 1000)

expected_margin(i) ==
  Round(payout_usd(i) * success_probability, 100) - estimated_cost(i)

should_accept(i) == expected_margin(i) >= min_margin_usd

-----------------------------------------------------------------------------

Goto(r, s) == stage' = [stage EXCEPT ![r] = s]

(* Mutant of Stop: the rest of the batch is kept.                          *)
StopAtItem(r) ==
  /\ Goto(r, "idle")
  /\ item' = [item EXCEPT ![r] = NoItem]
  /\ UNCHANGED batch

(* The invocation ends, and what it had fetched is forgotten.              *)
Stop(r) ==
  /\ Goto(r, "idle")
  /\ batch' = [batch EXCEPT ![r] = {}]
  /\ item' = [item EXCEPT ![r] = NoItem]

Poll(r) ==
  /\ stage[r] = "idle"
  /\ batch' = [batch EXCEPT ![r] = Offers(r)]
  /\ Goto(r, "select")
  /\ UNCHANGED <<item, promised, rows, queued, faults>>

(* Mutant of Wanted: an offer is accepted once, not once per invocation.   *)
WantedOnce(i) == rows[i] = 0 /\ should_accept(i) /\ i \notin promised

Wanted(i) == rows[i] = 0 /\ should_accept(i)

(* The SELECT for the next offer's row, and the evaluation.                *)
Select(r, i) ==
  /\ stage[r] = "select"
  /\ i \in batch[r]
  /\ \A j \in batch[r] : i <= j
  /\ batch' = [batch EXCEPT ![r] = @ \ {i}]
  /\ IF Wanted(i)
     THEN Goto(r, "accept") /\ item' = [item EXCEPT ![r] = i]
     ELSE UNCHANGED <<stage, item>>
  /\ UNCHANGED <<promised, rows, queued, faults>>

(* accept_task: every invocation has a MockTaskSource of its own, which    *)
(* has accepted nothing yet, so the answer is True.                        *)
Accept(r) ==
  /\ stage[r] = "accept"
  /\ promised' = promised \cup {item[r]}
  /\ Goto(r, "commit")
  /\ UNCHANGED <<batch, item, rows, queued, faults>>

(* Mutant of Duplicate: no unique constraint.                              *)
NoDuplicate(i) == FALSE

(* uq_external_task_source_id                                              *)
Duplicate(i) == rows[i] > 0

(* Mutant of Commit: the task is not published before the next offer.      *)
CommitOnly(r) ==
  /\ stage[r] = "commit"
  /\ IF Duplicate(item[r])
     THEN Stop(r) /\ UNCHANGED rows
     ELSE /\ rows' = [rows EXCEPT ![item[r]] = @ + 1]
          /\ Goto(r, "select")
          /\ item' = [item EXCEPT ![r] = NoItem]
          /\ UNCHANGED batch
  /\ UNCHANGED <<promised, queued, faults>>

(* The three rows in one transaction. When another poller was faster the   *)
(* IntegrityError ends the invocation.                                     *)
Commit(r) ==
  /\ stage[r] = "commit"
  /\ IF Duplicate(item[r])
     THEN Stop(r) /\ UNCHANGED rows
     ELSE /\ rows' = [rows EXCEPT ![item[r]] = @ + 1]
          /\ Goto(r, "enqueue")
          /\ UNCHANGED <<batch, item>>
  /\ UNCHANGED <<promised, queued, faults>>

(* Mutant of Enqueue: the task is published instead of committed.          *)
EnqueueUncommitted(r) ==
  /\ stage[r] = "commit"
  /\ queued' = [queued EXCEPT ![item[r]] = @ + 1]
  /\ item' = [item EXCEPT ![r] = NoItem]
  /\ Goto(r, "select")
  /\ UNCHANGED <<batch, promised, rows, faults>>

(* process_task.delay(task_id)                                             *)
Enqueue(r) ==
  /\ stage[r] = "enqueue"
  /\ queued' = [queued EXCEPT ![item[r]] = @ + 1]
  /\ item' = [item EXCEPT ![r] = NoItem]
  /\ Goto(r, "select")
  /\ UNCHANGED <<batch, promised, rows, faults>>

Finish(r) ==
  /\ stage[r] = "select"
  /\ batch[r] = {}
  /\ Stop(r)
  /\ UNCHANGED <<promised, rows, queued, faults>>

(* The source, the database or the broker raises, or the process dies.     *)
Fail(r) ==
  /\ stage[r] # "idle"
  /\ faults < MaxFaults
  /\ faults' = faults + 1
  /\ Stop(r)
  /\ UNCHANGED <<promised, rows, queued>>

-----------------------------------------------------------------------------

Init ==
  /\ stage = [r \in Poller |-> "idle"]
  /\ batch = [r \in Poller |-> {}]
  /\ item = [r \in Poller |-> NoItem]
  /\ promised = {}
  /\ rows = [i \in Item |-> 0]
  /\ queued = [i \in Item |-> 0]
  /\ faults = 0

Walk(r) ==
  \/ \E i \in Item : Select(r, i)
  \/ Accept(r)
  \/ Commit(r)
  \/ Enqueue(r)
  \/ Finish(r)

Next == \E r \in Poller : Poll(r) \/ Walk(r) \/ Fail(r)

Spec == Init /\ [][Next]_vars

(* A poll that has started goes on, and beat starts another one after it.  *)
(* Nobody is obliged to call POST /v1/source/pull again.                   *)
FairSpec ==
  /\ Spec
  /\ \A r \in Poller : WF_vars(Walk(r))
  /\ \A r \in Beat : WF_vars(Poll(r))

-----------------------------------------------------------------------------

TypeOK ==
  /\ stage \in [Poller -> {"idle", "select", "accept", "commit", "enqueue"}]
  /\ batch \in [Poller -> SUBSET Item]
  /\ item \in [Poller -> Item \cup {NoItem}]
  /\ promised \subseteq Item
  /\ rows \in [Item -> Nat]
  /\ queued \in [Item -> Nat]
  /\ faults \in 0 .. MaxFaults
  /\ \A r \in Poller :
       /\ stage[r] = "idle" => batch[r] = {}
       /\ item[r] = NoItem <=> stage[r] \in {"idle", "select"}

(* However the polls overlap an offer is taken once: one task, and at most *)
(* one message for it.                                                     *)
OneTaskPerItem == \A i \in Item : rows[i] <= 1 /\ queued[i] <= rows[i]

Publishing(i) == \E r \in Poller : stage[r] = "enqueue" /\ item[r] = i

(* Losing the race for an offer, which abandons the rest of the batch,     *)
(* leaves no task unpublished: only a fault between commit and publish     *)
(* does.                                                                   *)
StrandedOnlyByFault ==
  faults = 0 => \A i \in Item : rows[i] > queued[i] => Publishing(i)

(* What was accepted at the source becomes a task, if not of this poll     *)
(* then of a later one of beat. An offer beyond beat's batch is seen only  *)
(* by a pull with a larger limit: there a fault may break the promise, and *)
(* nothing else does, a lost race included.                                *)
PromiseKept ==
  \A i \in Item :
    i \in promised ~>
      \/ rows[i] > 0
      \/ i > task_source_poll_batch_size /\ faults > 0

(* Per offer, a poll is an admission that happens at most once.            *)
admission ==
  [i \in Item |->
     CASE queued[i] > 0 -> "enqueued"
       [] queued[i] = 0 /\ rows[i] = 0 -> "new"
       [] queued[i] = 0 /\ rows[i] > 0 /\ Publishing(i) -> "committed"
       [] OTHER -> "lost"]

Once == INSTANCE AdmitOnce WITH Subject <- Item

AdmitsOnce == Once!Spec

(* tasks.py:87, "Fetches paid tasks from configured source and enqueues    *)
(* profitable ones.", of the offers that beat fetches.                     *)
ProfitableIsEnqueued ==
  \A i \in Item :
    i <= task_source_poll_batch_size /\ should_accept(i) => <>(queued[i] > 0)
=============================================================================
