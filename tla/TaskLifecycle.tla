--------------------------- MODULE TaskLifecycle ---------------------------
(***************************************************************************)
(* One row of the `tasks` table from its admission to its last delivery:   *)
(* the Celery task process_task (packages/queue/tasks.py), the broker it   *)
(* is delivered by (late acknowledgement, automatic retries), the tables   *)
(* it writes, the paid-task source it reports to, and the cancel endpoint  *)
(* of the API, which writes the same row.                                  *)
(*                                                                         *)
(* A worker step is one database transaction, one external call or one     *)
(* broker operation; the steps of different workers and requests           *)
(* interleave.                                                             *)
(***************************************************************************)
EXTENDS Naturals, FiniteSets

CONSTANTS
  Task,        \* task identifiers (uuid4().hex)
  External,    \* the tasks that ingest_source_tasks took from a paid source
  Worker,      \* Celery pool processes
  MaxRetries,  \* max_retries of process_task
  MaxLosses,   \* bound on lost connections, killed children, lost requests
  MaxFaults,   \* bound on transient database errors and soft time limits
  NoMessage    \* what an idle worker holds

Message == [task : Task, retries : 0 .. MaxRetries]

ASSUME Assumptions ==
  /\ External \subseteq Task
  /\ MaxRetries \in Nat
  /\ MaxLosses \in Nat
  /\ MaxFaults \in Nat
  /\ NoMessage \notin Message

VARIABLES
  status,      \* tasks.status, "none" while there is no row
  attempts,    \* task_attempts.status by (task_id, attempt_no)
  result,      \* task_results.final_outcome
  external,    \* external_tasks.status
  economics,   \* task_economics.status and whether actual_payout_usd is set
  submits,     \* history: submit_result calls by (task, attempt_no)
  ready,       \* broker: copies of each message waiting for a worker
  admission,   \* the request or ingestion loop that creates the task
  cancelling,  \* cancel requests between their SELECT and their commit
  pc,          \* where each worker is in process_task
  held,        \* the message a worker executes
  attached,    \* the broker still holds the delivery as unacknowledged
  seen,        \* the column values the worker's ORM session has loaded
  outcome,     \* the TaskResult.status that execute returned
  answer,      \* the SubmitResult of the source
  losses,
  faults

tables == <<status, attempts, result, external, economics>>
broker == <<ready, attached>>
session == <<held, seen, outcome, answer>>
vars == <<tables, submits, broker, admission, cancelling, pc, session,
          losses, faults>>

-----------------------------------------------------------------------------

Verdict == {"succeeded", "failed", "abstained"}
Status == {"none", "queued", "running"} \cup Verdict
AttemptNo == 1 .. MaxRetries + 1
FinalOutcomes == {"none", "success", "failure", "abstained"}
Submission == {"none", "accepted", "submitted", "submit_failed"}
Ledger == [status : {"none", "queued", "submitted", "submit_failed"},
           paid : {"unset", "zero", "base"}]
Answer == [status : {"none", "submitted", "submit_failed"},
           paid : {"unset", "zero", "base"}]
AttemptStatus == {"none", "running", "succeeded", "failed"}
Snapshot == [status : Status, result : FinalOutcomes,
             external : Submission, economics : Ledger]

(* Mutants of FinalOutcome: the status stored as the outcome; an outcome   *)
(* with no case of its own for an abstention.                              *)
FinalOutcomeIsStatus(verdict) == verdict
FinalOutcomeTwoValued(verdict) ==
  IF verdict = "succeeded" THEN "success" ELSE "failure"

(* The two halves of the tuple TaskOrchestrator._outcome returns.          *)
FinalOutcome(verdict) ==
  CASE verdict = "succeeded" -> "success"
    [] verdict = "abstained" -> "abstained"
    [] OTHER -> "failure"

(* Mutant of Payout: an abstention is paid for.                            *)
PayoutUnlessFailed(verdict) == IF verdict = "failed" THEN "zero" ELSE "base"

(* MockTaskSource pays the offered price for a success and 0.0 otherwise.  *)
Payout(verdict) == IF FinalOutcome(verdict) = "success" THEN "base" ELSE "zero"

NoLedger == [status |-> "none", paid |-> "unset"]
NothingSeen == [status |-> "none", result |-> "none",
                external |-> "none", economics |-> NoLedger]
NoAnswer == [status |-> "none", paid |-> "unset"]

(* A session writes a column only when the value assigned to it differs    *)
(* from the value it loaded: otherwise the stored value stays.             *)
Flush(loaded, assigned, stored) ==
  IF assigned = loaded THEN stored ELSE assigned

Active == {"prepare", "execute", "merge", "submit", "economics", "commit",
           "return"}
Stage == Active \cup {"idle", "begin", "failing", "retry", "ack"}

task(w) == held[w].task
attempt_no(w) == held[w].retries + 1

Goto(w, stage) == pc' = [pc EXCEPT ![w] = stage]
Publish(m) == ready' = [ready EXCEPT ![m] = @ + 1]

(* Mutants of InsertRefused: no unique constraint; one that only looks at  *)
(* the attempts still running.                                             *)
InsertRefusedNoUnique(w) == status[task(w)] = "none"
InsertRefusedWhileRunning(w) == attempts[task(w)][attempt_no(w)] = "running"

(* Inserting the attempt row of the message raises: the row is there       *)
(* already (uq_task_attempt) or its task is not (the foreign key).         *)
InsertRefused(w) ==
  attempts[task(w)][attempt_no(w)] # "none" \/ status[task(w)] = "none"

SetAttempt(w, value) ==
  attempts' = [attempts EXCEPT ![task(w)][attempt_no(w)] = value]

SetStatus(t, value) == status' = [status EXCEPT ![t] = value]

Fault == faults < MaxFaults /\ faults' = faults + 1
Loss == losses < MaxLosses /\ losses' = losses + 1

-----------------------------------------------------------------------------
(* Admission and cancellation: the processes outside the worker.           *)

(* create_task and ingest_source_tasks commit the row, with the external   *)
(* and economics rows when a source is behind it, before they publish.     *)
Create(t) ==
  /\ admission[t] = "new"
  /\ SetStatus(t, "queued")
  /\ admission' = [admission EXCEPT ![t] = "committed"]
  /\ IF t \in External
     THEN /\ external' = [external EXCEPT ![t] = "accepted"]
          /\ economics' = [economics EXCEPT ![t] =
                 [status |-> "queued", paid |-> "unset"]]
     ELSE UNCHANGED <<external, economics>>
  /\ UNCHANGED <<attempts, result, submits, broker, cancelling, pc, session,
                 losses, faults>>

(* Mutants of Enqueue: published before the row is committed; published    *)
(* again after a timeout; a publish that fails and goes unnoticed.         *)
EnqueueEarly(t) ==
  /\ admission[t] = "new"
  /\ Publish([task |-> t, retries |-> 0])
  /\ admission' = [admission EXCEPT ![t] = "enqueued"]
  /\ UNCHANGED <<tables, submits, attached, cancelling, pc, session,
                 losses, faults>>
EnqueueAgain(t) ==
  /\ admission[t] = "committed"
  /\ Publish([task |-> t, retries |-> 0])
  /\ UNCHANGED <<tables, submits, attached, admission, cancelling, pc, session,
                 losses, faults>>
EnqueueSilently(t) ==
  /\ admission[t] = "committed"
  /\ admission' = [admission EXCEPT ![t] = "enqueued"]
  /\ UNCHANGED <<tables, submits, broker, cancelling, pc, session,
                 losses, faults>>

(* process_task.delay(task_id)                                             *)
Enqueue(t) ==
  /\ admission[t] = "committed"
  /\ Publish([task |-> t, retries |-> 0])
  /\ admission' = [admission EXCEPT ![t] = "enqueued"]
  /\ UNCHANGED <<tables, submits, attached, cancelling, pc, session,
                 losses, faults>>

(* The process dies, or delay raises, between the commit and the publish.  *)
AdmissionLost(t) ==
  /\ admission[t] = "committed"
  /\ Loss
  /\ admission' = [admission EXCEPT ![t] = "lost"]
  /\ UNCHANGED <<tables, submits, broker, cancelling, pc, session, faults>>

(* cancel_task reads the row and gives up on a finished one. The revoke    *)
(* names the row's id, which no Celery message carries: it reaches nobody. *)
CancelRead(t) ==
  /\ t \notin cancelling
  /\ status[t] \notin Verdict \cup {"none"}
  /\ cancelling' = cancelling \cup {t}
  /\ UNCHANGED <<tables, submits, broker, admission, pc, session,
                 losses, faults>>

CancelCommit(t) ==
  /\ t \in cancelling
  /\ cancelling' = cancelling \ {t}
  /\ SetStatus(t, "failed")
  /\ UNCHANGED <<attempts, result, external, economics, submits, broker,
                 admission, pc, session, losses, faults>>

-----------------------------------------------------------------------------
(* process_task                                                            *)

Receive(w, m) ==
  /\ pc[w] = "idle"
  /\ ready[m] > 0
  /\ ready' = [ready EXCEPT ![m] = @ - 1]
  /\ attached' = [attached EXCEPT ![w] = TRUE]
  /\ held' = [held EXCEPT ![w] = m]
  /\ Goto(w, "begin")
  /\ UNCHANGED <<tables, submits, admission, cancelling, seen, outcome,
                 answer, losses, faults>>

(* Mutant of Begin: the status is committed before the attempt.            *)
BeginInTwoCommits(w) ==
  /\ pc[w] = "begin"
  /\ SetStatus(task(w), "running")
  /\ IF InsertRefused(w)
     THEN Goto(w, "failing") /\ UNCHANGED attempts
     ELSE Goto(w, "prepare") /\ SetAttempt(w, "running")
  /\ UNCHANGED <<result, external, economics, submits, broker, admission,
                 cancelling, session, losses, faults>>

(* First transaction: a "running" attempt row and tasks.status = "running".*)
(* When the insert is refused nothing is written.                          *)
Begin(w) ==
  /\ pc[w] = "begin"
  /\ IF InsertRefused(w)
     THEN /\ Goto(w, "failing")
          /\ UNCHANGED <<status, attempts>>
     ELSE /\ Goto(w, "prepare")
          /\ SetStatus(task(w), "running")
          /\ SetAttempt(w, "running")
  /\ UNCHANGED <<result, external, economics, submits, broker, admission,
                 cancelling, session, losses, faults>>

(* The commit expired the row: reading request_payload reloads it, status  *)
(* included. The provider and the contract are built.                      *)
Prepare(w) ==
  /\ pc[w] = "prepare"
  /\ seen' = [seen EXCEPT ![w].status = status[task(w)]]
  /\ Goto(w, "execute")
  /\ UNCHANGED <<tables, submits, broker, admission, cancelling, held,
                 outcome, answer, losses, faults>>

(* TaskOrchestrator.execute returns a verdict.                             *)
Execute(w, verdict) ==
  /\ pc[w] = "execute"
  /\ outcome' = [outcome EXCEPT ![w] = verdict]
  /\ Goto(w, "merge")
  /\ UNCHANGED <<tables, submits, broker, admission, cancelling, held, seen,
                 answer, losses, faults>>

(* Mutant of Raise: building the return value raises too.                  *)
RaiseLate(w) ==
  /\ pc[w] \in {"prepare", "execute", "return"}
  /\ Goto(w, "failing")
  /\ UNCHANGED <<tables, submits, broker, admission, cancelling, session,
                 losses, faults>>

(* The provider, the contract, or a validator met by a malformed           *)
(* constraint raises.                                                      *)
Raise(w) ==
  /\ pc[w] \in {"prepare", "execute"}
  /\ Goto(w, "failing")
  /\ UNCHANGED <<tables, submits, broker, admission, cancelling, session,
                 losses, faults>>

(* Mutant of MergeResult: the result is committed without a submission.    *)
MergeResultOnly(w) ==
  /\ pc[w] = "merge"
  /\ seen' = [seen EXCEPT ![w].result = result[task(w)]]
  /\ Goto(w, "commit")
  /\ UNCHANGED <<tables, submits, broker, admission, cancelling, held,
                 outcome, answer, losses, faults>>

(* db.merge(TaskResult) loads the result row it will insert or update.     *)
MergeResult(w) ==
  /\ pc[w] = "merge"
  /\ seen' = [seen EXCEPT ![w].result = result[task(w)]]
  /\ Goto(w, "submit")
  /\ UNCHANGED <<tables, submits, broker, admission, cancelling, held,
                 outcome, answer, losses, faults>>

(* _submit_external_if_needed: nothing for a task without an external row; *)
(* otherwise the source is called, before anything else is committed.      *)
SubmitResult(w, accepted) ==
  LET t == task(w) IN
  /\ pc[w] = "submit"
  /\ IF external[t] = "none"
     THEN Goto(w, "commit") /\ UNCHANGED <<submits, seen, answer>>
     ELSE /\ Goto(w, "economics")
          /\ submits' = [submits EXCEPT ![t][attempt_no(w)] = @ + 1]
          /\ seen' = [seen EXCEPT ![w].external = external[t]]
          /\ answer' = [answer EXCEPT ![w] =
               [status |-> IF accepted THEN "submitted" ELSE "submit_failed",
                paid |-> Payout(outcome[w])]]
  /\ UNCHANGED <<tables, broker, admission, cancelling, held, outcome,
                 losses, faults>>

(* Its second half: the economics row is loaded after the call.            *)
LoadEconomics(w) ==
  /\ pc[w] = "economics"
  /\ seen' = [seen EXCEPT ![w].economics = economics[task(w)]]
  /\ Goto(w, "commit")
  /\ UNCHANGED <<tables, submits, broker, admission, cancelling, held,
                 outcome, answer, losses, faults>>

(* Another session inserted the result row this one found missing.         *)
ResultConflict(w) ==
  seen[w].result = "none" /\ result[task(w)] # "none"

(* Second transaction: status, result, attempt, external and economics     *)
(* rows together, each column as its session saw it.                       *)
WriteRows(w) ==
  LET t == task(w) IN
  /\ SetStatus(t, Flush(seen[w].status, outcome[w], status[t]))
  /\ result' = [result EXCEPT ![t] =
       Flush(seen[w].result, FinalOutcome(outcome[w]), @)]
  /\ SetAttempt(w, "succeeded")
  /\ IF answer[w].status = "none"
     THEN UNCHANGED <<external, economics>>
     ELSE /\ external' = [external EXCEPT ![t] =
               Flush(seen[w].external, answer[w].status, @)]
          /\ economics' = [economics EXCEPT ![t] =
               [status |-> Flush(seen[w].economics.status, answer[w].status,
                                 @.status),
                paid |-> Flush(seen[w].economics.paid, answer[w].paid, @.paid)]]

Commit(w) ==
  /\ pc[w] = "commit"
  /\ IF ResultConflict(w)
     THEN Goto(w, "failing") /\ UNCHANGED tables
     ELSE Goto(w, "return") /\ WriteRows(w)
  /\ UNCHANGED <<submits, broker, admission, cancelling, session,
                 losses, faults>>

(* The return value reloads task.status; then the worker acknowledges.     *)
Return(w) ==
  /\ pc[w] = "return"
  /\ Goto(w, "ack")
  /\ UNCHANGED <<tables, submits, broker, admission, cancelling, session,
                 losses, faults>>

(* A transient database error or the soft time limit: the open transaction *)
(* is rolled back.                                                         *)
TransientError(w) ==
  /\ pc[w] \in Active \cup {"begin"}
  /\ Fault
  /\ Goto(w, "failing")
  /\ UNCHANGED <<tables, submits, broker, admission, cancelling, session,
                 losses>>

-----------------------------------------------------------------------------
(* The except clause rolls back: the session forgets what it had loaded.   *)
(* Then a "failed" attempt row with the same attempt_no and tasks.status = *)
(* "failed", in one transaction. It raises, and leaves the tables alone,   *)
(* when the attempt row exists or the database fails again.                *)

Forget(w) ==
  /\ seen' = [seen EXCEPT ![w] = NothingSeen]
  /\ outcome' = [outcome EXCEPT ![w] = "none"]
  /\ answer' = [answer EXCEPT ![w] = NoAnswer]

RecordFailure(w) ==
  /\ pc[w] = "failing"
  /\ IF InsertRefused(w)
     THEN UNCHANGED <<status, attempts>>
     ELSE /\ SetAttempt(w, "failed")
          /\ SetStatus(task(w), "failed")
  /\ Forget(w)
  /\ Goto(w, "retry")
  /\ UNCHANGED <<result, external, economics, submits, broker, admission,
                 cancelling, held, losses, faults>>

RecordFailureFails(w) ==
  /\ pc[w] = "failing"
  /\ Fault
  /\ Forget(w)
  /\ Goto(w, "retry")
  /\ UNCHANGED <<tables, submits, broker, admission, cancelling, held,
                 losses>>

(* Mutant of Retry: the retry number is not raised.                        *)
RetrySame(w) ==
  /\ pc[w] = "retry"
  /\ Publish(held[w])
  /\ Goto(w, "ack")
  /\ UNCHANGED <<tables, submits, attached, admission, cancelling, session,
                 losses, faults>>

(* autoretry_for=(Exception,): a new message with the next retry number,   *)
(* until max_retries is spent.                                             *)
Retry(w) ==
  /\ pc[w] = "retry"
  /\ IF held[w].retries < MaxRetries
     THEN Publish([task |-> task(w), retries |-> held[w].retries + 1])
     ELSE UNCHANGED ready
  /\ Goto(w, "ack")
  /\ UNCHANGED <<tables, submits, attached, admission, cancelling, session,
                 losses, faults>>

-----------------------------------------------------------------------------
(* Celery: acknowledgement after the task, and the ways to lose it.        *)

Release(w) ==
  /\ Goto(w, "idle")
  /\ attached' = [attached EXCEPT ![w] = FALSE]
  /\ held' = [held EXCEPT ![w] = NoMessage]
  /\ Forget(w)
  /\ UNCHANGED <<tables, submits, ready, admission, cancelling, faults>>

(* task_acks_late                                                          *)
Ack(w) ==
  /\ pc[w] = "ack"
  /\ Release(w)
  /\ UNCHANGED losses

(* The broker loses the connection and redelivers the unacknowledged       *)
(* message; the pool process goes on executing it.                         *)
ConnectionLost(w) ==
  /\ attached[w]
  /\ Loss
  /\ Publish(held[w])
  /\ attached' = [attached EXCEPT ![w] = FALSE]
  /\ UNCHANGED <<tables, submits, admission, cancelling, pc, session, faults>>

(* The rest of a worker's crash: its connection is gone, now the process.  *)
Die(w) ==
  /\ pc[w] # "idle"
  /\ ~attached[w]
  /\ Release(w)
  /\ UNCHANGED losses

(* task_time_limit, or a pool process killed by the system: the parent     *)
(* acknowledges the message all the same.                                  *)
ChildKilled(w) ==
  /\ pc[w] \notin {"idle", "ack"}
  /\ attached[w]
  /\ Loss
  /\ Release(w)

-----------------------------------------------------------------------------

Init ==
  /\ status = [t \in Task |-> "none"]
  /\ attempts = [t \in Task |-> [n \in AttemptNo |-> "none"]]
  /\ result = [t \in Task |-> "none"]
  /\ external = [t \in Task |-> "none"]
  /\ economics = [t \in Task |-> NoLedger]
  /\ submits = [t \in Task |-> [n \in AttemptNo |-> 0]]
  /\ ready = [m \in Message |-> 0]
  /\ admission = [t \in Task |-> "new"]
  /\ cancelling = {}
  /\ pc = [w \in Worker |-> "idle"]
  /\ held = [w \in Worker |-> NoMessage]
  /\ attached = [w \in Worker |-> FALSE]
  /\ seen = [w \in Worker |-> NothingSeen]
  /\ outcome = [w \in Worker |-> "none"]
  /\ answer = [w \in Worker |-> NoAnswer]
  /\ losses = 0
  /\ faults = 0

Request(t) ==
  Create(t) \/ Enqueue(t) \/ CancelRead(t) \/ CancelCommit(t)

Progress(w) ==
  \/ \E m \in Message : Receive(w, m)
  \/ Begin(w)
  \/ Prepare(w)
  \/ \E verdict \in Verdict : Execute(w, verdict)
  \/ Raise(w)
  \/ MergeResult(w)
  \/ \E accepted \in BOOLEAN : SubmitResult(w, accepted)
  \/ LoadEconomics(w)
  \/ Commit(w)
  \/ Return(w)
  \/ RecordFailure(w)
  \/ Retry(w)
  \/ Ack(w)

Failure(w) ==
  \/ TransientError(w)
  \/ RecordFailureFails(w)
  \/ ConnectionLost(w)
  \/ Die(w)
  \/ ChildKilled(w)

Next ==
  \/ \E t \in Task : Request(t) \/ AdmissionLost(t)
  \/ \E w \in Worker : Progress(w) \/ Failure(w)

Spec == Init /\ [][Next]_vars

(* The request that committed a row goes on to publish it, and a pool      *)
(* process does not stop between two statements: the execution timeout and *)
(* Celery's time limits end every call it makes. Nothing that goes wrong   *)
(* is required to, and no task is required to be created or cancelled.     *)
Fairness ==
  /\ \A t \in Task : WF_vars(Enqueue(t))
  /\ \A w \in Worker : WF_vars(Progress(w))

FairSpec == Spec /\ Fairness

-----------------------------------------------------------------------------

TypeOK ==
  /\ status \in [Task -> Status]
  /\ attempts \in [Task -> [AttemptNo -> AttemptStatus]]
  /\ result \in [Task -> FinalOutcomes]
  /\ external \in [Task -> Submission]
  /\ economics \in [Task -> Ledger]
  /\ submits \in [Task -> [AttemptNo -> Nat]]
  /\ ready \in [Message -> Nat]
  /\ admission \in [Task -> {"new", "committed", "enqueued", "lost"}]
  /\ cancelling \subseteq Task
  /\ pc \in [Worker -> Stage]
  /\ held \in [Worker -> Message \cup {NoMessage}]
  /\ attached \in [Worker -> BOOLEAN]
  /\ seen \in [Worker -> Snapshot]
  /\ outcome \in [Worker -> Verdict \cup {"none"}]
  /\ answer \in [Worker -> Answer]
  /\ losses \in 0 .. MaxLosses
  /\ faults \in 0 .. MaxFaults
  /\ \A w \in Worker : pc[w] # "idle" => held[w] # NoMessage
  /\ \A w \in Worker : attached[w] => pc[w] # "idle"

(* One run per attempt: however often a message is delivered, at most one  *)
(* worker at a time executes that attempt of the task, because the insert  *)
(* of its attempt row can succeed only once (uq_task_attempt).             *)
OneRunPerAttempt ==
  \A v, w \in Worker :
    pc[v] \in Active /\ pc[w] \in Active /\ held[v] = held[w] => v = w

(* The paid source gets at most one result for each attempt, so at most    *)
(* MaxRetries + 1 for a task, whatever is redelivered, killed or retried.  *)
OneSubmitPerAttempt ==
  \A t \in Task, n \in AttemptNo : submits[t][n] <= 1

(* A delivered message always finds its row: the rows are committed before *)
(* the message is published, so "Task ... not found" is never raised.      *)
MessageHasTask ==
  /\ \A m \in Message : ready[m] > 0 => status[m.task] # "none"
  /\ \A w \in Worker : pc[w] # "idle" => status[task(w)] # "none"

(* A row that says "running" has an attempt that says so: a reader of the  *)
(* attempts table finds every task that was left behind.                   *)
StuckIsVisible ==
  \A t \in Task : status[t] = "running" =>
    \E n \in AttemptNo : attempts[t][n] = "running"

(* The worker still has the task to itself: it has neither handed it to a  *)
(* retry nor finished with it.                                             *)
Working(w, t) == pc[w] \notin {"idle", "ack"} /\ task(w) = t

(* As long as nothing is redelivered a task is in one place: in one        *)
(* message or with one worker.                                             *)
SoleDelivery ==
  losses = 0 =>
    \A t \in Task :
      /\ \A v, w \in Worker : Working(v, t) /\ Working(w, t) => v = w
      /\ \A w \in Worker, m \in Message :
           Working(w, t) /\ m.task = t => ready[m] = 0
      /\ \A m, n \in Message :
           m.task = t /\ n.task = t /\ ready[m] > 0 /\ ready[n] > 0 => m = n
      /\ \A m \in Message : m.task = t => ready[m] <= 1

(* As long as nothing is redelivered the books of a paid task agree with   *)
(* each other and with the stored result.                                  *)
BooksAgree ==
  losses = 0 =>
    \A t \in External :
      external[t] \in {"submitted", "submit_failed"} =>
        /\ economics[t].status = external[t]
        /\ economics[t].paid = IF result[t] = "success" THEN "base" ELSE "zero"

(* As long as nothing is redelivered a positive status has the stored      *)
(* result to match, also while a cancel races with the run.                *)
StatusMatchesResult ==
  losses = 0 =>
    \A t \in Task :
      /\ status[t] = "succeeded" => result[t] = "success"
      /\ status[t] = "abstained" => result[t] = "abstained"

(* A positive verdict stands unless a cancel was in flight, a delivery was *)
(* repeated, or the run failed after its commit.                           *)
VerdictStands ==
  [][\A t \in Task :
       status[t] \in {"succeeded", "abstained"} /\ losses = 0 /\ faults = 0
         /\ t \notin cancelling =>
           status'[t] = status[t]]_vars

(* Work ends: after bounded losses and faults every message has been dealt *)
(* with, since each retry raises the attempt number (max_retries).         *)
Drains ==
  <>[](/\ \A m \in Message : ready[m] = 0
       /\ \A w \in Worker : pc[w] = "idle")

(* Every admitted task leaves "queued", unless its message was lost.       *)
AdmittedIsBegun ==
  \A t \in Task :
    admission[t] = "committed" ~> status[t] # "queued" \/ losses > 0

(* The admission assumed here is the one that Admission and Ingest refine. *)
Once == INSTANCE AdmitOnce WITH Subject <- Task

AdmitsOnce == Once!Spec

(* Each attempt, by its row and the submissions it has made.               *)
Entry(row, sent) ==
  CASE row = "none" -> "free"
    [] row = "failed" -> "failed"
    [] row = "succeeded" -> "closed"
    [] row = "running" /\ sent = 0 -> "claimed"
    [] OTHER -> "reported"

ledger ==
  [a \in Task \X AttemptNo |->
     Entry(attempts[a[1]][a[2]], submits[a[1]][a[2]])]

Ledgers == INSTANCE AttemptLedger WITH Attempt <- Task \X AttemptNo,
                                       Paid <- External \X AttemptNo

(* However deliveries overlap, an attempt is claimed, reported to the paid *)
(* source, and closed, once each and in this order.                        *)
AttemptsInOrder == Ledgers!Spec

(* tasks.py:27, "Process single task and store status + failure metadata": *)
(* a run that raised has its failed attempt stored before it is retried.   *)
FailureStored ==
  \A w \in Worker :
    pc[w] = "retry" => attempts[task(w)][attempt_no(w)] = "failed"
=============================================================================
