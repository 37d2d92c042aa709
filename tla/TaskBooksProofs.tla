-------------------------- MODULE TaskBooksProofs --------------------------
(* The rows of one task agree as long as nothing is redelivered: what       *)
(* BooksAgree, StatusMatchesResult and VerdictStands say of TaskLifecycle,  *)
(* for any number of tasks, workers, retries and failures.                  *)
(*                                                                          *)
(* None of the three is inductive. A commit writes what its session has     *)
(* loaded in earlier steps, so each of these reads has to be known to be    *)
(* still true of the row when the commit comes; this holds because the task *)
(* is with one worker (SoleInv), and because the one column that somebody   *)
(* else writes, the status, can only have become "failed".                  *)
EXTENDS TaskLifecycleProofs

-----------------------------------------------------------------------------

Unfinished == {"running", "failed"}
Positive == {"succeeded", "abstained"}
Reported == {"economics", "commit"}
Merged == Reported \cup {"submit"}
Executing == Merged \cup {"prepare", "execute", "merge"}

(* A session that has read the row of its task has loaded what is stored    *)
(* still, but for the status, which a cancel may have set to "failed".      *)
RowIsOpen(w, t) ==
  /\ pc[w] \in {"prepare", "execute", "merge"} \cup Merged =>
       status[t] \in Unfinished
  /\ pc[w] \in {"execute", "merge"} \cup Merged =>
       seen[w].status \in Unfinished

ResultIsLoaded(w, t) ==
  pc[w] \in Merged => seen[w].result = result[t]

ReportIsLoaded(w, t) ==
  /\ pc[w] \in Reported =>
       /\ answer[w].status # "none"
       /\ answer[w].paid = Payout(outcome[w])
       /\ seen[w].external = external[t]
  /\ pc[w] = "commit" => seen[w].economics = economics[t]

SessionInv(w, t) ==
  /\ RowIsOpen(w, t)
  /\ ResultIsLoaded(w, t)
  /\ t \in External => ReportIsLoaded(w, t)

(* The rows of one task agree with each other.                              *)
ResultMatches(t) ==
  /\ status[t] = "succeeded" => result[t] = "success"
  /\ status[t] = "abstained" => result[t] = "abstained"

LedgerAgrees(t) ==
  external[t] \in {"submitted", "submit_failed"} =>
    /\ economics[t].status = external[t]
    /\ economics[t].paid = IF result[t] = "success" THEN "base" ELSE "zero"

Books(t) ==
  /\ status[t] \in Positive => admission[t] = "enqueued"
  /\ \A w \in Worker : Working(w, t) => SessionInv(w, t)
  /\ ResultMatches(t)
  /\ t \in External => LedgerAgrees(t)

BooksInv == losses = 0 => \A t \in Task : Books(t)

(* A positive verdict is out of every worker's reach: nothing is left to    *)
(* deliver, and the run that wrote it only has to return.                   *)
OutOfReach(t) ==
  status[t] \in Positive =>
    /\ \A m \in Message : m.task = t => ready[m] = 0
    /\ \A w \in Worker : Working(w, t) => pc[w] = "return"

VerdictInv == losses = 0 /\ faults = 0 => \A t \in Task : OutOfReach(t)

LEMMA InitBooks == Init => BooksInv
BY Assumptions
   DEF Init, BooksInv, Books, ResultMatches, LedgerAgrees, Working, Positive

(* The worker that has a task to itself.                                    *)
LEMMA SoleWorker ==
  ASSUME NEW t \in Task, Placed(t), NEW w \in Worker, Working(w, t)
  PROVE  /\ admission[t] = "enqueued"
         /\ \A m \in Message : m.task = t => ready[m] = 0
         /\ \A v \in Worker : Working(v, t) => v = w
BY DEF Placed, Nowhere, InOneMessage, WithOneWorker

(* A step that leaves the rows of a task alone, or only fails its status,   *)
(* and every run of it that goes on.                                        *)
LEMMA BooksFrame ==
  ASSUME NEW t \in Task, Books(t),
         status'[t] \in {status[t], "failed"},
         result'[t] = result[t],
         external'[t] = external[t],
         economics'[t] = economics[t],
         admission[t] = "enqueued" => admission'[t] = "enqueued",
         \A w \in Worker : Working(w, t)' /\ pc'[w] \in Executing =>
           /\ Working(w, t)
           /\ pc'[w] = pc[w]
           /\ seen'[w] = seen[w]
           /\ outcome'[w] = outcome[w]
           /\ answer'[w] = answer[w]
  PROVE  Books(t)'
<1>1. status'[t] \in Positive => status'[t] = status[t]
  BY DEF Positive
<1>2. status[t] \in Unfinished => status'[t] \in Unfinished
  BY DEF Unfinished
<1>3. ASSUME NEW w \in Worker, Working(w, t)' PROVE SessionInv(w, t)'
  <2>1. CASE pc'[w] \in Executing
    <3>1. SessionInv(w, t)
      BY <1>3, <2>1 DEF Books
    <3>2. QED
      BY <1>2, <1>3, <2>1, <3>1
         DEF SessionInv, RowIsOpen, ResultIsLoaded, ReportIsLoaded
  <2>2. CASE pc'[w] \notin Executing
    BY <2>2 DEF SessionInv, RowIsOpen, ResultIsLoaded, ReportIsLoaded,
                Executing, Merged, Reported
  <2>3. QED
    BY <2>1, <2>2
<1>4. ResultMatches(t)' /\ (t \in External => LedgerAgrees(t)')
  BY DEF Books, ResultMatches, LedgerAgrees
<1>5. QED
  BY <1>1, <1>3, <1>4 DEF Books

(* A step of the run that has the task.                                     *)
LEMMA BooksStep ==
  ASSUME TypeOK, NEW t \in Task, Placed(t), NEW w \in Worker, Working(w, t),
         held' = held, admission' = admission,
         \A v \in Worker \ {w} : pc'[v] = pc[v],
         SessionInv(w, t)', ResultMatches(t)',
         t \in External => LedgerAgrees(t)'
  PROVE  Books(t)'
<1>1. \A v \in Worker : Working(v, t)' => v = w
  BY SoleWorker DEF Working, task
<1>2. QED
  BY <1>1, SoleWorker DEF Books

(* The steps of one run, in the order of process_task.                      *)
LEMMA BooksBegin ==
  ASSUME TypeOK, NEW t \in Task, Placed(t), Books(t), NEW w \in Worker,
         task(w) = t, Begin(w), ~InsertRefused(w)
  PROVE  Books(t)'
<1>1. /\ pc[w] = "begin" /\ pc' = [pc EXCEPT ![w] = "prepare"]
      /\ status' = [status EXCEPT ![t] = "running"]
      /\ UNCHANGED <<held, admission, result, external, economics>>
  BY DEF Begin, Goto, SetStatus, session
<1>2. pc'[w] = "prepare" /\ status'[t] = "running"
  BY <1>1 DEF TypeOK
<1>3. SessionInv(w, t)'
  BY <1>2 DEF SessionInv, RowIsOpen, ResultIsLoaded, ReportIsLoaded, Merged,
              Reported, Unfinished
<1>4. ResultMatches(t)' /\ (t \in External => LedgerAgrees(t)')
  BY <1>1, <1>2 DEF Books, ResultMatches, LedgerAgrees
<1>5. QED
  BY <1>1, <1>3, <1>4, BooksStep DEF Working, TypeOK

LEMMA BooksRead ==
  ASSUME TypeOK, RowInv, PaidInv, NEW t \in Task, Placed(t), Books(t),
         NEW w \in Worker, task(w) = t,
         \/ Prepare(w) \/ MergeResult(w) \/ LoadEconomics(w)
         \/ \E verdict \in Verdict : Execute(w, verdict)
         \/ \E accepted \in BOOLEAN : SubmitResult(w, accepted)
  PROVE  Books(t)'
<1>1. /\ pc[w] \in Executing
      /\ UNCHANGED <<held, admission, status, result, external, economics>>
      /\ \A v \in Worker \ {w} : pc'[v] = pc[v]
  BY DEF Prepare, MergeResult, LoadEconomics, Execute, SubmitResult, Goto,
         tables, Executing, Merged, Reported, TypeOK
<1>2. Working(w, t)
  BY <1>1 DEF Working, Executing, Merged, Reported
<1>3. SessionInv(w, t)
  BY <1>2 DEF Books
<1>4. status[t] \in Unfinished
  BY <1>1, <1>3 DEF SessionInv, RowIsOpen, Executing
<1>5. SessionInv(w, t)'
  <2>1. CASE Prepare(w)
    <3>1. pc'[w] = "execute" /\ seen'[w].status = status[t]
      BY <2>1 DEF Prepare, Goto, TypeOK, Snapshot
    <3>2. QED
      BY <1>1, <1>4, <3>1
         DEF SessionInv, RowIsOpen, ResultIsLoaded, ReportIsLoaded, Merged,
             Reported
  <2>2. CASE \E verdict \in Verdict : Execute(w, verdict)
    <3>1. pc[w] = "execute" /\ pc'[w] = "merge" /\ seen' = seen
      BY <2>2 DEF Execute, Goto, TypeOK
    <3>2. QED
      BY <1>1, <1>3, <1>4, <3>1
         DEF SessionInv, RowIsOpen, ResultIsLoaded, ReportIsLoaded, Merged,
             Reported
  <2>3. CASE MergeResult(w)
    <3>1. /\ pc[w] = "merge" /\ pc'[w] = "submit"
          /\ seen'[w].status = seen[w].status
          /\ seen'[w].result = result[t]
      BY <2>3 DEF MergeResult, Goto, TypeOK, Snapshot
    <3>2. QED
      BY <1>1, <1>3, <1>4, <3>1
         DEF SessionInv, RowIsOpen, ResultIsLoaded, ReportIsLoaded, Merged,
             Reported
  <2>4. ASSUME NEW accepted \in BOOLEAN, SubmitResult(w, accepted)
        PROVE  SessionInv(w, t)'
    <3>1. /\ pc[w] = "submit" /\ pc'[w] \in Reported
          /\ seen'[w].status = seen[w].status
          /\ seen'[w].result = seen[w].result
      BY <2>4 DEF SubmitResult, Goto, TypeOK, Snapshot, Reported
    <3>2. RowIsOpen(w, t)' /\ ResultIsLoaded(w, t)'
      BY <1>1, <1>3, <1>4, <3>1
         DEF SessionInv, RowIsOpen, ResultIsLoaded, Merged, Reported
    <3>3. ASSUME t \in External PROVE ReportIsLoaded(w, t)'
      <4>1. external[t] # "none"
        BY <3>1, <3>3
           DEF RowInv, MessageHasTask, PaidInv, PaidHasRow
      <4>2. /\ pc'[w] = "economics"
            /\ seen'[w].external = external[t]
            /\ answer'[w].status # "none"
            /\ answer'[w].paid = Payout(outcome[w])
            /\ outcome' = outcome
        BY <2>4, <4>1 DEF SubmitResult, Goto, TypeOK, Snapshot
      <4>3. QED
        BY <1>1, <4>2 DEF ReportIsLoaded, Reported
    <3>4. QED
      BY <3>2, <3>3 DEF SessionInv
  <2>5. CASE LoadEconomics(w)
    <3>1. /\ pc[w] = "economics" /\ pc'[w] = "commit"
          /\ seen'[w].status = seen[w].status
          /\ seen'[w].result = seen[w].result
          /\ seen'[w].external = seen[w].external
          /\ seen'[w].economics = economics[t]
          /\ answer' = answer /\ outcome' = outcome
      BY <2>5 DEF LoadEconomics, Goto, TypeOK, Snapshot
    <3>2. QED
      BY <1>1, <1>3, <1>4, <3>1
         DEF SessionInv, RowIsOpen, ResultIsLoaded, ReportIsLoaded, Merged,
             Reported
  <2>6. QED
    BY <2>1, <2>2, <2>3, <2>4, <2>5
<1>6. ResultMatches(t)' /\ (t \in External => LedgerAgrees(t)')
  BY <1>1 DEF Books, ResultMatches, LedgerAgrees
<1>7. QED
  BY <1>1, <1>2, <1>5, <1>6, BooksStep

(* The second transaction. Nothing it has loaded has changed since, so      *)
(* every column gets the value that belongs to the outcome, but a status    *)
(* "failed" that the outcome repeats is not written.                        *)
LEMMA BooksCommit ==
  ASSUME TypeOK, RowInv, NEW t \in Task, Placed(t), Books(t),
         NEW w \in Worker, task(w) = t, Commit(w)
  PROVE  Books(t)'
<1>1. /\ pc[w] = "commit" /\ UNCHANGED <<held, admission>>
      /\ \A v \in Worker \ {w} : pc'[v] = pc[v]
  BY DEF Commit, Goto, session, TypeOK
<1>2. Working(w, t) /\ SessionInv(w, t)
  BY <1>1 DEF Working, Books
<1>3. /\ status[t] \in Unfinished /\ seen[w].status \in Unfinished
      /\ seen[w].result = result[t]
  BY <1>1, <1>2 DEF SessionInv, RowIsOpen, ResultIsLoaded, Merged, Reported
<1>4. pc'[w] = "return" /\ WriteRows(w)
  BY <1>3 DEF Commit, ResultConflict, Goto, TypeOK
<1>5. outcome[w] \in Verdict
  BY <1>1 DEF RowInv
<1>6. result'[t] = FinalOutcome(outcome[w])
  BY <1>3, <1>4 DEF WriteRows, Flush, TypeOK
<1>7. status'[t] = outcome[w] \/ status'[t] \in Unfinished
  BY <1>3, <1>4 DEF WriteRows, SetStatus, Flush, TypeOK
<1>8. ResultMatches(t)'
  BY <1>5, <1>6, <1>7 DEF ResultMatches, Unfinished, FinalOutcome
<1>9. ASSUME t \in External PROVE LedgerAgrees(t)'
  <2>1. /\ answer[w].status # "none"
        /\ answer[w].paid = Payout(outcome[w])
        /\ seen[w].external = external[t]
        /\ seen[w].economics = economics[t]
    BY <1>1, <1>2, <1>9 DEF SessionInv, ReportIsLoaded, Reported
  <2>2. external'[t] = answer[w].status
    BY <1>4, <2>1 DEF WriteRows, Flush, TypeOK
  <2>3. economics'[t] = [status |-> answer[w].status,
                         paid |-> Payout(outcome[w])]
    BY <1>4, <2>1 DEF WriteRows, Flush, TypeOK
  <2>4. QED
    BY <1>6, <2>2, <2>3 DEF LedgerAgrees, Payout
<1>10. SessionInv(w, t)'
  BY <1>4 DEF SessionInv, RowIsOpen, ResultIsLoaded, ReportIsLoaded, Merged,
              Reported
<1>11. QED
  BY <1>1, <1>2, <1>8, <1>9, <1>10, BooksStep

(* Which rows a worker writes.                                              *)
LEMMA RowsOfOthersStay ==
  ASSUME TypeOK, NEW w \in Worker, Progress(w) \/ Failure(w),
         NEW t \in Task, task(w) # t \/ pc[w] \in {"idle", "ack"}
  PROVE  /\ status'[t] = status[t] /\ result'[t] = result[t]
         /\ external'[t] = external[t] /\ economics'[t] = economics[t]
<1>1. CASE UNCHANGED <<status, result, external, economics>>
  BY <1>1
<1>2. CASE Begin(w) \/ RecordFailure(w)
  BY <1>2 DEF Begin, RecordFailure, SetStatus, TypeOK
<1>3. CASE Commit(w)
  <2>1. CASE UNCHANGED tables
    BY <2>1 DEF tables
  <2>2. CASE WriteRows(w)
    BY <1>3, <2>2 DEF Commit, WriteRows, SetStatus, TypeOK
  <2>3. QED
    BY <1>3, <2>1, <2>2 DEF Commit
<1>4. QED
  BY <1>1, <1>2, <1>3
     DEF Progress, Failure, Receive, Prepare, Execute, Raise, MergeResult,
         SubmitResult, LoadEconomics, Return, TransientError,
         RecordFailureFails, Retry, Ack, ConnectionLost, Die, ChildKilled,
         Release, tables

(* A step of a worker that has nothing to do with the task, or gives it up. *)
LEMMA BooksStay ==
  ASSUME TypeOK, NEW t \in Task, Books(t), NEW w \in Worker,
         Progress(w) \/ Failure(w),
         \/ task(w) # t \/ pc[w] \in {"idle", "ack"}
         \/ ~Commit(w) /\ pc'[w] \notin Executing
  PROVE  Books(t)'
<1>1. /\ status'[t] \in {status[t], "failed"} /\ result'[t] = result[t]
      /\ external'[t] = external[t] /\ economics'[t] = economics[t]
  <2>1. CASE task(w) # t \/ pc[w] \in {"idle", "ack"}
    BY <2>1, RowsOfOthersStay
  <2>2. CASE task(w) = t /\ ~Commit(w) /\ pc'[w] \notin Executing
    <3>1. CASE Begin(w)
      BY <2>2, <3>1 DEF Begin, Goto, TypeOK, Executing
    <3>2. CASE RecordFailure(w)
      BY <2>2, <3>2 DEF RecordFailure, SetStatus, TypeOK
    <3>3. CASE ~Begin(w) /\ ~RecordFailure(w)
      BY <2>2, <3>3
         DEF Progress, Failure, Receive, Prepare, Execute, Raise, MergeResult,
             SubmitResult, LoadEconomics, Return, TransientError,
             RecordFailureFails, Retry, Ack, ConnectionLost, Die, ChildKilled,
             Release, tables
    <3>4. QED
      BY <3>1, <3>2, <3>3
  <2>3. QED
    BY <2>1, <2>2
<1>2. admission' = admission
  BY DEF Progress, Failure, Receive, Begin, Prepare, Execute, Raise,
         MergeResult, SubmitResult, LoadEconomics, Commit, Return,
         TransientError, RecordFailure, RecordFailureFails, Retry, Ack,
         ConnectionLost, Die, ChildKilled, Release
<1>3. ~(Working(w, t)' /\ pc'[w] \in Executing)
  <2>1. CASE task(w) # t
    <3>1. held' = held \/ pc'[w] \in {"idle", "begin"}
      BY DEF Progress, Failure, Receive, Begin, Prepare, Execute, Raise,
             MergeResult, SubmitResult, LoadEconomics, Commit, Return,
             TransientError, RecordFailure, RecordFailureFails, Retry, Ack,
             ConnectionLost, Die, ChildKilled, Release, Goto, session, TypeOK
    <3>2. QED
      BY <2>1, <3>1 DEF Working, task, Executing, Merged, Reported
  <2>2. CASE pc[w] \in {"idle", "ack"}
    <3>1. pc'[w] \in {"idle", "ack", "begin"}
      BY <2>2
         DEF Progress, Failure, Receive, Begin, Prepare, Execute, Raise,
             MergeResult, SubmitResult, LoadEconomics, Commit, Return,
             TransientError, RecordFailure, RecordFailureFails, Retry, Ack,
             ConnectionLost, Die, ChildKilled, Release, Goto, Active, TypeOK
    <3>2. QED
      BY <3>1 DEF Executing, Merged, Reported
  <2>3. QED
    BY <2>1, <2>2
<1>4. \A v \in Worker \ {w} :
        /\ Working(v, t)' <=> Working(v, t)
        /\ pc'[v] = pc[v] /\ seen'[v] = seen[v]
        /\ outcome'[v] = outcome[v] /\ answer'[v] = answer[v]
  BY OthersWait DEF Working, task
<1>5. QED
  BY <1>1, <1>2, <1>3, <1>4, BooksFrame

(* The steps of the API: of the rows looked at here they write only a new   *)
(* one, which nobody works on, or a failed status.                          *)
LEMMA BooksRequest ==
  ASSUME TypeOK, NEW t \in Task, Books(t), Placed(t),
         NEW u \in Task, Request(u) \/ AdmissionLost(u)
  PROVE  Books(t)'
<1>1. UNCHANGED <<pc, held, seen, outcome, answer>>
  BY RequestsWait
<1>2. CASE Create(t)
  <2>1. admission[t] = "new" /\ status'[t] = "queued"
    BY <1>2 DEF Create, SetStatus, TypeOK
  <2>2. \A w \in Worker : ~Working(w, t)'
    BY <1>1, <2>1 DEF Placed, Nowhere, Working, task
  <2>3. t \in External => external'[t] = "accepted"
    BY <1>2 DEF Create, TypeOK
  <2>4. QED
    BY <2>1, <2>2, <2>3 DEF Books, ResultMatches, LedgerAgrees, Positive
<1>3. CASE ~Create(t)
  <2>1. /\ status'[t] \in {status[t], "failed"} /\ result'[t] = result[t]
        /\ external'[t] = external[t] /\ economics'[t] = economics[t]
        /\ admission[t] = "enqueued" => admission'[t] = "enqueued"
    BY <1>3 DEF Request, Create, Enqueue, CancelRead, CancelCommit,
                AdmissionLost, SetStatus, tables, TypeOK
  <2>2. \A w \in Worker : Working(w, t)' <=> Working(w, t)
    BY <1>1 DEF Working, task
  <2>3. QED
    BY <1>1, <2>1, <2>2, BooksFrame
<1>4. QED
  BY <1>2, <1>3

(* Nothing lost after a step, nothing lost before it.                       *)
LEMMA LossesLast ==
  ASSUME TypeOK, [Next]_vars
  PROVE  /\ losses' = 0 => losses = 0
         /\ faults' = 0 => faults = 0
<1>1. losses \in Nat /\ faults \in Nat
  BY Assumptions DEF TypeOK
<1>2. losses' = losses \/ losses' = losses + 1
  BY DEF Next, Request, Progress, Failure, Create, Enqueue, CancelRead,
         CancelCommit, AdmissionLost, Receive, Begin, Prepare, Execute,
         Raise, MergeResult, SubmitResult, LoadEconomics, Commit, Return,
         TransientError, RecordFailure, RecordFailureFails, Retry, Ack,
         ConnectionLost, Die, ChildKilled, Release, Loss, vars
<1>3. faults' = faults \/ faults' = faults + 1
  BY DEF Next, Request, Progress, Failure, Create, Enqueue, CancelRead,
         CancelCommit, AdmissionLost, Receive, Begin, Prepare, Execute,
         Raise, MergeResult, SubmitResult, LoadEconomics, Commit, Return,
         TransientError, RecordFailure, RecordFailureFails, Retry, Ack,
         ConnectionLost, Die, ChildKilled, Release, Fault, vars
<1>4. QED
  BY <1>1, <1>2, <1>3

LEMMA NextBooks ==
  TypeOK /\ RowInv /\ PaidInv /\ SoleInv /\ BooksInv /\ [Next]_vars
    => BooksInv'
<1> SUFFICES ASSUME TypeOK, RowInv, PaidInv, SoleInv, BooksInv, [Next]_vars,
                    losses' = 0, NEW t \in Task
             PROVE  Books(t)'
  BY DEF BooksInv
<1>1. Books(t) /\ Placed(t)
  BY LossesLast DEF BooksInv, SoleInv
<1>2. CASE UNCHANGED vars
  BY <1>1, <1>2, BooksFrame
     DEF vars, tables, session, Working, task
<1>3. ASSUME NEW u \in Task, Request(u) \/ AdmissionLost(u) PROVE Books(t)'
  BY <1>1, <1>3, BooksRequest
<1>4. ASSUME NEW w \in Worker, Progress(w) \/ Failure(w) PROVE Books(t)'
  <2>1. CASE \/ task(w) # t \/ pc[w] \in {"idle", "ack"}
             \/ ~Commit(w) /\ pc'[w] \notin Executing
    BY <1>1, <1>4, <2>1, BooksStay
  <2>2. CASE task(w) = t /\ Commit(w)
    BY <1>1, <2>2, BooksCommit
  <2>3. CASE /\ task(w) = t /\ pc[w] \notin {"idle", "ack"}
             /\ ~Commit(w) /\ pc'[w] \in Executing
    <3>1. CASE Begin(w) /\ ~InsertRefused(w)
      BY <1>1, <2>3, <3>1, BooksBegin
    <3>2. CASE ConnectionLost(w)
      BY <3>2, LossesLast, Assumptions DEF ConnectionLost, Loss, TypeOK
    <3>3. CASE \/ Prepare(w) \/ MergeResult(w) \/ LoadEconomics(w)
               \/ \E verdict \in Verdict : Execute(w, verdict)
               \/ \E accepted \in BOOLEAN : SubmitResult(w, accepted)
      BY <1>1, <2>3, <3>3, BooksRead
    <3>4. QED
      BY <1>4, <2>3, <3>1, <3>2, <3>3
         DEF Progress, Failure, Receive, Begin, Raise, Return, TransientError,
             RecordFailure, RecordFailureFails, Retry, Ack, Die, ChildKilled,
             Release, Goto, Executing, Merged, Reported, TypeOK
  <2>4. QED
    BY <2>1, <2>2, <2>3
<1>5. QED
  BY <1>2, <1>3, <1>4 DEF Next

(* Everything that the books rest on.                                       *)
BooksIndInv == TypeOK /\ RowInv /\ PaidInv /\ SoleInv /\ BooksInv

LEMMA BooksKept == Spec => []BooksIndInv
<1>1. Init => BooksIndInv
  BY InitTypeOK, InitRow, InitPaid, InitSole, InitBooks DEF BooksIndInv
<1>2. BooksIndInv /\ [Next]_vars => BooksIndInv'
  BY NextTypeOK, NextRow, NextPaid, NextSole, NextBooks DEF BooksIndInv
<1>3. QED
  BY <1>1, <1>2, PTL DEF Spec

(* The external row, the economics row and the stored result of a paid task *)
(* say the same, whatever fails, is retried or is cancelled meanwhile.      *)
THEOREM PaidBooksAgree == Spec => []BooksAgree
<1>1. BooksIndInv => BooksAgree
  BY Assumptions DEF BooksIndInv, BooksInv, Books, LedgerAgrees, BooksAgree
<1>2. QED
  BY <1>1, BooksKept, PTL

(* A positive status has the result that belongs to it.                     *)
THEOREM StatusHasItsResult == Spec => []StatusMatchesResult
<1>1. BooksIndInv => StatusMatchesResult
  BY DEF BooksIndInv, BooksInv, Books, ResultMatches, StatusMatchesResult
<1>2. QED
  BY <1>1, BooksKept, PTL

-----------------------------------------------------------------------------
(* What can still happen to a verdict.                                      *)

LEMMA InitVerdict == Init => VerdictInv
BY DEF Init, VerdictInv, OutOfReach, Positive

LEMMA ReachRequest ==
  ASSUME TypeOK, NEW t \in Task, Books(t), OutOfReach(t),
         NEW u \in Task, Request(u) \/ AdmissionLost(u)
  PROVE  OutOfReach(t)'
<1> SUFFICES ASSUME status'[t] \in Positive PROVE OutOfReach(t)'
  BY DEF OutOfReach
<1>1. UNCHANGED <<pc, held>>
  BY RequestsWait
<1>2. status[t] \in Positive
  BY DEF Request, Create, Enqueue, CancelRead, CancelCommit, AdmissionLost,
         SetStatus, tables, TypeOK, Positive
<1>3. \A m \in Message : m.task = t => ready'[m] = ready[m]
  <2>1. CASE Enqueue(u)
    <3>1. admission[t] = "enqueued"
      BY <1>2 DEF Books
    <3>2. t # u
      BY <2>1, <3>1 DEF Enqueue
    <3>3. QED
      BY <2>1, <3>2, FirstMessage DEF Enqueue, Publish, TypeOK
  <2>2. CASE ~Enqueue(u)
    BY <2>2 DEF Request, Create, CancelRead, CancelCommit, AdmissionLost,
                broker
  <2>3. QED
    BY <2>1, <2>2
<1>4. QED
  BY <1>1, <1>2, <1>3 DEF OutOfReach, Working, task

LEMMA ReachCommit ==
  ASSUME TypeOK, NEW t \in Task, Placed(t), NEW w \in Worker,
         task(w) = t, Commit(w), pc'[w] = "return"
  PROVE  OutOfReach(t)'
<1>1. Working(w, t) /\ UNCHANGED <<ready, held>>
  BY DEF Commit, Working, broker, session
<1>2. \A v \in Worker : Working(v, t)' => v = w
  <2>1. \A v \in Worker \ {w} : pc'[v] = pc[v]
    BY DEF Commit, Goto, TypeOK
  <2>2. QED
    BY <1>1, <2>1, SoleWorker DEF Working, task
<1>3. QED
  BY <1>1, <1>2, SoleWorker DEF OutOfReach

LEMMA ReachWorker ==
  ASSUME TypeOK, RowInv, NEW t \in Task, Placed(t), Books(t), OutOfReach(t),
         NEW w \in Worker, Progress(w) \/ Failure(w),
         losses' = 0, faults' = 0
  PROVE  OutOfReach(t)'
<1> SUFFICES ASSUME status'[t] \in Positive PROVE OutOfReach(t)'
  BY DEF OutOfReach
<1>0. losses \in Nat /\ faults \in Nat
  BY Assumptions DEF TypeOK
<1>1. CASE task(w) = t /\ Commit(w)
  <2>1. seen[w].result = result[t]
    BY <1>1 DEF Books, SessionInv, ResultIsLoaded, Commit, Working, Merged,
                Reported
  <2>2. pc'[w] = "return"
    BY <1>1, <2>1 DEF Commit, ResultConflict, Goto, TypeOK
  <2>3. QED
    BY <1>1, <2>2, ReachCommit
<1>2. CASE ~(task(w) = t /\ Commit(w))
  <2>1. status[t] \in Positive
    <3>1. CASE task(w) # t \/ pc[w] \in {"idle", "ack"}
      BY <3>1, RowsOfOthersStay
    <3>2. CASE task(w) = t /\ ~Commit(w) /\ pc[w] \notin {"idle", "ack"}
      BY <3>2 DEF Positive, Progress, Failure, Receive, Begin, Prepare,
                  Execute, Raise, MergeResult, SubmitResult, LoadEconomics,
                  Return, TransientError, RecordFailure, RecordFailureFails,
                  Retry, Ack, ConnectionLost, Die, ChildKilled, Release,
                  SetStatus, tables, TypeOK
    <3>3. QED
      BY <1>2, <3>1, <3>2 DEF Commit
  <2>2. /\ \A m \in Message : m.task = t => ready[m] = 0
        /\ \A v \in Worker : Working(v, t) => pc[v] = "return"
    BY <2>1 DEF OutOfReach
  <2>3. ~Loss /\ ~Fault
    BY <1>0 DEF Loss, Fault
  <2>4. CASE Working(w, t)
    <3>1. pc[w] = "return" /\ task(w) = t
      BY <2>2, <2>4 DEF Working
    <3>2. Return(w) \/ Die(w)
      BY <2>3, <3>1 DEF Progress, Failure, Receive, Begin, Prepare, Execute,
                        Raise, MergeResult, SubmitResult, LoadEconomics,
                        Commit, TransientError, RecordFailure,
                        RecordFailureFails, Retry, Ack, ConnectionLost,
                        ChildKilled
    <3>3. ready' = ready /\ pc'[w] \in {"ack", "idle"}
      BY <3>2 DEF Return, Die, Release, Goto, broker, TypeOK
    <3>4. QED
      BY <2>2, <3>3, OthersWait DEF OutOfReach, Working, task
  <2>5. CASE ~Working(w, t)
    <3>1. \A m \in Message : Receive(w, m) => m.task # t
      BY <2>2 DEF Receive, TypeOK
    <3>2. ~Working(w, t)'
      <4>1. CASE \E m \in Message : Receive(w, m)
        BY <3>1, <4>1 DEF Receive, Working, task, TypeOK
      <4>2. CASE ~\E m \in Message : Receive(w, m)
        <5>1. \/ pc'[w] \in {"idle", "ack"}
              \/ held' = held /\ pc[w] \notin {"idle", "ack"}
          BY <2>3, <4>2
             DEF Progress, Failure, Begin, Prepare, Execute, Raise,
                 MergeResult, SubmitResult, LoadEconomics, Commit, Return,
                 TransientError, RecordFailure, RecordFailureFails, Retry, Ack,
                 ConnectionLost, Die, ChildKilled, Release, Goto, session,
                 Active, TypeOK
        <5>2. QED
          BY <2>5, <5>1 DEF Working, task
      <4>3. QED
        BY <4>1, <4>2
    <3>3. \A m \in Message : m.task = t => ready'[m] = 0
      <4>1. CASE Retry(w)
        <5>1. held[w] \in Message /\ task(w) # t
          BY <2>5, <4>1, HeldTyped DEF Retry, Working
        <5>2. CASE ready' = ready
          BY <2>2, <5>2
        <5>3. CASE ready' # ready
          <6> DEFINE r == [task |-> task(w), retries |-> held[w].retries + 1]
          <6>1. r \in Message /\ r.task # t /\ Publish(r)
            BY <4>1, <5>1, <5>3, NextMessage DEF Retry, task
          <6>2. QED
            BY <2>2, <6>1 DEF Publish, TypeOK
        <5>4. QED
          BY <5>2, <5>3
      <4>2. CASE \E m \in Message : Receive(w, m)
        BY <2>2, <3>1, <4>2 DEF Receive, TypeOK
      <4>3. CASE ~Retry(w) /\ ~\E m \in Message : Receive(w, m)
        BY <2>2, <2>3, <4>3
           DEF Progress, Failure, Begin, Prepare, Execute, Raise, MergeResult,
               SubmitResult, LoadEconomics, Commit, Return, TransientError,
               RecordFailure, RecordFailureFails, Ack, ConnectionLost, Die,
               ChildKilled, Release, broker
      <4>4. QED
        BY <4>1, <4>2, <4>3
    <3>4. QED
      BY <2>2, <3>2, <3>3, OthersWait DEF OutOfReach, Working, task
  <2>6. QED
    BY <2>4, <2>5
<1>3. QED
  BY <1>1, <1>2

LEMMA NextVerdict ==
  TypeOK /\ RowInv /\ SoleInv /\ BooksInv /\ VerdictInv /\ [Next]_vars
    => VerdictInv'
<1> SUFFICES ASSUME TypeOK, RowInv, SoleInv, BooksInv, VerdictInv,
                    [Next]_vars, losses' = 0, faults' = 0, NEW t \in Task
             PROVE  OutOfReach(t)'
  BY DEF VerdictInv
<1>1. Placed(t) /\ Books(t) /\ OutOfReach(t)
  BY LossesLast DEF SoleInv, BooksInv, VerdictInv
<1>2. CASE UNCHANGED vars
  BY <1>1, <1>2
     DEF vars, tables, broker, session, OutOfReach, Working, task
<1>3. QED
  BY <1>1, <1>2, ReachRequest, ReachWorker DEF Next

(* What writes the status of a task that has a positive one: a cancel, and  *)
(* nobody else.                                                             *)
LEMMA VerdictStep ==
  ASSUME TypeOK, RowInv, BooksInv, VerdictInv, [Next]_vars,
         losses = 0, faults = 0, NEW t \in Task, status[t] \in Positive,
         t \notin cancelling
  PROVE  status'[t] = status[t]
<1>1. admission[t] = "enqueued"
  BY DEF BooksInv, Books
<1>2. \A w \in Worker : Working(w, t) => pc[w] = "return"
  BY DEF VerdictInv, OutOfReach
<1>3. ASSUME NEW u \in Task, Request(u) \/ AdmissionLost(u)
      PROVE  status'[t] = status[t]
  BY <1>1, <1>3 DEF Request, Create, Enqueue, CancelRead, CancelCommit,
                    AdmissionLost, SetStatus, tables, TypeOK
<1>4. ASSUME NEW w \in Worker, Progress(w) \/ Failure(w)
      PROVE  status'[t] = status[t]
  <2>1. CASE task(w) # t \/ pc[w] \in {"idle", "ack"}
    BY <1>4, <2>1, RowsOfOthersStay
  <2>2. CASE pc[w] = "return"
    BY <1>4, <2>2
       DEF Progress, Failure, Receive, Begin, Prepare, Execute, Raise,
           MergeResult, SubmitResult, LoadEconomics, Commit, Return,
           TransientError, RecordFailure, RecordFailureFails, Retry, Ack,
           ConnectionLost, Die, ChildKilled, Release, tables
  <2>3. QED
    BY <1>2, <2>1, <2>2 DEF Working
<1>5. QED
  BY <1>3, <1>4 DEF Next, vars, tables

(* As long as nothing is lost or fails, a positive verdict is changed by a  *)
(* cancel that was in flight before it, and by nothing else.                *)
THEOREM PositiveVerdictStands == Spec => VerdictStands
<1>1. Init => VerdictInv
  BY InitVerdict
<1>2. BooksIndInv /\ VerdictInv /\ [Next]_vars => VerdictInv'
  BY NextVerdict DEF BooksIndInv
<1>3. BooksIndInv /\ VerdictInv /\ [Next]_vars =>
        [\A t \in Task :
           status[t] \in {"succeeded", "abstained"} /\ losses = 0
             /\ faults = 0 /\ t \notin cancelling =>
               status'[t] = status[t]]_vars
  BY VerdictStep DEF BooksIndInv, Positive
<1>4. QED
  BY <1>1, <1>2, <1>3, BooksKept, PTL DEF Spec, VerdictStands
=============================================================================
