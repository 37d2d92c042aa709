------------------------ MODULE TaskLifecycleProofs ------------------------
(* What holds of TaskLifecycle for any number of tasks, workers, retries    *)
(* and redeliveries.                                                        *)
EXTENDS TaskLifecycle, TLAPS

-----------------------------------------------------------------------------
(* Types.                                                                   *)

LEMMA Blanks ==
  /\ NothingSeen \in Snapshot
  /\ NoAnswer \in Answer
  /\ NoLedger \in Ledger
  BY DEF NothingSeen, NoAnswer, NoLedger, Snapshot, Answer, Ledger, Status,
         FinalOutcomes, Submission

(* What a worker that is not idle holds.                                    *)
LEMMA HeldTyped ==
  ASSUME TypeOK, NEW w \in Worker, pc[w] # "idle"
  PROVE  /\ held[w] \in Message
         /\ task(w) \in Task
         /\ attempt_no(w) \in AttemptNo
<1>1. held[w] \in Message
  BY DEF TypeOK
<1>2. task(w) \in Task
  BY <1>1 DEF task, Message
<1>3. held[w].retries \in 0 .. MaxRetries
  BY <1>1 DEF Message
<1>4. attempt_no(w) \in AttemptNo
  BY <1>3, Assumptions DEF attempt_no, AttemptNo
<1>5. QED
  BY <1>1, <1>2, <1>4

LEMMA FirstMessage ==
  ASSUME NEW t \in Task
  PROVE  [task |-> t, retries |-> 0] \in Message
BY Assumptions DEF Message

LEMMA NextMessage ==
  ASSUME NEW m \in Message, m.retries < MaxRetries
  PROVE  [task |-> m.task, retries |-> m.retries + 1] \in Message
BY Assumptions DEF Message

LEMMA OutcomeTyped ==
  ASSUME NEW v \in Verdict \cup {"none"}
  PROVE  /\ FinalOutcome(v) \in FinalOutcomes
         /\ Payout(v) \in {"unset", "zero", "base"}
BY DEF FinalOutcome, Payout, FinalOutcomes

LEMMA InitTypeOK == Init => TypeOK
<1> SUFFICES ASSUME Init PROVE TypeOK
  OBVIOUS
<1>1. losses \in 0 .. MaxLosses /\ faults \in 0 .. MaxFaults
  BY Assumptions DEF Init
<1>2. QED
  BY <1>1, Blanks DEF Init, TypeOK, Status, AttemptStatus, FinalOutcomes,
                      Submission, Stage

LEMMA NextTypeOK == TypeOK /\ [Next]_vars => TypeOK'
<1> SUFFICES ASSUME TypeOK, [Next]_vars PROVE TypeOK'
  OBVIOUS
<1> USE DEF tables, broker, session, Goto, SetStatus
<1>1. ASSUME NEW t \in Task, Create(t) PROVE TypeOK'
  <2>1. economics' \in [Task -> Ledger]
    <3>1. \/ economics' = economics
          \/ economics' = [economics EXCEPT ![t] =
                             [status |-> "queued", paid |-> "unset"]]
      BY <1>1 DEF Create
    <3>2. [status |-> "queued", paid |-> "unset"] \in Ledger
      BY DEF Ledger
    <3>3. QED
      BY <3>1, <3>2 DEF TypeOK
  <2>2. QED
    BY <1>1, <2>1 DEF Create, TypeOK, Status, Submission
<1>2. ASSUME NEW t \in Task, Enqueue(t) PROVE TypeOK'
  BY <1>2, FirstMessage DEF Enqueue, TypeOK, Publish
<1>3. ASSUME NEW t \in Task, AdmissionLost(t) PROVE TypeOK'
  BY <1>3, Assumptions DEF AdmissionLost, Loss, TypeOK
<1>4. ASSUME NEW t \in Task, CancelRead(t) PROVE TypeOK'
  BY <1>4 DEF CancelRead, TypeOK
<1>5. ASSUME NEW t \in Task, CancelCommit(t) PROVE TypeOK'
  BY <1>5 DEF CancelCommit, TypeOK, Status, Verdict
<1>6. ASSUME NEW w \in Worker, NEW m \in Message, Receive(w, m) PROVE TypeOK'
  BY <1>6, Assumptions DEF Receive, TypeOK, Stage
<1>7. ASSUME NEW w \in Worker, Begin(w) PROVE TypeOK'
  <2>0. task(w) \in Task /\ attempt_no(w) \in AttemptNo
    BY <1>7, HeldTyped DEF Begin
  <2>1. attempts' \in [Task -> [AttemptNo -> AttemptStatus]]
    <3>1. \/ attempts' = attempts
          \/ \E v \in AttemptStatus : SetAttempt(w, v)
      BY <1>7 DEF Begin, AttemptStatus
    <3>2. attempts \in [Task -> [AttemptNo -> AttemptStatus]]
      BY DEF TypeOK
    <3>3. ASSUME NEW v \in AttemptStatus, SetAttempt(w, v)
          PROVE  attempts' \in [Task -> [AttemptNo -> AttemptStatus]]
      BY <2>0, <3>2, <3>3 DEF SetAttempt
    <3>4. QED
      BY <3>1, <3>2, <3>3
  <2>2. QED
    BY <1>7, <2>1 DEF Begin, TypeOK, Status, Stage, Active
<1>8. ASSUME NEW w \in Worker, Prepare(w) PROVE TypeOK'
  <2>1. seen' \in [Worker -> Snapshot]
    BY <1>8, HeldTyped DEF Prepare, TypeOK, Snapshot
  <2>2. QED
    BY <1>8, <2>1 DEF Prepare, TypeOK, Stage, Active
<1>9. ASSUME NEW w \in Worker, NEW verdict \in Verdict, Execute(w, verdict)
      PROVE TypeOK'
  BY <1>9 DEF Execute, TypeOK, Stage, Active
<1>10. ASSUME NEW w \in Worker, Raise(w) PROVE TypeOK'
  BY <1>10 DEF Raise, TypeOK, Stage
<1>11. ASSUME NEW w \in Worker, MergeResult(w) PROVE TypeOK'
  <2>1. seen' \in [Worker -> Snapshot]
    BY <1>11, HeldTyped DEF MergeResult, TypeOK, Snapshot
  <2>2. QED
    BY <1>11, <2>1 DEF MergeResult, TypeOK, Stage, Active
<1>12. ASSUME NEW w \in Worker, NEW accepted \in BOOLEAN,
              SubmitResult(w, accepted)
       PROVE TypeOK'
  <2>0. task(w) \in Task /\ attempt_no(w) \in AttemptNo
    BY <1>12, HeldTyped DEF SubmitResult
  <2>a. external[task(w)] \in Submission
    BY <2>0 DEF TypeOK
  <2>b. Payout(outcome[w]) \in {"unset", "zero", "base"}
    BY OutcomeTyped DEF TypeOK
  <2>1. seen' \in [Worker -> Snapshot]
    <3>1. \/ seen' = seen
          \/ seen' = [seen EXCEPT ![w].external = external[task(w)]]
      BY <1>12 DEF SubmitResult
    <3>2. QED
      <4>1. [seen[w] EXCEPT !.external = external[task(w)]] \in Snapshot
        BY <2>a DEF TypeOK, Snapshot
      <4>2. QED
        BY <3>1, <4>1 DEF TypeOK
  <2>2. answer' \in [Worker -> Answer]
    BY <1>12, <2>b DEF SubmitResult, TypeOK, Answer
  <2>3. submits' \in [Task -> [AttemptNo -> Nat]]
    <3>1. \/ submits' = submits
          \/ submits' = [submits EXCEPT ![task(w)][attempt_no(w)] = @ + 1]
      BY <1>12 DEF SubmitResult
    <3>2. submits[task(w)][attempt_no(w)] + 1 \in Nat
      BY <2>0 DEF TypeOK
    <3>3. submits \in [Task -> [AttemptNo -> Nat]]
      BY DEF TypeOK
    <3>4. [submits EXCEPT ![task(w)][attempt_no(w)] = @ + 1]
            \in [Task -> [AttemptNo -> Nat]]
      BY <2>0, <3>2, <3>3
    <3>5. QED
      BY <3>1, <3>3, <3>4
  <2>4. pc' \in [Worker -> Stage] /\ pc'[w] # "idle"
    BY <1>12 DEF SubmitResult, TypeOK, Stage, Active
  <2>5. QED
    BY <1>12, <2>1, <2>2, <2>3, <2>4 DEF SubmitResult, TypeOK
<1>13. ASSUME NEW w \in Worker, LoadEconomics(w) PROVE TypeOK'
  <2>1. seen' \in [Worker -> Snapshot]
    BY <1>13, HeldTyped DEF LoadEconomics, TypeOK, Snapshot
  <2>2. QED
    BY <1>13, <2>1 DEF LoadEconomics, TypeOK, Stage, Active
<1>14. ASSUME NEW w \in Worker, Commit(w) PROVE TypeOK'
  <2>0. task(w) \in Task /\ attempt_no(w) \in AttemptNo
    BY <1>14, HeldTyped DEF Commit
  <2>1. pc' \in [Worker -> Stage] /\ pc'[w] # "idle"
    BY <1>14 DEF Commit, TypeOK, Stage, Active
  <2>2. CASE ResultConflict(w)
    BY <1>14, <2>1, <2>2 DEF Commit, TypeOK
  <2>3. CASE ~ResultConflict(w)
    <3>1. WriteRows(w)
      BY <1>14, <2>3 DEF Commit
    <3>2. status' \in [Task -> Status]
      BY <2>0, <3>1 DEF WriteRows, Flush, TypeOK, Status
    <3>3. result' \in [Task -> FinalOutcomes]
      BY <2>0, <3>1, OutcomeTyped DEF WriteRows, Flush, TypeOK
    <3>4. attempts' \in [Task -> [AttemptNo -> AttemptStatus]]
      BY <2>0, <3>1 DEF WriteRows, SetAttempt, TypeOK, AttemptStatus
    <3>5. answer[w] \in Answer
      BY DEF TypeOK
    <3>a. external[task(w)] \in Submission /\ economics[task(w)] \in Ledger
      BY <2>0 DEF TypeOK
    <3>6. external' \in [Task -> Submission]
      BY <3>1, <3>5, <3>a DEF WriteRows, Flush, TypeOK, Submission, Answer
    <3>7. economics' \in [Task -> Ledger]
      <4>1. ASSUME answer[w].status # "none"
            PROVE  economics'[task(w)] \in Ledger
        BY <2>0, <3>1, <3>5, <3>a, <4>1 DEF WriteRows, Flush, TypeOK, Ledger,
                                            Answer
      <4>2. QED
        BY <3>1, <4>1 DEF WriteRows, TypeOK
    <3>8. QED
      BY <1>14, <2>1, <3>2, <3>3, <3>4, <3>6, <3>7 DEF Commit, TypeOK
  <2>4. QED
    BY <2>2, <2>3
<1>15. ASSUME NEW w \in Worker, Return(w) PROVE TypeOK'
  BY <1>15 DEF Return, TypeOK, Stage
<1>16. ASSUME NEW w \in Worker, TransientError(w) PROVE TypeOK'
  BY <1>16, Assumptions DEF TransientError, Fault, TypeOK, Stage, Active
<1>17. ASSUME NEW w \in Worker, RecordFailure(w) PROVE TypeOK'
  <2>0. task(w) \in Task /\ attempt_no(w) \in AttemptNo
    BY <1>17, HeldTyped DEF RecordFailure
  <2>1. attempts' \in [Task -> [AttemptNo -> AttemptStatus]]
    <3>1. \/ attempts' = attempts
          \/ \E v \in AttemptStatus : SetAttempt(w, v)
      BY <1>17 DEF RecordFailure, AttemptStatus
    <3>2. attempts \in [Task -> [AttemptNo -> AttemptStatus]]
      BY DEF TypeOK
    <3>3. ASSUME NEW v \in AttemptStatus, SetAttempt(w, v)
          PROVE  attempts' \in [Task -> [AttemptNo -> AttemptStatus]]
      BY <2>0, <3>2, <3>3 DEF SetAttempt
    <3>4. QED
      BY <3>1, <3>2, <3>3
  <2>2. QED
    BY <1>17, <2>1, Blanks DEF RecordFailure, Forget, TypeOK, Status, Verdict,
                               Stage
<1>18. ASSUME NEW w \in Worker, RecordFailureFails(w) PROVE TypeOK'
  BY <1>18, Blanks, Assumptions DEF RecordFailureFails, Fault, Forget, TypeOK,
                                    Stage
<1>19. ASSUME NEW w \in Worker, Retry(w) PROVE TypeOK'
  <2>1. ready' \in [Message -> Nat]
    <3>1. held[w] \in Message
      BY <1>19, HeldTyped DEF Retry
    <3>2. QED
      BY <1>19, <3>1, NextMessage DEF Retry, Publish, TypeOK, task
  <2>2. QED
    BY <1>19, <2>1 DEF Retry, TypeOK, Stage
<1>20. ASSUME NEW w \in Worker, Ack(w) PROVE TypeOK'
  BY <1>20, Blanks DEF Ack, Release, Forget, TypeOK, Stage
<1>21. ASSUME NEW w \in Worker, ConnectionLost(w) PROVE TypeOK'
  <2>1. ready' \in [Message -> Nat]
    BY <1>21 DEF ConnectionLost, Publish, TypeOK
  <2>2. QED
    BY <1>21, <2>1, Assumptions DEF ConnectionLost, Loss, TypeOK
<1>22. ASSUME NEW w \in Worker, Die(w) PROVE TypeOK'
  BY <1>22, Blanks DEF Die, Release, Forget, TypeOK, Stage
<1>23. ASSUME NEW w \in Worker, ChildKilled(w) PROVE TypeOK'
  BY <1>23, Blanks, Assumptions DEF ChildKilled, Loss, Release, Forget, TypeOK,
                                    Stage
<1>24. CASE UNCHANGED vars
  BY <1>24 DEF vars, TypeOK
<1>25. QED
  BY <1>1, <1>2, <1>3, <1>4, <1>5, <1>6, <1>7, <1>8, <1>9, <1>10, <1>11, <1>12,
     <1>13, <1>14, <1>15, <1>16, <1>17, <1>18, <1>19, <1>20, <1>21, <1>22,
     <1>23, <1>24
     DEF Next, Request, Progress, Failure

(* Every variable keeps its type: status columns, counters, sessions.       *)
THEOREM TypeCorrect == Spec => []TypeOK
<1>1. QED
  BY InitTypeOK, NextTypeOK, PTL DEF Spec

-----------------------------------------------------------------------------
(* The attempt row as a lock. OneRunPerAttempt and OneSubmitPerAttempt are  *)
(* not inductive alone: a run must also be known to own a row that says so, *)
(* and a row that was never inserted to have no submission behind it.       *)

BeforeSubmit == {"prepare", "execute", "merge", "submit"}

RunOwnsAttempt ==
  \A w \in Worker : pc[w] \in Active =>
    attempts[task(w)][attempt_no(w)] =
      IF pc[w] = "return" THEN "succeeded" ELSE "running"

UnclaimedIsUnsubmitted ==
  \A t \in Task, n \in AttemptNo :
    attempts[t][n] = "none" => submits[t][n] = 0

RunSubmitsLate ==
  \A w \in Worker : pc[w] \in BeforeSubmit =>
    submits[task(w)][attempt_no(w)] = 0

LockInv ==
  /\ OneRunPerAttempt
  /\ RunOwnsAttempt
  /\ UnclaimedIsUnsubmitted
  /\ RunSubmitsLate
  /\ OneSubmitPerAttempt

(* Two busy workers on the same attempt row hold the same message.          *)
LEMMA SameSlot ==
  ASSUME TypeOK, NEW v \in Worker, NEW w \in Worker,
         pc[v] # "idle", pc[w] # "idle",
         task(v) = task(w), attempt_no(v) = attempt_no(w)
  PROVE  held[v] = held[w]
<1>1. held[v] \in Message /\ held[w] \in Message
  BY HeldTyped
<1>2. held[v].retries = held[w].retries
  <2>1. held[v].retries \in Nat /\ held[w].retries \in Nat
    BY <1>1, Assumptions DEF Message
  <2>2. QED
    BY <2>1 DEF attempt_no
<1>3. QED
  BY <1>1, <1>2 DEF task, Message

LEMMA InitLock == Init => LockInv
BY DEF Init, LockInv, OneRunPerAttempt, RunOwnsAttempt, UnclaimedIsUnsubmitted,
       RunSubmitsLate, OneSubmitPerAttempt, Active, BeforeSubmit

(* A step of one worker that writes neither table and does not enter the    *)
(* try block.                                                               *)
LEMMA LockFrame ==
  ASSUME TypeOK, LockInv, NEW w \in Worker, NEW s,
         pc' = [pc EXCEPT ![w] = s],
         \A v \in Worker \ {w} : held'[v] = held[v],
         attempts' = attempts, submits' = submits,
         s \in Active => /\ held'[w] = held[w]
                         /\ pc[w] \in Active \ {"return"}
                         /\ s # "return"
                         /\ s \in BeforeSubmit => pc[w] \in BeforeSubmit
  PROVE  LockInv'
<1>1. \A v \in Worker : pc'[v] \in Active =>
        /\ held'[v] = held[v]
        /\ task(v)' = task(v)
        /\ attempt_no(v)' = attempt_no(v)
        /\ pc[v] \in Active
        /\ pc'[v] = "return" <=> pc[v] = "return"
        /\ pc'[v] \in BeforeSubmit => pc[v] \in BeforeSubmit
  <2>1. pc'[w] = s /\ \A v \in Worker \ {w} : pc'[v] = pc[v]
    BY DEF TypeOK
  <2>2. SUFFICES ASSUME NEW v \in Worker, pc'[v] \in Active
                 PROVE  /\ held'[v] = held[v]
                        /\ pc[v] \in Active
                        /\ pc'[v] = "return" <=> pc[v] = "return"
                        /\ pc'[v] \in BeforeSubmit => pc[v] \in BeforeSubmit
    BY DEF task, attempt_no
  <2>3. CASE v = w
    BY <2>1, <2>2, <2>3
  <2>4. CASE v # w
    BY <2>1, <2>2, <2>4
  <2>5. QED
    BY <2>3, <2>4
<1>2. OneRunPerAttempt'
  BY <1>1 DEF LockInv, OneRunPerAttempt
<1>3. RunOwnsAttempt'
  BY <1>1 DEF LockInv, RunOwnsAttempt
<1>4. RunSubmitsLate'
  BY <1>1 DEF LockInv, RunSubmitsLate, Active, BeforeSubmit
<1>5. UnclaimedIsUnsubmitted' /\ OneSubmitPerAttempt'
  BY DEF LockInv, UnclaimedIsUnsubmitted, OneSubmitPerAttempt
<1>6. QED
  BY <1>2, <1>3, <1>4, <1>5 DEF LockInv

(* The two writes of attempt rows by workers that hold the lock or take it. *)
LEMMA LockBegin ==
  ASSUME TypeOK, LockInv, NEW w \in Worker, Begin(w)
  PROVE  LockInv'
<1>1. CASE InsertRefused(w)
  BY <1>1, LockFrame DEF Begin, Goto, session, Active
<1>2. CASE ~InsertRefused(w)
  <2>1. /\ pc[w] = "begin"
        /\ pc' = [pc EXCEPT ![w] = "prepare"]
        /\ held' = held
        /\ submits' = submits
        /\ attempts' = [attempts EXCEPT ![task(w)][attempt_no(w)] = "running"]
    BY <1>2 DEF Begin, Goto, session, SetAttempt
  <2>2. /\ task(w) \in Task
        /\ attempt_no(w) \in AttemptNo
        /\ attempts[task(w)][attempt_no(w)] = "none"
    BY <1>2, <2>1, HeldTyped DEF InsertRefused
  <2>3. \A v \in Worker : /\ task(v)' = task(v)
                          /\ attempt_no(v)' = attempt_no(v)
                          /\ v # w => pc'[v] = pc[v]
    BY <2>1 DEF TypeOK, task, attempt_no
  <2>4. \A t \in Task, n \in AttemptNo :
          attempts'[t][n] = IF t = task(w) /\ n = attempt_no(w)
                            THEN "running" ELSE attempts[t][n]
    BY <2>1, <2>2 DEF TypeOK
  <2>5. \A v \in Worker \ {w} : pc[v] \in Active =>
          /\ task(v) \in Task /\ attempt_no(v) \in AttemptNo
          /\ ~(task(v) = task(w) /\ attempt_no(v) = attempt_no(w))
    <3>1. SUFFICES ASSUME NEW v \in Worker \ {w}, pc[v] \in Active
                   PROVE  /\ task(v) \in Task /\ attempt_no(v) \in AttemptNo
                          /\ ~(task(v) = task(w)
                               /\ attempt_no(v) = attempt_no(w))
      OBVIOUS
    <3>2. task(v) \in Task /\ attempt_no(v) \in AttemptNo
      BY <3>1, HeldTyped DEF Active
    <3>3. attempts[task(v)][attempt_no(v)] # "none"
      BY <3>1 DEF LockInv, RunOwnsAttempt
    <3>4. QED
      BY <2>2, <3>2, <3>3
  <2>6. OneRunPerAttempt'
    <3>1. ASSUME NEW v \in Worker \ {w}, pc[v] \in Active
          PROVE  held[v] # held[w]
      BY <2>5, <3>1 DEF task, attempt_no
    <3>2. QED
      BY <2>1, <2>3, <3>1 DEF LockInv, OneRunPerAttempt
  <2>7. RunOwnsAttempt'
    <3>1. attempts'[task(w)][attempt_no(w)] = "running" /\ pc'[w] = "prepare"
      BY <2>1, <2>2, <2>4 DEF TypeOK
    <3>2. ASSUME NEW v \in Worker \ {w}, pc[v] \in Active
          PROVE  attempts'[task(v)][attempt_no(v)] =
                   IF pc[v] = "return" THEN "succeeded" ELSE "running"
      BY <2>4, <2>5, <3>2 DEF LockInv, RunOwnsAttempt
    <3>3. QED
      BY <2>3, <3>1, <3>2 DEF RunOwnsAttempt
  <2>8. UnclaimedIsUnsubmitted' /\ OneSubmitPerAttempt'
    BY <2>1, <2>4 DEF LockInv, UnclaimedIsUnsubmitted, OneSubmitPerAttempt
  <2>9. RunSubmitsLate'
    <3>1. submits[task(w)][attempt_no(w)] = 0
      BY <2>2 DEF LockInv, UnclaimedIsUnsubmitted
    <3>2. QED
      BY <2>1, <2>3, <3>1 DEF LockInv, RunSubmitsLate
  <2>10. QED
    BY <2>6, <2>7, <2>8, <2>9 DEF LockInv
<1>3. QED
  BY <1>1, <1>2

LEMMA LockSubmit ==
  ASSUME TypeOK, LockInv, NEW w \in Worker, NEW accepted \in BOOLEAN,
         SubmitResult(w, accepted)
  PROVE  LockInv'
<1>1. CASE external[task(w)] = "none"
  BY <1>1, LockFrame DEF SubmitResult, Goto, tables, Active, BeforeSubmit
<1>2. CASE external[task(w)] # "none"
  <2>1. /\ pc[w] = "submit"
        /\ pc' = [pc EXCEPT ![w] = "economics"]
        /\ held' = held
        /\ attempts' = attempts
        /\ submits' = [submits EXCEPT ![task(w)][attempt_no(w)] = @ + 1]
    BY <1>2 DEF SubmitResult, Goto, tables
  <2>2. /\ task(w) \in Task
        /\ attempt_no(w) \in AttemptNo
        /\ submits[task(w)][attempt_no(w)] = 0
        /\ attempts[task(w)][attempt_no(w)] = "running"
    BY <2>1, HeldTyped DEF LockInv, RunSubmitsLate, RunOwnsAttempt, Active,
                           BeforeSubmit
  <2>3. \A v \in Worker : /\ task(v)' = task(v)
                          /\ attempt_no(v)' = attempt_no(v)
                          /\ v # w => pc'[v] = pc[v]
    BY <2>1 DEF TypeOK, task, attempt_no
  <2>4. \A t \in Task, n \in AttemptNo :
          submits'[t][n] = IF t = task(w) /\ n = attempt_no(w)
                           THEN 1 ELSE submits[t][n]
    BY <2>1, <2>2 DEF TypeOK
  <2>5. OneRunPerAttempt' /\ RunOwnsAttempt'
    <3>1. pc'[w] = "economics"
      BY <2>1 DEF TypeOK
    <3>2. \A v \in Worker : pc'[v] \in Active => pc[v] \in Active
      BY <2>1, <2>3 DEF Active
    <3>3. QED
      BY <2>1, <2>2, <2>3, <3>1, <3>2
         DEF LockInv, OneRunPerAttempt, RunOwnsAttempt
  <2>6. UnclaimedIsUnsubmitted' /\ OneSubmitPerAttempt'
    BY <2>1, <2>2, <2>4 DEF LockInv, UnclaimedIsUnsubmitted,
                            OneSubmitPerAttempt
  <2>7. RunSubmitsLate'
    <3>1. SUFFICES ASSUME NEW v \in Worker, pc'[v] \in BeforeSubmit
                   PROVE  submits'[task(v)][attempt_no(v)] = 0
      BY <2>3 DEF RunSubmitsLate
    <3>2. v # w /\ pc[v] \in BeforeSubmit
      BY <2>1, <2>3, <3>1 DEF TypeOK, BeforeSubmit
    <3>3. task(v) \in Task /\ attempt_no(v) \in AttemptNo
      BY <3>2, HeldTyped DEF BeforeSubmit
    <3>4. ~(task(v) = task(w) /\ attempt_no(v) = attempt_no(w))
      BY <2>1, <3>2, SameSlot
      DEF LockInv, OneRunPerAttempt, Active, BeforeSubmit
    <3>5. QED
      BY <2>4, <3>2, <3>3, <3>4 DEF LockInv, RunSubmitsLate
  <2>8. QED
    BY <2>5, <2>6, <2>7 DEF LockInv
<1>3. QED
  BY <1>1, <1>2

LEMMA LockCommit ==
  ASSUME TypeOK, LockInv, NEW w \in Worker, Commit(w)
  PROVE  LockInv'
<1>1. CASE ResultConflict(w)
  BY <1>1, LockFrame DEF Commit, Goto, tables, session, Active
<1>2. CASE ~ResultConflict(w)
  <2>1. /\ pc[w] = "commit"
        /\ pc' = [pc EXCEPT ![w] = "return"]
        /\ held' = held
        /\ submits' = submits
        /\ attempts' = [attempts EXCEPT ![task(w)][attempt_no(w)] = "succeeded"]
    BY <1>2 DEF Commit, Goto, WriteRows, SetAttempt, session
  <2>2. task(w) \in Task /\ attempt_no(w) \in AttemptNo
    BY <2>1, HeldTyped
  <2>3. \A v \in Worker : /\ task(v)' = task(v)
                          /\ attempt_no(v)' = attempt_no(v)
                          /\ v # w => pc'[v] = pc[v]
    BY <2>1 DEF TypeOK, task, attempt_no
  <2>4. \A t \in Task, n \in AttemptNo :
          attempts'[t][n] = IF t = task(w) /\ n = attempt_no(w)
                            THEN "succeeded" ELSE attempts[t][n]
    BY <2>1, <2>2 DEF TypeOK
  <2>5. OneRunPerAttempt' /\ RunSubmitsLate'
    <3>1. \A v \in Worker : pc'[v] \in Active => pc[v] \in Active
      BY <2>1, <2>3 DEF Active
    <3>2. \A v \in Worker : pc'[v] \in BeforeSubmit => pc[v] \in BeforeSubmit
      BY <2>1, <2>3 DEF TypeOK, BeforeSubmit
    <3>3. QED
      BY <2>1, <2>3, <3>1, <3>2 DEF LockInv, OneRunPerAttempt, RunSubmitsLate
  <2>6. UnclaimedIsUnsubmitted' /\ OneSubmitPerAttempt'
    BY <2>1, <2>4 DEF LockInv, UnclaimedIsUnsubmitted, OneSubmitPerAttempt
  <2>7. RunOwnsAttempt'
    <3>1. attempts'[task(w)][attempt_no(w)] = "succeeded" /\ pc'[w] = "return"
      BY <2>1, <2>2, <2>4 DEF TypeOK
    <3>2. ASSUME NEW v \in Worker \ {w}, pc[v] \in Active
          PROVE  attempts'[task(v)][attempt_no(v)] =
                   IF pc[v] = "return" THEN "succeeded" ELSE "running"
      <4>1. task(v) \in Task /\ attempt_no(v) \in AttemptNo
        BY <3>2, HeldTyped DEF Active
      <4>2. ~(task(v) = task(w) /\ attempt_no(v) = attempt_no(w))
        BY <2>1, <3>2, SameSlot DEF LockInv, OneRunPerAttempt, Active
      <4>3. QED
        BY <2>4, <3>2, <4>1, <4>2 DEF LockInv, RunOwnsAttempt
    <3>3. QED
      BY <2>3, <3>1, <3>2 DEF RunOwnsAttempt
  <2>8. QED
    BY <2>5, <2>6, <2>7 DEF LockInv
<1>3. QED
  BY <1>1, <1>2

LEMMA LockRecordFailure ==
  ASSUME TypeOK, LockInv, NEW w \in Worker, RecordFailure(w)
  PROVE  LockInv'
<1>1. CASE InsertRefused(w)
  BY <1>1, LockFrame DEF RecordFailure, Goto, Active
<1>2. CASE ~InsertRefused(w)
  <2>1. /\ pc[w] = "failing"
        /\ pc' = [pc EXCEPT ![w] = "retry"]
        /\ held' = held
        /\ submits' = submits
        /\ attempts' = [attempts EXCEPT ![task(w)][attempt_no(w)] = "failed"]
        /\ attempts[task(w)][attempt_no(w)] = "none"
    BY <1>2 DEF RecordFailure, Goto, SetAttempt, InsertRefused
  <2>2. task(w) \in Task /\ attempt_no(w) \in AttemptNo
    BY <2>1, HeldTyped
  <2>3. \A v \in Worker : /\ task(v)' = task(v)
                          /\ attempt_no(v)' = attempt_no(v)
                          /\ v # w => pc'[v] = pc[v]
    BY <2>1 DEF TypeOK, task, attempt_no
  <2>4. \A t \in Task, n \in AttemptNo :
          attempts'[t][n] = IF t = task(w) /\ n = attempt_no(w)
                            THEN "failed" ELSE attempts[t][n]
    BY <2>1, <2>2 DEF TypeOK
  <2>5. \A v \in Worker : pc'[v] \in Active =>
          v # w /\ pc[v] \in Active /\ pc'[v] = pc[v]
    BY <2>1, <2>3 DEF TypeOK, Active
  <2>6. OneRunPerAttempt' /\ RunSubmitsLate'
    BY <2>1, <2>3, <2>5 DEF LockInv, OneRunPerAttempt, RunSubmitsLate, Active,
                            BeforeSubmit
  <2>7. UnclaimedIsUnsubmitted' /\ OneSubmitPerAttempt'
    BY <2>1, <2>4 DEF LockInv, UnclaimedIsUnsubmitted, OneSubmitPerAttempt
  <2>8. RunOwnsAttempt'
    <3>1. SUFFICES ASSUME NEW v \in Worker, pc'[v] \in Active
                   PROVE  attempts'[task(v)][attempt_no(v)] =
                            IF pc'[v] = "return" THEN "succeeded" ELSE "running"
      BY <2>3 DEF RunOwnsAttempt
    <3>2. task(v) \in Task /\ attempt_no(v) \in AttemptNo
      BY <2>5, <3>1, HeldTyped DEF Active
    <3>3. attempts[task(v)][attempt_no(v)] =
            IF pc[v] = "return" THEN "succeeded" ELSE "running"
      BY <2>5, <3>1 DEF LockInv, RunOwnsAttempt
    <3>4. QED
      BY <2>1, <2>4, <2>5, <3>1, <3>2, <3>3
  <2>9. QED
    BY <2>6, <2>7, <2>8 DEF LockInv
<1>3. QED
  BY <1>1, <1>2

LEMMA NextLock == TypeOK /\ LockInv /\ [Next]_vars => LockInv'
<1> SUFFICES ASSUME TypeOK, LockInv, [Next]_vars PROVE LockInv'
  OBVIOUS
<1>1. CASE UNCHANGED <<pc, held, attempts, submits>>
  BY <1>1 DEF LockInv, OneRunPerAttempt, RunOwnsAttempt,
              UnclaimedIsUnsubmitted, RunSubmitsLate, OneSubmitPerAttempt,
              task, attempt_no
<1>2. ASSUME NEW t \in Task, Request(t) \/ AdmissionLost(t) PROVE LockInv'
  BY <1>1, <1>2 DEF Request, Create, Enqueue, CancelRead, CancelCommit,
                    AdmissionLost, tables, session
<1>3. ASSUME NEW w \in Worker, NEW m \in Message, Receive(w, m)
      PROVE  LockInv'
  <2>1. /\ pc' = [pc EXCEPT ![w] = "begin"]
        /\ held' = [held EXCEPT ![w] = m]
        /\ attempts' = attempts /\ submits' = submits
    BY <1>3 DEF Receive, Goto, tables
  <2>2. \A v \in Worker \ {w} : held'[v] = held[v]
    BY <2>1 DEF TypeOK
  <2>3. QED
    BY <2>1, <2>2, LockFrame DEF Active
<1>4. ASSUME NEW w \in Worker,
             \/ Prepare(w) \/ Raise(w) \/ MergeResult(w) \/ LoadEconomics(w)
             \/ Return(w) \/ TransientError(w) \/ RecordFailureFails(w)
             \/ Retry(w) \/ \E verdict \in Verdict : Execute(w, verdict)
      PROVE  LockInv'
  <2>1. /\ held' = held /\ attempts' = attempts /\ submits' = submits
        /\ \E s \in {"execute", "failing", "submit", "commit", "ack", "retry",
                     "merge"} :
             /\ pc' = [pc EXCEPT ![w] = s]
             /\ s \in Active =>
                  /\ pc[w] \in Active \ {"return"}
                  /\ s # "return"
                  /\ s \in BeforeSubmit => pc[w] \in BeforeSubmit
    BY <1>4 DEF Prepare, Raise, MergeResult, LoadEconomics, Return,
                TransientError, RecordFailureFails, Retry, Execute, Goto,
                tables, session, Active, BeforeSubmit
  <2>2. PICK s : /\ pc' = [pc EXCEPT ![w] = s]
                 /\ s \in Active =>
                      /\ pc[w] \in Active \ {"return"}
                      /\ s # "return"
                      /\ s \in BeforeSubmit => pc[w] \in BeforeSubmit
    BY <2>1
  <2>3. QED
    BY <2>1, <2>2, LockFrame
<1>5. ASSUME NEW w \in Worker, Ack(w) \/ Die(w) \/ ChildKilled(w)
      PROVE  LockInv'
  <2>1. /\ pc' = [pc EXCEPT ![w] = "idle"]
        /\ held' = [held EXCEPT ![w] = NoMessage]
        /\ attempts' = attempts /\ submits' = submits
    BY <1>5 DEF Ack, Die, ChildKilled, Release, Goto, tables
  <2>2. \A v \in Worker \ {w} : held'[v] = held[v]
    BY <2>1 DEF TypeOK
  <2>3. QED
    BY <2>1, <2>2, LockFrame DEF Active
<1>6. ASSUME NEW w \in Worker, ConnectionLost(w) PROVE LockInv'
  BY <1>1, <1>6 DEF ConnectionLost, tables, session
<1>7. CASE UNCHANGED vars
  BY <1>1, <1>7 DEF vars, tables, session
<1>8. QED
  BY <1>2, <1>3, <1>4, <1>5, <1>6, <1>7, LockBegin, LockSubmit, LockCommit,
     LockRecordFailure
     DEF Next, Progress, Failure

(* At most one worker at a time executes an attempt of a task, for any      *)
(* number of workers and any number of redeliveries.                        *)
THEOREM RunsAreExclusive == Spec => []OneRunPerAttempt
<1>1. QED
  BY InitTypeOK, NextTypeOK, InitLock, NextLock, PTL DEF Spec, LockInv

(* A paid source is sent at most one result for each attempt.               *)
THEOREM SubmittedAtMostOnce == Spec => []OneSubmitPerAttempt
<1>1. QED
  BY InitTypeOK, NextTypeOK, InitLock, NextLock, PTL DEF Spec, LockInv

-----------------------------------------------------------------------------
(* Rows before messages. A row never disappears, every published message    *)
(* comes from an admitted row, and what a run writes is a verdict.          *)

RowInv ==
  /\ MessageHasTask
  /\ \A t \in Task : admission[t] # "new" => status[t] # "none"
  /\ \A w \in Worker : pc[w] \in {"merge", "submit", "economics", "commit"} =>
       outcome[w] \in Verdict

LEMMA InitRow == Init => RowInv
BY DEF Init, RowInv, MessageHasTask

LEMMA RowsStay ==
  ASSUME TypeOK, RowInv, [Next]_vars, NEW t \in Task, status[t] # "none"
  PROVE  status'[t] # "none"
<1>1. CASE status' = status
  BY <1>1
<1>2. ASSUME NEW u \in Task, NEW v, v # "none", SetStatus(u, v)
      PROVE  status'[t] # "none"
  BY <1>2 DEF SetStatus, TypeOK
<1>3. ASSUME NEW w \in Worker, Commit(w) PROVE status'[t] # "none"
  <2>1. CASE ~WriteRows(w)
    BY <1>1, <1>3, <2>1 DEF Commit, tables
  <2>2. CASE WriteRows(w)
    <3>1. outcome[w] # "none" /\ task(w) \in Task
      BY <1>3, HeldTyped DEF Commit, RowInv, Verdict
    <3>2. status' = [status EXCEPT ![task(w)] =
                       Flush(seen[w].status, outcome[w], @)]
      BY <2>2 DEF WriteRows, SetStatus
    <3>3. QED
      BY <3>1, <3>2 DEF Flush, TypeOK
  <2>3. QED
    BY <2>1, <2>2
<1>4. ASSUME NEW w \in Worker, Begin(w) \/ RecordFailure(w)
      PROVE  status'[t] # "none"
  <2>1. task(w) \in Task
    BY <1>4, HeldTyped DEF Begin, RecordFailure
  <2>2. QED
    BY <1>1, <1>2, <1>4, <2>1 DEF Begin, RecordFailure
<1>5. ASSUME NEW u \in Task, Create(u) \/ CancelCommit(u)
      PROVE  status'[t] # "none"
  BY <1>2, <1>5 DEF Create, CancelCommit
<1>6. QED
  BY <1>1, <1>3, <1>4, <1>5
     DEF Next, Request, Progress, Failure, Enqueue, CancelRead,
         AdmissionLost, Receive, Prepare, Execute, Raise,
         MergeResult, SubmitResult, LoadEconomics, Return, TransientError,
         RecordFailureFails, Retry, Ack, ConnectionLost, Die, ChildKilled,
         Release, tables, vars

(* Where a step may put a message: where its task was known before.         *)
LEMMA NextMessageHasTask ==
  ASSUME TypeOK, RowInv, [Next]_vars
  PROVE  MessageHasTask'
<1>1. \A m \in Message : m.task \in Task
  BY DEF Message
<1>2. ASSUME UNCHANGED <<ready, held>>,
             \A w \in Worker : pc[w] = "idle" => pc'[w] = "idle"
      PROVE  MessageHasTask'
  <2>1. \A w \in Worker :
          pc'[w] # "idle" => task(w)' = task(w) /\ task(w) \in Task
    BY <1>2, HeldTyped DEF task
  <2>2. QED
    BY <1>1, <1>2, <2>1, RowsStay DEF RowInv, MessageHasTask
<1>3. ASSUME NEW m \in Message, status[m.task] # "none", Publish(m),
             held' = held,
             \A w \in Worker : pc[w] = "idle" => pc'[w] = "idle"
      PROVE  MessageHasTask'
  <2>1. \A w \in Worker :
          pc'[w] # "idle" => task(w)' = task(w) /\ task(w) \in Task
    BY <1>3, HeldTyped DEF task
  <2>2. \A n \in Message : ready'[n] > 0 => status[n.task] # "none"
    BY <1>3 DEF Publish, TypeOK, RowInv, MessageHasTask
  <2>3. QED
    BY <1>1, <2>1, <2>2, <1>3, RowsStay DEF RowInv, MessageHasTask
<1>4. ASSUME NEW t \in Task, Enqueue(t) PROVE MessageHasTask'
  BY <1>3, <1>4, FirstMessage DEF Enqueue, RowInv, session
<1>5. ASSUME NEW w \in Worker, NEW m \in Message, Receive(w, m)
      PROVE  MessageHasTask'
  <2>1. status[m.task] # "none"
    BY <1>5 DEF Receive, RowInv, MessageHasTask
  <2>2. \A n \in Message : ready'[n] > 0 => ready[n] > 0
    BY <1>5 DEF Receive, TypeOK
  <2>3. \A v \in Worker : pc'[v] # "idle" =>
          task(v)' \in Task /\ status[task(v)'] # "none"
    <3>1. SUFFICES ASSUME NEW v \in Worker, pc'[v] # "idle"
                   PROVE  task(v)' \in Task /\ status[task(v)'] # "none"
      OBVIOUS
    <3>2. CASE v = w
      <4>1. held'[w] = m
        BY <1>5 DEF Receive, TypeOK
      <4>2. QED
        BY <1>1, <2>1, <3>2, <4>1 DEF task
    <3>3. CASE v # w
      <4>1. pc[v] # "idle" /\ held'[v] = held[v]
        BY <1>5, <3>1, <3>3 DEF Receive, Goto, TypeOK
      <4>2. QED
        BY <4>1, HeldTyped DEF task, RowInv, MessageHasTask
    <3>4. QED
      BY <3>2, <3>3
  <2>4. QED
    BY <1>1, <2>2, <2>3, RowsStay DEF RowInv, MessageHasTask
<1>6. ASSUME NEW w \in Worker, Retry(w) PROVE MessageHasTask'
  <2>1. held[w] \in Message /\ status[held[w].task] # "none"
    BY <1>6, HeldTyped DEF Retry, RowInv, MessageHasTask, task
  <2>2. held' = held /\ \A v \in Worker : pc[v] = "idle" => pc'[v] = "idle"
    BY <1>6 DEF Retry, Goto, session, TypeOK
  <2>3. CASE held[w].retries < MaxRetries
    <3>1. [task |-> task(w), retries |-> held[w].retries + 1] \in Message
      BY <2>1, <2>3, NextMessage DEF task
    <3>2. QED
      BY <1>3, <1>6, <2>1, <2>2, <2>3, <3>1 DEF Retry, task
  <2>4. CASE ~(held[w].retries < MaxRetries)
    BY <1>2, <1>6, <2>2, <2>4 DEF Retry
  <2>5. QED
    BY <2>3, <2>4
<1>7. ASSUME NEW w \in Worker, ConnectionLost(w) PROVE MessageHasTask'
  <2>1. held[w] \in Message /\ status[held[w].task] # "none"
    BY <1>7, HeldTyped DEF ConnectionLost, RowInv, MessageHasTask, task, TypeOK
  <2>2. QED
    BY <1>3, <1>7, <2>1 DEF ConnectionLost, session
<1>8. ASSUME NEW w \in Worker, Release(w) PROVE MessageHasTask'
  <2>1. /\ ready' = ready
        /\ pc'[w] = "idle"
        /\ \A v \in Worker \ {w} : pc'[v] = pc[v] /\ held'[v] = held[v]
    BY <1>8 DEF Release, Goto, TypeOK
  <2>2. \A v \in Worker : pc'[v] # "idle" =>
          task(v)' = task(v) /\ task(v) \in Task /\ pc[v] # "idle"
    BY <2>1, HeldTyped DEF task
  <2>3. QED
    BY <1>1, <2>1, <2>2, RowsStay DEF RowInv, MessageHasTask
<1>9. ASSUME NEW w \in Worker,
             \/ Begin(w) \/ Prepare(w) \/ Raise(w) \/ MergeResult(w)
             \/ LoadEconomics(w) \/ Commit(w) \/ Return(w) \/ TransientError(w)
             \/ RecordFailure(w) \/ RecordFailureFails(w)
             \/ \E verdict \in Verdict : Execute(w, verdict)
             \/ \E accepted \in BOOLEAN : SubmitResult(w, accepted)
      PROVE  MessageHasTask'
  <2>1. UNCHANGED <<ready, held>> /\ pc[w] # "idle"
    BY <1>9 DEF Begin, Prepare, Raise, MergeResult, LoadEconomics, Commit,
                Return, TransientError, RecordFailure, RecordFailureFails,
                Execute, SubmitResult, broker, session, Active
  <2>2. \A v \in Worker \ {w} : pc'[v] = pc[v]
    BY <1>9 DEF Begin, Prepare, Raise, MergeResult, LoadEconomics, Commit,
                Return, TransientError, RecordFailure, RecordFailureFails,
                Execute, SubmitResult, Goto, TypeOK
  <2>3. QED
    BY <1>2, <2>1, <2>2
<1>10. CASE UNCHANGED <<ready, held, pc>>
  BY <1>2, <1>10
<1>11. QED
  BY <1>4, <1>5, <1>6, <1>7, <1>8, <1>9, <1>10
     DEF Next, Request, Progress, Failure, Create, CancelRead, CancelCommit,
         AdmissionLost, Ack, Die, ChildKilled, broker, session, vars

LEMMA NextRow == TypeOK /\ RowInv /\ [Next]_vars => RowInv'
<1> SUFFICES ASSUME TypeOK, RowInv, [Next]_vars PROVE RowInv'
  OBVIOUS
<1>1. ASSUME NEW t \in Task, admission'[t] # "new"
      PROVE  status'[t] # "none"
  <2>1. CASE admission[t] # "new"
    BY <2>1, RowsStay DEF RowInv
  <2>2. CASE admission[t] = "new"
    <3>1. \E u \in Task : Create(u) \/ Enqueue(u) \/ AdmissionLost(u)
      BY <1>1, <2>2
         DEF Next, Request, Progress, Failure, CancelRead, CancelCommit,
             Receive, Begin, Prepare, Execute, Raise, MergeResult,
             SubmitResult, LoadEconomics, Commit, Return, TransientError,
             RecordFailure, RecordFailureFails, Retry, Ack, ConnectionLost,
             Die, ChildKilled, Release, vars
    <3>2. PICK u \in Task : Create(u) \/ Enqueue(u) \/ AdmissionLost(u)
      BY <3>1
    <3>3. u = t
      BY <1>1, <2>2, <3>2 DEF Create, Enqueue, AdmissionLost, TypeOK
    <3>4. Create(t)
      BY <2>2, <3>2, <3>3 DEF Enqueue, AdmissionLost
    <3>5. QED
      BY <3>4 DEF Create, SetStatus, TypeOK
  <2>3. QED
    BY <2>1, <2>2
<1>2. ASSUME NEW w \in Worker,
             pc'[w] \in {"merge", "submit", "economics", "commit"}
      PROVE  outcome'[w] \in Verdict
  <2>1. CASE UNCHANGED <<pc, outcome>>
    BY <1>2, <2>1 DEF RowInv
  <2>2. ASSUME NEW v \in Worker, Progress(v) \/ Failure(v)
        PROVE  outcome'[w] \in Verdict
    <3>1. CASE v = w
      BY <1>2, <2>2, <3>1
         DEF TypeOK, RowInv, Progress, Failure, Receive, Begin, Prepare,
             Execute, Raise, MergeResult, SubmitResult, LoadEconomics, Commit,
             Return, TransientError, RecordFailure, RecordFailureFails, Retry,
             Ack, ConnectionLost, Die, ChildKilled, Release, Goto, session
    <3>2. CASE v # w
      <4>1. pc'[w] = pc[w] /\ outcome'[w] = outcome[w]
        BY <2>2, <3>2
           DEF TypeOK, Progress, Failure, Receive, Begin, Prepare, Execute,
               Raise, MergeResult, SubmitResult, LoadEconomics, Commit, Return,
               TransientError, RecordFailure, RecordFailureFails, Retry, Ack,
               ConnectionLost, Die, ChildKilled, Release, Goto, Forget, session
      <4>2. QED
        BY <1>2, <4>1 DEF RowInv
    <3>3. QED
      BY <3>1, <3>2
  <2>3. QED
    BY <2>1, <2>2
       DEF Next, Request, Create, Enqueue, CancelRead, CancelCommit,
           AdmissionLost, session, vars
<1>3. QED
  BY <1>1, <1>2, NextMessageHasTask DEF RowInv

(* Whatever is delivered, redelivered or retried refers to a stored row.    *)
THEOREM MessagesHaveTasks == Spec => []MessageHasTask
<1>1. QED
  BY InitTypeOK, NextTypeOK, InitRow, NextRow, PTL DEF Spec, RowInv

(* The admission that this module assumes promises no more than what        *)
(* Admission and Ingest are proved to keep.                                 *)
THEOREM AdmissionAsPromised == Spec => AdmitsOnce
<1>1. Init => Once!Init
  BY DEF Init, Once!Init
<1>2. [Next]_vars => [Once!Next]_admission
  <2> SUFFICES ASSUME [Next]_vars PROVE Once!Next \/ admission' = admission
    BY DEF Once!Next
  <2>1. ASSUME NEW t \in Task, Create(t) \/ Enqueue(t) \/ AdmissionLost(t)
        PROVE  Once!Next
    BY <2>1 DEF Create, Enqueue, AdmissionLost, Once!Next, Once!Create,
                Once!Enqueue, Once!Lose, Once!Step
  <2>2. ASSUME NEW t \in Task, CancelRead(t) \/ CancelCommit(t)
        PROVE  admission' = admission
    BY <2>2 DEF CancelRead, CancelCommit
  <2>3. ASSUME NEW w \in Worker, Progress(w) \/ Failure(w)
        PROVE  admission' = admission
    BY <2>3
       DEF Progress, Failure, Receive, Begin, Prepare, Execute, Raise,
           MergeResult, SubmitResult, LoadEconomics, Commit, Return,
           TransientError, RecordFailure, RecordFailureFails, Retry, Ack,
           ConnectionLost, Die, ChildKilled, Release
  <2>4. CASE UNCHANGED vars
    BY <2>4 DEF vars
  <2>5. QED
    BY <2>1, <2>2, <2>3, <2>4 DEF Next, Request
<1>3. QED
  BY <1>1, <1>2, PTL DEF Spec, AdmitsOnce, Once!Spec

-----------------------------------------------------------------------------
(* The attempts of a task as a ledger. That a paid attempt is reported      *)
(* before it is closed needs more than the lock: its external row has to be *)
(* there when the run looks for it, and no run of another task may find     *)
(* one.                                                                     *)

PaidHasRow ==
  /\ \A t \in External : status[t] # "none" => external[t] # "none"
  /\ \A t \in Task : external[t] # "none" => t \in External
  /\ \A t \in cancelling : status[t] # "none"

UnpaidIsUnsubmitted ==
  \A t \in Task \ External, n \in AttemptNo : submits[t][n] = 0

PaidRunHasSubmitted ==
  \A w \in Worker :
    pc[w] \in {"economics", "commit"} /\ task(w) \in External =>
      submits[task(w)][attempt_no(w)] # 0

AnswerIsForPaid ==
  \A w \in Worker :
    answer[w].status # "none" => pc[w] # "idle" /\ task(w) \in External

PaidInv ==
  /\ PaidHasRow
  /\ UnpaidIsUnsubmitted
  /\ PaidRunHasSubmitted
  /\ AnswerIsForPaid

LEMMA InitPaid == Init => PaidInv
BY DEF Init, PaidInv, PaidHasRow, UnpaidIsUnsubmitted, PaidRunHasSubmitted,
       AnswerIsForPaid, NoAnswer

(* Only an admission brings a row into being.                               *)
LEMMA RowsAppearByCreate ==
  ASSUME TypeOK, RowInv, PaidInv, [Next]_vars,
         NEW t \in Task, status[t] = "none", status'[t] # "none"
  PROVE  Create(t)
<1>1. status' # status
  OBVIOUS
<1>2. ASSUME NEW u \in Task, NEW v, SetStatus(u, v) PROVE u = t
  BY <1>2 DEF SetStatus, TypeOK
<1>3. ASSUME NEW w \in Worker, pc[w] # "idle",
             NEW v, SetStatus(task(w), v)
      PROVE  FALSE
  BY <1>2, <1>3, HeldTyped DEF RowInv, MessageHasTask
<1>4. ASSUME NEW w \in Worker, Begin(w) \/ RecordFailure(w) \/ Commit(w)
      PROVE  FALSE
  BY <1>1, <1>3, <1>4 DEF Begin, RecordFailure, Commit, WriteRows, tables
<1>5. ASSUME NEW u \in Task, CancelCommit(u) PROVE FALSE
  BY <1>2, <1>5 DEF CancelCommit, PaidInv, PaidHasRow
<1>6. ASSUME NEW u \in Task, Create(u) PROVE Create(t)
  BY <1>2, <1>6 DEF Create
<1>7. QED
  BY <1>1, <1>4, <1>5, <1>6
     DEF Next, Request, Progress, Failure, Enqueue, CancelRead,
         AdmissionLost, Receive, Prepare, Execute, Raise, MergeResult,
         SubmitResult, LoadEconomics, Return, TransientError,
         RecordFailureFails, Retry, Ack, ConnectionLost, Die, ChildKilled,
         Release, tables, vars

LEMMA NextPaidHasRow ==
  ASSUME TypeOK, RowInv, PaidInv, [Next]_vars
  PROVE  PaidHasRow'
<1>1. \A t \in Task :
        /\ external[t] # "none" => external'[t] # "none"
        /\ external'[t] # "none" => t \in External
  <2>1. CASE external' = external
    BY <2>1 DEF PaidInv, PaidHasRow
  <2>2. ASSUME NEW u \in Task, Create(u)
        PROVE  \A t \in Task :
                 /\ external[t] # "none" => external'[t] # "none"
                 /\ external'[t] # "none" => t \in External
    BY <2>1, <2>2 DEF Create, PaidInv, PaidHasRow, TypeOK
  <2>3. ASSUME NEW w \in Worker, Commit(w), external' # external
        PROVE  \A t \in Task :
                 /\ external[t] # "none" => external'[t] # "none"
                 /\ external'[t] # "none" => t \in External
    <3>1. answer[w].status # "none" /\ WriteRows(w)
      BY <2>3 DEF Commit, WriteRows, tables
    <3>2. task(w) \in External
      BY <3>1 DEF PaidInv, AnswerIsForPaid
    <3>3. external' = [external EXCEPT ![task(w)] =
                         Flush(seen[w].external, answer[w].status, @)]
      BY <3>1 DEF WriteRows
    <3>4. QED
      BY <3>1, <3>2, <3>3, Assumptions DEF Flush, PaidInv, PaidHasRow, TypeOK
  <2>4. QED
    BY <2>1, <2>2, <2>3
       DEF Next, Request, Progress, Failure, Enqueue, CancelRead,
           CancelCommit, AdmissionLost, Receive, Begin, Prepare, Execute,
           Raise, MergeResult, SubmitResult, LoadEconomics, Return,
           TransientError, RecordFailure, RecordFailureFails, Retry, Ack,
           ConnectionLost, Die, ChildKilled, Release, tables, vars
<1>2. ASSUME NEW t \in External, status'[t] # "none"
      PROVE  external'[t] # "none"
  <2>1. t \in Task
    BY Assumptions
  <2>2. CASE status[t] # "none"
    BY <1>1, <2>1, <2>2 DEF PaidInv, PaidHasRow
  <2>3. CASE status[t] = "none"
    <3>1. Create(t)
      BY <1>2, <2>1, <2>3, RowsAppearByCreate
    <3>2. QED
      BY <2>1, <3>1 DEF Create, TypeOK
  <2>4. QED
    BY <2>2, <2>3
<1>3. ASSUME NEW t \in cancelling' PROVE status'[t] # "none"
  <2>1. t \in Task /\ status[t] # "none"
    <3>1. CASE t \in cancelling
      BY <3>1 DEF PaidInv, PaidHasRow, TypeOK
    <3>2. CASE t \notin cancelling
      <4>1. \E u \in Task : CancelRead(u) /\ u = t
        BY <1>3, <3>2
           DEF Next, Request, Progress, Failure, Create, Enqueue, CancelRead,
               CancelCommit, AdmissionLost, Receive, Begin, Prepare, Execute,
               Raise, MergeResult, SubmitResult, LoadEconomics, Commit,
               Return, TransientError, RecordFailure, RecordFailureFails,
               Retry, Ack, ConnectionLost, Die, ChildKilled, Release, vars
      <4>2. QED
        BY <4>1 DEF CancelRead
    <3>3. QED
      BY <3>1, <3>2
  <2>2. QED
    BY <2>1, RowsStay
<1>4. QED
  BY <1>1, <1>2, <1>3 DEF PaidHasRow

(* Which submissions a step makes: one, for the attempt of the worker that  *)
(* makes it, and only where there is an external row.                       *)
LEMMA StepSubmits ==
  ASSUME TypeOK, [Next]_vars, submits' # submits
  PROVE  \E w \in Worker : \E accepted \in BOOLEAN :
           /\ SubmitResult(w, accepted)
           /\ external[task(w)] # "none"
           /\ submits' = [submits EXCEPT ![task(w)][attempt_no(w)] = @ + 1]
BY DEF Next, Request, Progress, Failure, Create, Enqueue, CancelRead,
       CancelCommit, AdmissionLost, Receive, Begin, Prepare, Execute, Raise,
       MergeResult, SubmitResult, LoadEconomics, Commit, Return,
       TransientError, RecordFailure, RecordFailureFails, Retry, Ack,
       ConnectionLost, Die, ChildKilled, Release, vars

LEMMA SubmissionsStay ==
  ASSUME TypeOK, [Next]_vars, NEW t \in Task, NEW n \in AttemptNo,
         submits[t][n] # 0
  PROVE  submits'[t][n] # 0
<1>1. CASE submits' = submits
  BY <1>1
<1>2. CASE submits' # submits
  <2>1. PICK w \in Worker : \E accepted \in BOOLEAN :
          /\ SubmitResult(w, accepted)
          /\ submits' = [submits EXCEPT ![task(w)][attempt_no(w)] = @ + 1]
    BY <1>2, StepSubmits
  <2>2. task(w) \in Task /\ attempt_no(w) \in AttemptNo
    BY <2>1, HeldTyped DEF SubmitResult
  <2>3. submits[t][n] \in Nat /\ submits \in [Task -> [AttemptNo -> Nat]]
    BY DEF TypeOK
  <2>4. submits'[t][n] \in {submits[t][n], submits[t][n] + 1}
    BY <2>1, <2>2, <2>3
  <2>5. QED
    BY <2>3, <2>4
<1>3. QED
  BY <1>1, <1>2

LEMMA NextUnpaid ==
  ASSUME TypeOK, PaidInv, [Next]_vars
  PROVE  UnpaidIsUnsubmitted'
<1>1. CASE submits' = submits
  BY <1>1 DEF PaidInv, UnpaidIsUnsubmitted
<1>2. CASE submits' # submits
  <2>1. PICK w \in Worker : \E accepted \in BOOLEAN :
          /\ SubmitResult(w, accepted)
          /\ external[task(w)] # "none"
          /\ submits' = [submits EXCEPT ![task(w)][attempt_no(w)] = @ + 1]
    BY <1>2, StepSubmits
  <2>2. task(w) \in External
    BY <2>1, HeldTyped DEF SubmitResult, PaidInv, PaidHasRow
  <2>3. \A t \in Task \ External : submits'[t] = submits[t]
    BY <2>1, <2>2 DEF TypeOK
  <2>4. QED
    BY <2>3 DEF PaidInv, UnpaidIsUnsubmitted
<1>3. QED
  BY <1>1, <1>2

(* A step of one worker leaves the others where they are.                   *)
LEMMA OthersWait ==
  ASSUME TypeOK, NEW v \in Worker, Progress(v) \/ Failure(v),
         NEW w \in Worker, w # v
  PROVE  /\ pc'[w] = pc[w]
         /\ held'[w] = held[w] /\ seen'[w] = seen[w]
         /\ outcome'[w] = outcome[w] /\ answer'[w] = answer[w]
BY DEF TypeOK, Progress, Failure, Receive, Begin, Prepare, Execute, Raise,
       MergeResult, SubmitResult, LoadEconomics, Commit, Return,
       TransientError, RecordFailure, RecordFailureFails, Retry, Ack,
       ConnectionLost, Die, ChildKilled, Release, Goto, Forget, session

LEMMA RequestsWait ==
  ASSUME NEW t \in Task, Request(t) \/ AdmissionLost(t)
  PROVE  UNCHANGED <<pc, held, seen, outcome, answer>>
BY DEF Request, Create, Enqueue, CancelRead, CancelCommit, AdmissionLost,
       session

LEMMA NextPaidRun ==
  ASSUME TypeOK, RowInv, PaidInv, [Next]_vars
  PROVE  PaidRunHasSubmitted'
<1> DEFINE Late(w) == pc[w] \in {"economics", "commit"}
<1>1. SUFFICES ASSUME NEW w \in Worker, Late(w)', task(w)' \in External
               PROVE  submits'[task(w)'][attempt_no(w)'] # 0
  BY DEF PaidRunHasSubmitted
<1>2. CASE Late(w) /\ held'[w] = held[w]
  <2>1. task(w)' = task(w) /\ attempt_no(w)' = attempt_no(w)
    BY <1>2 DEF task, attempt_no
  <2>2. task(w) \in Task /\ attempt_no(w) \in AttemptNo
    BY <1>2, HeldTyped
  <2>3. submits[task(w)][attempt_no(w)] # 0
    BY <1>1, <1>2, <2>1 DEF PaidInv, PaidRunHasSubmitted
  <2>4. QED
    BY <2>1, <2>2, <2>3, SubmissionsStay
<1>3. CASE ~(Late(w) /\ held'[w] = held[w])
  <2>1. Progress(w) \/ Failure(w)
    BY <1>1, <1>3, OthersWait, RequestsWait DEF Next, vars, session
  <2>2. PICK accepted \in BOOLEAN : SubmitResult(w, accepted)
    BY <1>1, <1>3, <2>1
       DEF TypeOK, Progress, Failure, Receive, Begin, Prepare, Execute, Raise,
           MergeResult, LoadEconomics, Commit, Return, TransientError,
           RecordFailure, RecordFailureFails, Retry, Ack, ConnectionLost, Die,
           ChildKilled, Release, Goto, session
  <2>3. /\ pc[w] = "submit" /\ held' = held
        /\ task(w) \in Task /\ attempt_no(w) \in AttemptNo
    BY <2>2, HeldTyped DEF SubmitResult
  <2>4. task(w)' = task(w) /\ attempt_no(w)' = attempt_no(w)
    BY <2>3 DEF task, attempt_no
  <2>5. external[task(w)] # "none"
    BY <1>1, <2>3, <2>4 DEF RowInv, MessageHasTask, PaidInv, PaidHasRow
  <2>6. submits' = [submits EXCEPT ![task(w)][attempt_no(w)] = @ + 1]
    BY <2>2, <2>5 DEF SubmitResult
  <2>7. submits[task(w)][attempt_no(w)] \in Nat
    BY <2>3 DEF TypeOK
  <2>8. submits'[task(w)][attempt_no(w)] = submits[task(w)][attempt_no(w)] + 1
    BY <2>3, <2>6 DEF TypeOK
  <2>9. QED
    BY <2>4, <2>7, <2>8
<1>4. QED
  BY <1>2, <1>3

LEMMA NextAnswer ==
  ASSUME TypeOK, PaidInv, [Next]_vars
  PROVE  AnswerIsForPaid'
<1>1. SUFFICES ASSUME NEW w \in Worker, answer'[w].status # "none"
               PROVE  pc'[w] # "idle" /\ task(w)' \in External
  BY DEF AnswerIsForPaid
<1>2. CASE UNCHANGED <<pc[w], held[w], answer[w]>>
  BY <1>1, <1>2 DEF PaidInv, AnswerIsForPaid, task
<1>3. CASE Progress(w) \/ Failure(w)
  <2>1. ASSUME NEW accepted \in BOOLEAN, SubmitResult(w, accepted),
               external[task(w)] # "none"
        PROVE  pc'[w] # "idle" /\ task(w)' \in External
    <3>1. pc'[w] = "economics" /\ task(w)' = task(w)
      BY <2>1 DEF SubmitResult, Goto, TypeOK, task
    <3>2. task(w) \in External
      BY <2>1, HeldTyped DEF SubmitResult, PaidInv, PaidHasRow
    <3>3. QED
      BY <3>1, <3>2
  <2>2. ASSUME answer'[w] = NoAnswer PROVE FALSE
    BY <1>1, <2>2 DEF NoAnswer
  <2>3. ASSUME answer' = answer, held' = held, pc'[w] # "idle"
        PROVE  pc'[w] # "idle" /\ task(w)' \in External
    BY <1>1, <2>3 DEF PaidInv, AnswerIsForPaid, task
  <2>4. ASSUME NEW m \in Message, Receive(w, m) PROVE FALSE
    BY <1>1, <2>4 DEF Receive, PaidInv, AnswerIsForPaid
  <2>5. QED
    BY <1>3, <2>1, <2>2, <2>3, <2>4
       DEF TypeOK, Progress, Failure, Begin, Prepare, Execute, Raise,
           MergeResult, SubmitResult, LoadEconomics, Commit, Return,
           TransientError, RecordFailure, RecordFailureFails, Retry, Ack,
           ConnectionLost, Die, ChildKilled, Release, Goto, Forget, session
<1>4. QED
  BY <1>2, <1>3, OthersWait, RequestsWait DEF Next, vars, session

LEMMA NextPaid == TypeOK /\ RowInv /\ PaidInv /\ [Next]_vars => PaidInv'
BY NextPaidHasRow, NextUnpaid, NextPaidRun, NextAnswer DEF PaidInv

(* The entry of one attempt moves when only its row or its submissions do.  *)
LEMMA EntryMoves ==
  ASSUME NEW t \in Task, NEW n \in AttemptNo, NEW from, NEW to,
         \A u \in Task, k \in AttemptNo :
           ~(u = t /\ k = n) => /\ attempts'[u][k] = attempts[u][k]
                               /\ submits'[u][k] = submits[u][k],
         Entry(attempts[t][n], submits[t][n]) = from,
         Entry(attempts'[t][n], submits'[t][n]) = to
  PROVE  Ledgers!Step(<<t, n>>, from, to)
<1> DEFINE A == Task \X AttemptNo
<1>1. <<t, n>> \in A
  OBVIOUS
<1>2. ledger[<<t, n>>] = from
  BY <1>1 DEF ledger
<1>3. ASSUME NEW a \in A
      PROVE  Entry(attempts'[a[1]][a[2]], submits'[a[1]][a[2]]) =
               IF a = <<t, n>> THEN to ELSE ledger[a]
  <2>1. CASE a = <<t, n>>
    BY <2>1
  <2>2. CASE a # <<t, n>>
    <3>1. a[1] \in Task /\ a[2] \in AttemptNo /\ ~(a[1] = t /\ a[2] = n)
      BY <2>2
    <3>2. /\ attempts'[a[1]][a[2]] = attempts[a[1]][a[2]]
          /\ submits'[a[1]][a[2]] = submits[a[1]][a[2]]
      BY <3>1
    <3>3. ledger[a] = Entry(attempts[a[1]][a[2]], submits[a[1]][a[2]])
      BY DEF ledger
    <3>4. QED
      BY <2>2, <3>2, <3>3
  <2>3. QED
    BY <2>1, <2>2
<1>4. ledger' = [a \in A |-> Entry(attempts'[a[1]][a[2]],
                                  submits'[a[1]][a[2]])]
  BY DEF ledger, Entry
<1>5. [ledger EXCEPT ![<<t, n>>] = to] =
        [a \in A |-> IF a = <<t, n>> THEN to ELSE ledger[a]]
  <2>1. ledger = [a \in A |-> ledger[a]]
    BY DEF ledger
  <2>2. QED
    BY <2>1
<1>6. ledger' = [ledger EXCEPT ![<<t, n>>] = to]
  BY <1>3, <1>4, <1>5
<1>7. QED
  BY <1>2, <1>6 DEF Ledgers!Step

LEMMA LedgerStands ==
  ASSUME UNCHANGED <<attempts, submits>>
  PROVE  ledger' = ledger
BY DEF ledger, Entry

LEMMA LedgerBegin ==
  ASSUME TypeOK, LockInv, NEW w \in Worker, Begin(w), ~InsertRefused(w)
  PROVE  Ledgers!Next
<1> DEFINE t == task(w)
           n == attempt_no(w)
<1>1. /\ t \in Task /\ n \in AttemptNo
      /\ attempts[t][n] = "none"
      /\ submits' = submits
      /\ attempts' = [attempts EXCEPT ![t][n] = "running"]
  BY HeldTyped DEF Begin, InsertRefused, SetAttempt
<1>2. submits[t][n] = 0
  BY <1>1 DEF LockInv, UnclaimedIsUnsubmitted
<1>3. attempts'[t][n] = "running"
  BY <1>1 DEF TypeOK
<1>4. \A u \in Task, k \in AttemptNo :
        ~(u = t /\ k = n) => /\ attempts'[u][k] = attempts[u][k]
                            /\ submits'[u][k] = submits[u][k]
  BY <1>1 DEF TypeOK
<1>5. /\ Entry(attempts[t][n], submits[t][n]) = "free"
      /\ Entry(attempts'[t][n], submits'[t][n]) = "claimed"
  BY <1>1, <1>2, <1>3 DEF Entry
<1>6. Ledgers!Step(<<t, n>>, "free", "claimed")
  BY <1>1, <1>4, <1>5, EntryMoves
<1>7. QED
  BY <1>1, <1>6 DEF Ledgers!Next, Ledgers!Claim

LEMMA LedgerSubmit ==
  ASSUME TypeOK, LockInv, PaidInv, NEW w \in Worker, NEW accepted \in BOOLEAN,
         SubmitResult(w, accepted), external[task(w)] # "none"
  PROVE  Ledgers!Next
<1> DEFINE t == task(w)
           n == attempt_no(w)
<1>1. /\ pc[w] = "submit"
      /\ attempts' = attempts
      /\ submits' = [submits EXCEPT ![t][n] = @ + 1]
  BY DEF SubmitResult, tables
<1>2. /\ t \in Task /\ n \in AttemptNo
      /\ t \in External
      /\ attempts[t][n] = "running"
      /\ submits[t][n] = 0
  BY <1>1, HeldTyped DEF LockInv, RunOwnsAttempt, RunSubmitsLate, Active,
                         BeforeSubmit, PaidInv, PaidHasRow
<1>3. submits'[t][n] = 1
  BY <1>1, <1>2 DEF TypeOK
<1>4. \A u \in Task, k \in AttemptNo :
        ~(u = t /\ k = n) => /\ attempts'[u][k] = attempts[u][k]
                            /\ submits'[u][k] = submits[u][k]
  BY <1>1, <1>2 DEF TypeOK
<1>5. /\ Entry(attempts[t][n], submits[t][n]) = "claimed"
      /\ Entry(attempts'[t][n], submits'[t][n]) = "reported"
  BY <1>1, <1>2, <1>3 DEF Entry
<1>6. Ledgers!Step(<<t, n>>, "claimed", "reported")
  BY <1>2, <1>4, <1>5, EntryMoves
<1>7. <<t, n>> \in Task \X AttemptNo /\ <<t, n>> \in External \X AttemptNo
  BY <1>2
<1>8. QED
  BY <1>6, <1>7 DEF Ledgers!Next, Ledgers!Report

LEMMA LedgerCommit ==
  ASSUME TypeOK, LockInv, PaidInv, NEW w \in Worker, Commit(w),
         ~ResultConflict(w)
  PROVE  Ledgers!Next
<1> DEFINE t == task(w)
           n == attempt_no(w)
<1>1. /\ pc[w] = "commit"
      /\ attempts' = [attempts EXCEPT ![t][n] = "succeeded"]
      /\ submits' = submits
  BY DEF Commit, WriteRows, SetAttempt
<1>2. /\ t \in Task /\ n \in AttemptNo
      /\ attempts[t][n] = "running"
  BY <1>1, HeldTyped DEF LockInv, RunOwnsAttempt, Active
<1>3. IF t \in External THEN submits[t][n] # 0 ELSE submits[t][n] = 0
  BY <1>1, <1>2 DEF PaidInv, PaidRunHasSubmitted, UnpaidIsUnsubmitted
<1>4. attempts'[t][n] = "succeeded"
  BY <1>1, <1>2 DEF TypeOK
<1>5. \A u \in Task, k \in AttemptNo :
        ~(u = t /\ k = n) => /\ attempts'[u][k] = attempts[u][k]
                            /\ submits'[u][k] = submits[u][k]
  BY <1>1, <1>2 DEF TypeOK
<1>6. /\ Entry(attempts[t][n], submits[t][n]) =
           IF t \in External THEN "reported" ELSE "claimed"
      /\ Entry(attempts'[t][n], submits'[t][n]) = "closed"
  BY <1>2, <1>3, <1>4 DEF Entry
<1>7. Ledgers!Step(<<t, n>>, IF t \in External THEN "reported" ELSE "claimed",
                   "closed")
  BY <1>2, <1>5, <1>6, EntryMoves
<1>8. /\ <<t, n>> \in Task \X AttemptNo
      /\ <<t, n>> \in External \X AttemptNo <=> t \in External
  BY <1>2
<1>9. QED
  BY <1>7, <1>8 DEF Ledgers!Next, Ledgers!Close

LEMMA LedgerRecordFailure ==
  ASSUME TypeOK, LockInv, NEW w \in Worker, RecordFailure(w),
         ~InsertRefused(w)
  PROVE  Ledgers!Next
<1> DEFINE t == task(w)
           n == attempt_no(w)
<1>1. /\ t \in Task /\ n \in AttemptNo
      /\ attempts[t][n] = "none"
      /\ submits' = submits
      /\ attempts' = [attempts EXCEPT ![t][n] = "failed"]
  BY HeldTyped DEF RecordFailure, InsertRefused, SetAttempt
<1>2. attempts'[t][n] = "failed"
  BY <1>1 DEF TypeOK
<1>3. \A u \in Task, k \in AttemptNo :
        ~(u = t /\ k = n) => /\ attempts'[u][k] = attempts[u][k]
                            /\ submits'[u][k] = submits[u][k]
  BY <1>1 DEF TypeOK
<1>4. /\ Entry(attempts[t][n], submits[t][n]) = "free"
      /\ Entry(attempts'[t][n], submits'[t][n]) = "failed"
  BY <1>1, <1>2 DEF Entry
<1>5. Ledgers!Step(<<t, n>>, "free", "failed")
  BY <1>1, <1>3, <1>4, EntryMoves
<1>6. QED
  BY <1>1, <1>5 DEF Ledgers!Next, Ledgers!Refuse

LEMMA LedgerNext ==
  TypeOK /\ LockInv /\ PaidInv /\ [Next]_vars => [Ledgers!Next]_ledger
<1> SUFFICES ASSUME TypeOK, LockInv, PaidInv, [Next]_vars
             PROVE  Ledgers!Next \/ ledger' = ledger
  OBVIOUS
<1>1. CASE UNCHANGED <<attempts, submits>>
  BY <1>1, LedgerStands
<1>2. ASSUME NEW w \in Worker, Begin(w)
      PROVE  Ledgers!Next \/ ledger' = ledger
  BY <1>1, <1>2, LedgerBegin DEF Begin
<1>3. ASSUME NEW w \in Worker, NEW accepted \in BOOLEAN,
             SubmitResult(w, accepted)
      PROVE  Ledgers!Next \/ ledger' = ledger
  BY <1>1, <1>3, LedgerSubmit DEF SubmitResult, tables
<1>4. ASSUME NEW w \in Worker, Commit(w)
      PROVE  Ledgers!Next \/ ledger' = ledger
  BY <1>1, <1>4, LedgerCommit DEF Commit, tables
<1>5. ASSUME NEW w \in Worker, RecordFailure(w)
      PROVE  Ledgers!Next \/ ledger' = ledger
  BY <1>1, <1>5, LedgerRecordFailure DEF RecordFailure
<1>6. QED
  BY <1>1, <1>2, <1>3, <1>4, <1>5
     DEF Next, Request, Progress, Failure, Create, Enqueue, CancelRead,
         CancelCommit, AdmissionLost, Receive, Prepare, Execute, Raise,
         MergeResult, LoadEconomics, Return, TransientError,
         RecordFailureFails, Retry, Ack, ConnectionLost, Die, ChildKilled,
         Release, tables, vars

(* The worker implements the ledger: whichever deliveries of an attempt     *)
(* overlap, are killed or are retried, it is claimed, reported to the paid  *)
(* source and closed once each, in this order, and not touched again.       *)
THEOREM AttemptsAsPromised == Spec => AttemptsInOrder
<1>1. Init => Ledgers!Init
  BY DEF Init, Ledgers!Init, ledger, Entry
<1>2. QED
  BY <1>1, InitTypeOK, NextTypeOK, InitLock, NextLock, InitRow, NextRow,
     InitPaid, NextPaid, LedgerNext, PTL
     DEF Spec, AttemptsInOrder, Ledgers!Spec

-----------------------------------------------------------------------------
(* A task left behind can be found. The attempt that answers for a status   *)
(* "running" is one whose run, if there still is one, has seen that status: *)
(* when it commits, the session finds the column changed and overwrites it. *)

AfterPrepare == {"execute", "merge", "submit", "economics", "commit"}

AnswersFor(n, t) ==
  /\ attempts[t][n] = "running"
  /\ \A w \in Worker :
       pc[w] \in AfterPrepare /\ task(w) = t /\ attempt_no(w) = n =>
         seen[w].status = "running"

StuckInv ==
  \A t \in Task : status[t] = "running" => \E n \in AttemptNo : AnswersFor(n, t)

LEMMA InitStuck == Init => StuckInv
BY DEF Init, StuckInv

(* Only the first transaction of a run writes "running".                    *)
LEMMA RunningByBegin ==
  ASSUME TypeOK, RowInv, [Next]_vars,
         NEW t \in Task, status[t] # "running", status'[t] = "running"
  PROVE  \E w \in Worker : Begin(w) /\ ~InsertRefused(w) /\ task(w) = t
<1>1. status' # status
  OBVIOUS
<1>2. ASSUME NEW u \in Task, NEW v, SetStatus(u, v)
      PROVE  u = t /\ v = "running"
  BY <1>2 DEF SetStatus, TypeOK
<1>3. ASSUME NEW w \in Worker, Commit(w) PROVE FALSE
  <2>1. WriteRows(w) /\ outcome[w] \in Verdict /\ task(w) \in Task
    BY <1>1, <1>3, HeldTyped DEF Commit, tables, RowInv
  <2>2. SetStatus(task(w),
                  Flush(seen[w].status, outcome[w], status[task(w)]))
    BY <2>1 DEF WriteRows
  <2>3. task(w) = t /\ Flush(seen[w].status, outcome[w], status[t]) = "running"
    BY <1>2, <2>1, <2>2
  <2>4. QED
    BY <2>1, <2>3 DEF Flush, Verdict
<1>4. ASSUME NEW w \in Worker, Begin(w) \/ RecordFailure(w)
      PROVE  Begin(w) /\ ~InsertRefused(w) /\ task(w) = t
  <2>1. task(w) \in Task
    BY <1>4, HeldTyped DEF Begin, RecordFailure
  <2>2. QED
    BY <1>1, <1>2, <1>4, <2>1 DEF Begin, RecordFailure
<1>5. ASSUME NEW u \in Task, Create(u) \/ CancelCommit(u) PROVE FALSE
  BY <1>2, <1>5 DEF Create, CancelCommit
<1>6. QED
  BY <1>1, <1>3, <1>4, <1>5
     DEF Next, Request, Progress, Failure, Enqueue, CancelRead,
         AdmissionLost, Receive, Prepare, Execute, Raise, MergeResult,
         SubmitResult, LoadEconomics, Return, TransientError,
         RecordFailureFails, Retry, Ack, ConnectionLost, Die, ChildKilled,
         Release, tables, vars

LEMMA StuckBegin ==
  ASSUME TypeOK, LockInv, NEW w \in Worker, Begin(w), ~InsertRefused(w)
  PROVE  AnswersFor(attempt_no(w), task(w))'
<1>1. /\ task(w) \in Task /\ attempt_no(w) \in AttemptNo
      /\ attempts[task(w)][attempt_no(w)] = "none"
      /\ attempts' = [attempts EXCEPT ![task(w)][attempt_no(w)] = "running"]
      /\ pc' = [pc EXCEPT ![w] = "prepare"]
      /\ held' = held
  BY HeldTyped DEF Begin, InsertRefused, SetAttempt, Goto, session
<1>2. \A v \in Worker : task(v)' = task(v) /\ attempt_no(v)' = attempt_no(v)
  BY <1>1 DEF task, attempt_no
<1>3. attempts'[task(w)][attempt_no(w)] = "running"
  BY <1>1 DEF TypeOK
<1>4. ASSUME NEW v \in Worker, pc'[v] \in AfterPrepare,
             task(v) = task(w), attempt_no(v) = attempt_no(w)
      PROVE  FALSE
  <2>1. pc[v] \in Active
    BY <1>1, <1>4 DEF TypeOK, AfterPrepare, Active
  <2>2. QED
    BY <1>1, <1>4, <2>1 DEF LockInv, RunOwnsAttempt
<1>5. QED
  BY <1>2, <1>3, <1>4 DEF AnswersFor

(* While the status stays "running", the attempt that answered for it does. *)
LEMMA StuckStays ==
  ASSUME TypeOK, LockInv, RowInv, [Next]_vars,
         NEW t \in Task, NEW n \in AttemptNo,
         status[t] = "running", AnswersFor(n, t), status'[t] = "running"
  PROVE  AnswersFor(n, t)'
<1>1. attempts'[t][n] = "running"
  <2>1. CASE attempts' = attempts
    BY <2>1 DEF AnswersFor
  <2>2. ASSUME NEW w \in Worker, NEW v, SetAttempt(w, v), pc[w] # "idle",
               ~(task(w) = t /\ attempt_no(w) = n)
        PROVE  attempts'[t][n] = "running"
    <3>1. task(w) \in Task /\ attempt_no(w) \in AttemptNo
      BY <2>2, HeldTyped
    <3>2. QED
      BY <2>2, <3>1 DEF SetAttempt, AnswersFor, TypeOK
  <2>3. ASSUME NEW w \in Worker, Begin(w) \/ RecordFailure(w)
        PROVE  attempts'[t][n] = "running"
    BY <2>1, <2>2, <2>3 DEF Begin, RecordFailure, InsertRefused, AnswersFor
  <2>4. ASSUME NEW w \in Worker, Commit(w), ~ResultConflict(w)
        PROVE  ~(task(w) = t /\ attempt_no(w) = n)
    <3>1. SUFFICES ASSUME task(w) = t, attempt_no(w) = n PROVE FALSE
      OBVIOUS
    <3>2. outcome[w] \in Verdict /\ seen[w].status = "running"
      BY <2>4, <3>1 DEF Commit, RowInv, AnswersFor, AfterPrepare
    <3>3. status' = [status EXCEPT ![t] = outcome[w]]
      BY <2>4, <3>1, <3>2
         DEF Commit, WriteRows, SetStatus, Flush, Verdict
    <3>4. QED
      BY <3>2, <3>3 DEF TypeOK, Verdict
  <2>5. ASSUME NEW w \in Worker, Commit(w) PROVE attempts'[t][n] = "running"
    BY <2>1, <2>2, <2>4, <2>5 DEF Commit, WriteRows, tables
  <2>6. QED
    BY <2>1, <2>3, <2>5
       DEF Next, Request, Progress, Failure, Create, Enqueue, CancelRead,
           CancelCommit, AdmissionLost, Receive, Prepare, Execute, Raise,
           MergeResult, SubmitResult, LoadEconomics, Return, TransientError,
           RecordFailureFails, Retry, Ack, ConnectionLost, Die, ChildKilled,
           Release, tables, vars
<1>2. ASSUME NEW w \in Worker, pc'[w] \in AfterPrepare,
             task(w)' = t, attempt_no(w)' = n
      PROVE  seen'[w].status = "running"
  <2>1. CASE UNCHANGED <<pc[w], held[w]>> /\ seen'[w].status = seen[w].status
    BY <1>2, <2>1 DEF AnswersFor, task, attempt_no
  <2>2. CASE Progress(w) \/ Failure(w)
    <3>1. CASE Prepare(w)
      <4>1. held' = held /\ seen' = [seen EXCEPT ![w].status = status[task(w)]]
        BY <3>1 DEF Prepare
      <4>2. task(w) = t
        BY <1>2, <4>1 DEF task
      <4>3. seen \in [Worker -> Snapshot]
        BY DEF TypeOK
      <4>4. QED
        BY <4>1, <4>2, <4>3 DEF Snapshot
    <3>2. CASE ~Prepare(w)
      <4>1. /\ pc[w] \in AfterPrepare
            /\ held'[w] = held[w]
            /\ seen'[w].status = seen[w].status
        BY <1>2, <2>2, <3>2
           DEF TypeOK, Snapshot, AfterPrepare, Progress, Failure, Receive,
               Begin, Execute, Raise, MergeResult, SubmitResult,
               LoadEconomics, Commit, Return, TransientError, RecordFailure,
               RecordFailureFails, Retry, Ack, ConnectionLost, Die,
               ChildKilled, Release, Goto, session
      <4>2. QED
        BY <1>2, <4>1 DEF AnswersFor, task, attempt_no
    <3>3. QED
      BY <3>1, <3>2
  <2>3. CASE \E v \in Worker \ {w} : Progress(v) \/ Failure(v)
    <3>1. PICK v \in Worker \ {w} : Progress(v) \/ Failure(v)
      BY <2>3
    <3>2. seen'[w] = seen[w]
      BY <3>1
         DEF TypeOK, Progress, Failure, Receive, Begin, Prepare, Execute,
             Raise, MergeResult, SubmitResult, LoadEconomics, Commit, Return,
             TransientError, RecordFailure, RecordFailureFails, Retry, Ack,
             ConnectionLost, Die, ChildKilled, Release, Forget, session
    <3>3. QED
      BY <2>1, <3>1, <3>2, OthersWait
  <2>4. ASSUME NEW u \in Task, Request(u) \/ AdmissionLost(u)
        PROVE  UNCHANGED <<pc, held, seen>>
    BY <2>4 DEF Request, Create, Enqueue, CancelRead, CancelCommit,
                AdmissionLost, session
  <2>5. QED
    BY <2>1, <2>2, <2>3, <2>4 DEF Next, vars, session
<1>3. QED
  BY <1>1, <1>2 DEF AnswersFor

LEMMA NextStuck ==
  TypeOK /\ LockInv /\ RowInv /\ StuckInv /\ [Next]_vars => StuckInv'
<1> SUFFICES ASSUME TypeOK, LockInv, RowInv, StuckInv, [Next]_vars,
                    NEW t \in Task, status'[t] = "running"
             PROVE  \E n \in AttemptNo : AnswersFor(n, t)'
  BY DEF StuckInv
<1>1. CASE status[t] = "running"
  BY <1>1, StuckStays DEF StuckInv
<1>2. CASE status[t] # "running"
  <2>1. PICK w \in Worker : Begin(w) /\ ~InsertRefused(w) /\ task(w) = t
    BY <1>2, RunningByBegin
  <2>2. attempt_no(w) \in AttemptNo
    BY <2>1, HeldTyped DEF Begin
  <2>3. AnswersFor(attempt_no(w), task(w))'
    BY <2>1, StuckBegin
  <2>4. task(w)' = task(w) /\ attempt_no(w)' = attempt_no(w)
    BY <2>1 DEF Begin, session, task, attempt_no
  <2>5. AnswersFor(attempt_no(w), t)'
    BY <2>1, <2>3, <2>4 DEF AnswersFor
  <2>6. QED
    BY <2>2, <2>4, <2>5
<1>3. QED
  BY <1>1, <1>2

(* A status "running" always has an attempt row that says so, whichever     *)
(* runs of the task overlap with each other and with a cancel.              *)
THEOREM LeftBehindIsVisible == Spec => []StuckIsVisible
<1>1. StuckInv => StuckIsVisible
  BY DEF StuckInv, StuckIsVisible, AnswersFor
<1>2. QED
  BY <1>1, InitTypeOK, NextTypeOK, InitLock, NextLock, InitRow, NextRow,
     InitStuck, NextStuck, PTL DEF Spec

-----------------------------------------------------------------------------
(* Where a task is, as long as nothing is lost or repeated.                 *)

Nowhere(t) ==
  /\ \A m \in Message : m.task = t => ready[m] = 0
  /\ \A w \in Worker : ~Working(w, t)

InOneMessage(t) ==
  /\ \E m \in Message :
       /\ m.task = t
       /\ ready[m] = 1
       /\ \A n \in Message : n.task = t /\ n # m => ready[n] = 0
  /\ \A w \in Worker : ~Working(w, t)

WithOneWorker(t) ==
  /\ \A m \in Message : m.task = t => ready[m] = 0
  /\ \E w \in Worker :
       Working(w, t) /\ \A v \in Worker : Working(v, t) => v = w

Placed(t) ==
  \/ Nowhere(t)
  \/ admission[t] = "enqueued" /\ (InOneMessage(t) \/ WithOneWorker(t))

SoleInv == losses = 0 => \A t \in Task : Placed(t)

LEMMA InitSole == Init => SoleInv
BY DEF Init, SoleInv, Placed, Nowhere, Working

(* A step that publishes nothing for a task, and takes none of its          *)
(* messages, leaves it where it is or ends its last run.                    *)
LEMMA PlaceFrame ==
  ASSUME NEW t \in Task, Placed(t),
         \A m \in Message : m.task = t => ready'[m] = ready[m],
         \A w \in Worker : Working(w, t)' => Working(w, t),
         admission[t] = "enqueued" => admission'[t] = "enqueued"
  PROVE  Placed(t)'
<1>1. CASE Nowhere(t)
  BY <1>1 DEF Placed, Nowhere
<1>2. CASE admission[t] = "enqueued" /\ InOneMessage(t)
  BY <1>2 DEF Placed, InOneMessage
<1>3. CASE admission[t] = "enqueued" /\ WithOneWorker(t)
  <2>1. PICK w \in Worker :
          Working(w, t) /\ \A v \in Worker : Working(v, t) => v = w
    BY <1>3 DEF WithOneWorker
  <2>2. \A m \in Message : m.task = t => ready'[m] = 0
    BY <1>3 DEF WithOneWorker
  <2>3. CASE Working(w, t)'
    BY <1>3, <2>1, <2>2, <2>3 DEF Placed, WithOneWorker
  <2>4. CASE ~Working(w, t)'
    BY <2>1, <2>2, <2>4 DEF Placed, Nowhere
  <2>5. QED
    BY <2>3, <2>4
<1>4. QED
  BY <1>1, <1>2, <1>3 DEF Placed

(* A message is published for a task that nobody else has.                  *)
LEMMA PlacePublish ==
  ASSUME TypeOK, NEW t \in Task, NEW m \in Message, m.task = t,
         \A n \in Message : n.task = t => ready[n] = 0,
         Publish(m),
         \A w \in Worker : ~Working(w, t)',
         admission'[t] = "enqueued"
  PROVE  Placed(t)'
<1>1. ready'[m] = 1 /\ \A n \in Message \ {m} : ready'[n] = ready[n]
  BY DEF Publish, TypeOK
<1>2. QED
  BY <1>1 DEF Placed, InOneMessage

LEMMA SoleEnqueue ==
  ASSUME TypeOK, NEW u \in Task, Enqueue(u), NEW t \in Task, Placed(t)
  PROVE  Placed(t)'
<1> DEFINE m == [task |-> u, retries |-> 0]
<1>1. /\ m \in Message /\ m.task = u
      /\ Publish(m)
      /\ admission[u] = "committed"
      /\ admission' = [admission EXCEPT ![u] = "enqueued"]
      /\ pc' = pc /\ held' = held
  BY FirstMessage DEF Enqueue, session
<1>2. \A w \in Worker : Working(w, t)' <=> Working(w, t)
  BY <1>1 DEF Working, task
<1>3. CASE t = u
  <2>1. Nowhere(t)
    BY <1>1, <1>3 DEF Placed
  <2>2. admission'[t] = "enqueued"
    BY <1>1, <1>3 DEF TypeOK
  <2>3. QED
    BY <1>1, <1>2, <1>3, <2>1, <2>2, PlacePublish DEF Nowhere
<1>4. CASE t # u
  <2>1. \A n \in Message : n.task = t => ready'[n] = ready[n]
    BY <1>1, <1>4 DEF Publish, TypeOK
  <2>2. admission'[t] = admission[t]
    BY <1>1, <1>4 DEF TypeOK
  <2>3. QED
    BY <1>2, <2>1, <2>2, PlaceFrame
<1>5. QED
  BY <1>3, <1>4

LEMMA SoleReceive ==
  ASSUME TypeOK, NEW w \in Worker, NEW m \in Message, Receive(w, m),
         NEW t \in Task, Placed(t)
  PROVE  Placed(t)'
<1>1. /\ ready[m] > 0
      /\ ready' = [ready EXCEPT ![m] = @ - 1]
      /\ held' = [held EXCEPT ![w] = m]
      /\ pc' = [pc EXCEPT ![w] = "begin"]
      /\ admission' = admission
  BY DEF Receive, Goto
<1>2. \A v \in Worker \ {w} : Working(v, t)' <=> Working(v, t)
  BY <1>1 DEF Working, task, TypeOK
<1>3. Working(w, t)' <=> m.task = t
  BY <1>1 DEF Working, task, TypeOK
<1>4. CASE m.task = t
  <2>1. InOneMessage(t) /\ admission[t] = "enqueued"
    BY <1>1, <1>4 DEF Placed, Nowhere, WithOneWorker
  <2>2. /\ ready[m] = 1
        /\ \A n \in Message : n.task = t /\ n # m => ready[n] = 0
        /\ \A v \in Worker : ~Working(v, t)
    BY <1>1, <1>4, <2>1 DEF InOneMessage
  <2>3. \A n \in Message : n.task = t => ready'[n] = 0
    BY <1>1, <2>2 DEF TypeOK
  <2>4. WithOneWorker(t)'
    BY <1>2, <1>3, <1>4, <2>2, <2>3 DEF WithOneWorker
  <2>5. QED
    BY <1>1, <2>1, <2>4 DEF Placed
<1>5. CASE m.task # t
  <2>1. \A n \in Message : n.task = t => ready'[n] = ready[n]
    BY <1>1, <1>5 DEF TypeOK
  <2>2. QED
    BY <1>1, <1>2, <1>3, <1>5, <2>1, PlaceFrame
<1>6. QED
  BY <1>4, <1>5

LEMMA SoleRetry ==
  ASSUME TypeOK, NEW w \in Worker, Retry(w), NEW t \in Task, Placed(t)
  PROVE  Placed(t)'
<1>1. /\ pc[w] = "retry" /\ held[w] \in Message /\ task(w) \in Task
      /\ pc' = [pc EXCEPT ![w] = "ack"]
      /\ held' = held /\ admission' = admission
  BY HeldTyped DEF Retry, Goto, session
<1>2. /\ ~Working(w, t)'
      /\ \A v \in Worker \ {w} : Working(v, t)' <=> Working(v, t)
  BY <1>1 DEF Working, task, TypeOK
<1>3. CASE held[w].retries < MaxRetries /\ task(w) = t
  <2> DEFINE m == [task |-> task(w), retries |-> held[w].retries + 1]
  <2>1. m \in Message /\ m.task = t /\ Publish(m)
    BY <1>1, <1>3, NextMessage DEF Retry, task
  <2>2. Working(w, t)
    BY <1>1, <1>3 DEF Working
  <2>3. WithOneWorker(t) /\ admission[t] = "enqueued"
    BY <2>2 DEF Placed, Nowhere, InOneMessage
  <2>4. /\ \A n \in Message : n.task = t => ready[n] = 0
        /\ \A v \in Worker : ~Working(v, t)'
    BY <1>2, <2>2, <2>3 DEF WithOneWorker
  <2>5. QED
    BY <1>1, <2>1, <2>3, <2>4, PlacePublish
<1>4. CASE ~(held[w].retries < MaxRetries /\ task(w) = t)
  <2>1. \A n \in Message : n.task = t => ready'[n] = ready[n]
    <3>1. CASE ready' = ready
      BY <3>1
    <3>2. CASE ready' # ready
      <4> DEFINE m == [task |-> task(w), retries |-> held[w].retries + 1]
      <4>1. m \in Message /\ m.task # t /\ Publish(m)
        BY <1>1, <1>4, <3>2, NextMessage DEF Retry, task
      <4>2. QED
        BY <4>1 DEF Publish, TypeOK
    <3>3. QED
      BY <3>1, <3>2
  <2>2. QED
    BY <1>1, <1>2, <2>1, PlaceFrame
<1>5. QED
  BY <1>3, <1>4

LEMMA NextSole == TypeOK /\ SoleInv /\ [Next]_vars => SoleInv'
<1> SUFFICES ASSUME TypeOK, SoleInv, [Next]_vars, losses' = 0,
                    NEW t \in Task
             PROVE  Placed(t)'
  BY DEF SoleInv
<1>1. losses \in Nat
  BY Assumptions DEF TypeOK
<1>2. losses = 0 /\ ~Loss
  <2>1. Loss => FALSE
    BY <1>1 DEF Loss
  <2>2. losses' = losses \/ Loss
    BY DEF Next, Request, Progress, Failure, Create, Enqueue, CancelRead,
           CancelCommit, AdmissionLost, Receive, Begin, Prepare, Execute,
           Raise, MergeResult, SubmitResult, LoadEconomics, Commit, Return,
           TransientError, RecordFailure, RecordFailureFails, Retry, Ack,
           ConnectionLost, Die, ChildKilled, Release, vars
  <2>3. QED
    BY <2>1, <2>2
<1>3. Placed(t)
  BY <1>2 DEF SoleInv
<1>4. ASSUME NEW w \in Worker,
             \/ Begin(w) \/ Prepare(w) \/ Raise(w) \/ MergeResult(w)
             \/ LoadEconomics(w) \/ Commit(w) \/ Return(w) \/ TransientError(w)
             \/ RecordFailure(w) \/ RecordFailureFails(w)
             \/ \E verdict \in Verdict : Execute(w, verdict)
             \/ \E accepted \in BOOLEAN : SubmitResult(w, accepted)
      PROVE  Placed(t)'
  <2>1. /\ ready' = ready /\ admission' = admission /\ held' = held
        /\ pc[w] \notin {"idle", "ack"}
    BY <1>4 DEF Begin, Prepare, Raise, MergeResult, LoadEconomics, Commit,
                Return, TransientError, RecordFailure, RecordFailureFails,
                Execute, SubmitResult, broker, session, Active
  <2>2. \A v \in Worker \ {w} : pc'[v] = pc[v]
    BY <1>4 DEF Begin, Prepare, Raise, MergeResult, LoadEconomics, Commit,
                Return, TransientError, RecordFailure, RecordFailureFails,
                Execute, SubmitResult, Goto, TypeOK
  <2>3. \A v \in Worker : Working(v, t)' => Working(v, t)
    BY <2>1, <2>2 DEF Working, task
  <2>4. QED
    BY <1>3, <2>1, <2>3, PlaceFrame
<1>5. ASSUME NEW w \in Worker, Release(w) PROVE Placed(t)'
  <2>1. /\ ready' = ready /\ admission' = admission
        /\ pc'[w] = "idle"
        /\ \A v \in Worker \ {w} : pc'[v] = pc[v] /\ held'[v] = held[v]
    BY <1>5 DEF Release, Goto, TypeOK
  <2>2. \A v \in Worker : Working(v, t)' => Working(v, t)
    BY <2>1 DEF Working, task
  <2>3. QED
    BY <1>3, <2>1, <2>2, PlaceFrame
<1>6. ASSUME UNCHANGED <<ready, pc, held>>,
             admission[t] = "enqueued" => admission'[t] = "enqueued"
      PROVE  Placed(t)'
  <2>1. \A v \in Worker : Working(v, t)' => Working(v, t)
    BY <1>6 DEF Working, task
  <2>2. QED
    BY <1>3, <1>6, <2>1, PlaceFrame
<1>7. ASSUME NEW u \in Task, Create(u) \/ CancelRead(u) \/ CancelCommit(u)
      PROVE  Placed(t)'
  BY <1>6, <1>7 DEF Create, CancelRead, CancelCommit, broker, session, TypeOK
<1>8. CASE UNCHANGED vars
  BY <1>6, <1>8 DEF vars, broker, session
<1>9. QED
  BY <1>2, <1>3, <1>4, <1>5, <1>7, <1>8, SoleEnqueue, SoleReceive, SoleRetry
     DEF Next, Request, Progress, Failure, AdmissionLost, Ack, ConnectionLost,
         Die, ChildKilled

(* Without a redelivery a task is in one message or with one worker, for    *)
(* any number of tasks, workers and retries.                                *)
THEOREM OnePlaceAtATime == Spec => []SoleDelivery
<1>1. TypeOK /\ SoleInv => SoleDelivery
  <2> SUFFICES ASSUME TypeOK, SoleInv, losses = 0, NEW t \in Task
               PROVE
      /\ \A v, w \in Worker : Working(v, t) /\ Working(w, t) => v = w
      /\ \A w \in Worker, m \in Message :
           Working(w, t) /\ m.task = t => ready[m] = 0
      /\ \A m, n \in Message :
           m.task = t /\ n.task = t /\ ready[m] > 0 /\ ready[n] > 0 => m = n
      /\ \A m \in Message : m.task = t => ready[m] <= 1
    BY DEF SoleDelivery
  <2>1. Placed(t)
    BY DEF SoleInv
  <2>2. CASE Nowhere(t)
    BY <2>2 DEF Nowhere
  <2>3. CASE InOneMessage(t)
    <3>1. PICK m \in Message :
            /\ m.task = t
            /\ ready[m] = 1
            /\ \A n \in Message : n.task = t /\ n # m => ready[n] = 0
      BY <2>3 DEF InOneMessage
    <3>2. QED
      BY <2>3, <3>1 DEF InOneMessage
  <2>4. CASE WithOneWorker(t)
    BY <2>4 DEF WithOneWorker
  <2>5. QED
    BY <2>1, <2>2, <2>3, <2>4 DEF Placed
<1>2. QED
  BY <1>1, InitTypeOK, NextTypeOK, InitSole, NextSole, PTL DEF Spec
=============================================================================
