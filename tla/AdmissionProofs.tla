-------------------------- MODULE AdmissionProofs --------------------------
(* What holds of Admission for any number of requests, keys and payloads,   *)
(* wherever requests crash and entries expire.                              *)
EXTENDS Admission, TLAPS

-----------------------------------------------------------------------------
(* The inductive invariant.                                                 *)

(* What a request has written says how far it has come.                     *)
StageInv ==
  \A r \in Request :
    /\ stage[r] \in {"register", "enqueue"} => r \in rows
    /\ r \in rows => stage[r] \notin {"lookup", "dedup", "commit"}
    /\ fingerprint(r) \in dedup => stage[r] \notin {"lookup", "dedup"}
    /\ r \in queued => stage[r] = "done"
    /\ stage[r] # "done" => reply[r].kind = "none"

(* The unique constraint.                                                   *)
UniqueKeys == \A t, u \in rows : SameKey(t, u) => t = u

(* A live entry names the task of its key, whose request registered it.     *)
CacheInv ==
  \A k \in Key : idem[k] # NoTask =>
    /\ idem[k] \in rows
    /\ idempotency_key[idem[k]] = k
    /\ stage[idem[k]] \in {"enqueue", "done"}

(* What an answer names is the request's own task or that of its key.       *)
ReplyInv ==
  \A r \in Request :
    /\ reply[r].task # NoTask =>
         /\ reply[r].task \in rows
         /\ reply[r].task = r \/ SameKey(reply[r].task, r)
    /\ reply[r].kind = "replayed" =>
         /\ reply[r].task \in rows /\ SameKey(reply[r].task, r)
         /\ stage[reply[r].task] \in {"enqueue", "done"}
    /\ reply[r].kind = "conflict" => \E t \in rows : SameKey(t, r)

(* The usage is committed with the row, and whoever has a row is answered   *)
(* with it or not at all.                                                   *)
UsageInv ==
  /\ usage \subseteq rows
  /\ rapidapi_inbound => rows \subseteq usage
  /\ \A r \in rows :
       /\ reply[r].kind \notin {"replayed", "duplicate", "conflict"}
       /\ stage[r] = "done" => r \in queued \/ reply[r].kind = "error"

Inv == TypeOK /\ StageInv /\ UniqueKeys /\ CacheInv /\ ReplyInv /\ UsageInv

-----------------------------------------------------------------------------

LEMMA KeyedHasKey ==
  ASSUME NEW r \in Request, Keyed(r)
  PROVE  idempotency_key[r] \in Key /\ idempotency_key[r] # NoKey
BY Assumptions DEF Keyed

(* Two requests never have one fingerprint: it holds the task_id.           *)
LEMMA FingerprintInjective ==
  ASSUME NEW r \in Request, NEW s \in Request, fingerprint(r) = fingerprint(s)
  PROVE  r = s
BY DEF fingerprint

LEMMA InitInv == Init => Inv
BY Assumptions DEF Init, Inv, TypeOK, Reply, Unanswered, Task, StageInv,
                   UniqueKeys, CacheInv, ReplyInv, UsageInv

LEMMA NextTypeOK == TypeOK /\ StageInv /\ [Next]_vars => TypeOK'
<1> SUFFICES ASSUME TypeOK, StageInv, [Next]_vars PROVE TypeOK'
  OBVIOUS
<1> USE DEF TypeOK, Reply, Task, Goto, Answer
<1>1. CASE \E r \in Request : Lookup(r)
  BY <1>1, KeyedHasKey DEF Lookup
<1>2. CASE \E r \in Request : RegisterDedup(r)
  BY <1>2 DEF RegisterDedup
<1>3. CASE \E r \in Request : Commit(r)
  BY <1>3 DEF Commit, Billed
<1>4. CASE \E r \in Request : RegisterKey(r)
  BY <1>4, KeyedHasKey DEF RegisterKey
<1>5. CASE \E r \in Request : Enqueue(r)
  BY <1>5 DEF Enqueue, StageInv
<1>6. CASE \E r \in Request : Crash(r)
  BY <1>6 DEF Crash
<1>7. CASE \E k \in Key : ExpireKey(k)
  BY <1>7 DEF ExpireKey
<1>8. CASE \E f \in dedup : ExpireDedup(f)
  BY <1>8 DEF ExpireDedup
<1>9. CASE UNCHANGED vars
  BY <1>9 DEF vars
<1>10. QED
  BY <1>1, <1>2, <1>3, <1>4, <1>5, <1>6, <1>7, <1>8, <1>9 DEF Next, Handle

LEMMA NextStageInv == TypeOK /\ StageInv /\ [Next]_vars => StageInv'
<1> SUFFICES ASSUME TypeOK, StageInv, [Next]_vars,
                    NEW s \in Request
             PROVE  /\ stage'[s] \in {"register", "enqueue"} => s \in rows'
                    /\ s \in rows' =>
                         stage'[s] \notin {"lookup", "dedup", "commit"}
                    /\ fingerprint(s) \in dedup' =>
                         stage'[s] \notin {"lookup", "dedup"}
                    /\ s \in queued' => stage'[s] = "done"
                    /\ stage'[s] # "done" => reply'[s].kind = "none"
  BY DEF StageInv, fingerprint
<1> USE DEF TypeOK, StageInv, Goto, Answer
<1>1. CASE \E r \in Request : Lookup(r)
  BY <1>1 DEF Lookup
<1>2. CASE \E r \in Request : RegisterDedup(r)
  BY <1>2, FingerprintInjective DEF RegisterDedup
<1>3. CASE \E r \in Request : Commit(r)
  BY <1>3 DEF Commit
<1>4. CASE \E r \in Request : RegisterKey(r)
  BY <1>4 DEF RegisterKey
<1>5. CASE \E r \in Request : Enqueue(r)
  BY <1>5 DEF Enqueue
<1>6. CASE \E r \in Request : Crash(r)
  BY <1>6 DEF Crash
<1>7. CASE \E k \in Key : ExpireKey(k)
  BY <1>7 DEF ExpireKey
<1>8. CASE \E f \in dedup : ExpireDedup(f)
  BY <1>8 DEF ExpireDedup
<1>9. CASE UNCHANGED vars
  BY <1>9 DEF vars
<1>10. QED
  BY <1>1, <1>2, <1>3, <1>4, <1>5, <1>6, <1>7, <1>8, <1>9 DEF Next, Handle

(* Only a commit adds a row, and not when the key of it has one.            *)
LEMMA NextUniqueKeys == TypeOK /\ UniqueKeys /\ [Next]_vars => UniqueKeys'
<1> SUFFICES ASSUME TypeOK, UniqueKeys, [Next]_vars PROVE UniqueKeys'
  OBVIOUS
<1>1. CASE \E r \in Request : Commit(r)
  BY <1>1 DEF Commit, KeyTaken, UniqueKeys, SameKey
<1>2. CASE rows' = rows
  BY <1>2 DEF UniqueKeys, SameKey
<1>3. QED
  BY <1>1, <1>2 DEF Next, Handle, vars, Lookup, RegisterDedup, RegisterKey,
                    Enqueue, Crash, ExpireKey, ExpireDedup

LEMMA NextCacheInv ==
  TypeOK /\ StageInv /\ CacheInv /\ [Next]_vars => CacheInv'
<1> SUFFICES ASSUME TypeOK, StageInv, CacheInv, [Next]_vars,
                    NEW k \in Key, idem'[k] # NoTask
             PROVE  /\ idem'[k] \in rows'
                    /\ idempotency_key[idem'[k]] = k
                    /\ stage'[idem'[k]] \in {"enqueue", "done"}
  BY DEF CacheInv
<1> USE DEF TypeOK, Goto, Answer, Task
<1>1. CASE \E r \in Request : RegisterKey(r)
  <2> PICK r \in Request : RegisterKey(r)
    BY <1>1
  <2>1. CASE idem'[k] = idem[k]
    BY <2>1 DEF RegisterKey, CacheInv
  <2>2. CASE idem'[k] # idem[k]
    <3>1. idempotency_key[r] = k /\ idem'[k] = r
      BY <2>2, KeyedHasKey DEF RegisterKey
    <3>2. r \in rows' /\ stage'[r] = "enqueue"
      BY DEF RegisterKey, StageInv
    <3>3. QED
      BY <3>1, <3>2
  <2>3. QED
    BY <2>1, <2>2
<1>2. CASE \E j \in Key : ExpireKey(j)
  BY <1>2 DEF ExpireKey, CacheInv
<1>3. CASE \E r \in Request : \/ Lookup(r) \/ RegisterDedup(r) \/ Commit(r)
                              \/ Enqueue(r) \/ Crash(r)
  <2> PICK r \in Request : \/ Lookup(r) \/ RegisterDedup(r) \/ Commit(r)
                           \/ Enqueue(r) \/ Crash(r)
    BY <1>3
  <2>1. idem' = idem /\ rows \subseteq rows'
    BY DEF Lookup, RegisterDedup, Commit, Enqueue, Crash
  <2>2. idem[k] \in rows /\ idempotency_key[idem[k]] = k
    BY <2>1 DEF CacheInv
  <2>3. stage[idem[k]] \in {"enqueue", "done"}
    BY <2>1 DEF CacheInv
  <2>4. stage'[idem[k]] \in {"enqueue", "done"}
    BY <2>2, <2>3 DEF Lookup, RegisterDedup, Commit, Enqueue, Crash
  <2>5. QED
    BY <2>1, <2>2, <2>4
<1>4. CASE \E f \in dedup : ExpireDedup(f)
  BY <1>4 DEF ExpireDedup, CacheInv
<1>5. CASE UNCHANGED vars
  BY <1>5 DEF vars, CacheInv
<1>6. QED
  BY <1>1, <1>2, <1>3, <1>4, <1>5 DEF Next, Handle

(* An answer is given once, and rows are never removed under it.            *)
LEMMA NextReplyInv ==
  TypeOK /\ StageInv /\ CacheInv /\ ReplyInv /\ [Next]_vars => ReplyInv'
<1> SUFFICES ASSUME TypeOK, StageInv, CacheInv, ReplyInv, [Next]_vars,
                    NEW s \in Request
             PROVE  /\ reply'[s].task # NoTask =>
                         /\ reply'[s].task \in rows'
                         /\ reply'[s].task = s \/ SameKey(reply'[s].task, s)
                    /\ reply'[s].kind = "replayed" =>
                         /\ reply'[s].task \in rows'
                         /\ SameKey(reply'[s].task, s)
                         /\ stage'[reply'[s].task] \in {"enqueue", "done"}
                    /\ reply'[s].kind = "conflict" =>
                         \E t \in rows' : SameKey(t, s)
  BY DEF ReplyInv, SameKey
<1>1. rows \subseteq rows'
  BY DEF Next, Handle, vars, Lookup, RegisterDedup, Commit, RegisterKey,
         Enqueue, Crash, ExpireKey, ExpireDedup
<1> DEFINE Past == {t \in Request : stage[t] \in {"enqueue", "done"}}
<1>a. Past \subseteq Past'
  BY DEF Next, Handle, vars, Lookup, RegisterDedup, Commit, RegisterKey,
         Enqueue, Crash, ExpireKey, ExpireDedup, Goto, Answer, TypeOK
<1>2. CASE reply'[s] = reply[s]
  BY <1>1, <1>a, <1>2 DEF ReplyInv, TypeOK, Task
<1>3. CASE Lookup(s) /\ reply'[s] # reply[s]
  <2>1. Keyed(s) /\ idem[idempotency_key[s]] # NoTask
    BY <1>3 DEF Lookup
  <2>2. reply'[s] = [kind |-> "replayed", task |-> idem[idempotency_key[s]]]
    BY <1>3, <2>1 DEF Lookup, Answer, TypeOK
  <2>3. /\ idem[idempotency_key[s]] \in rows
        /\ SameKey(idem[idempotency_key[s]], s)
        /\ stage[idem[idempotency_key[s]]] \in {"enqueue", "done"}
    BY <2>1, KeyedHasKey DEF CacheInv, SameKey
  <2>4. QED
    BY <1>1, <1>a, <2>2, <2>3 DEF TypeOK, Task
<1>4. CASE RegisterDedup(s) /\ reply'[s] # reply[s]
  BY <1>4 DEF RegisterDedup, StageInv
<1>5. CASE Commit(s) /\ reply'[s] # reply[s]
  <2>1. KeyTaken(s)
    BY <1>5 DEF Commit
  <2>2. reply'[s] = [kind |-> "conflict", task |-> NoTask]
    BY <1>5, <2>1 DEF Commit, Answer, TypeOK
  <2>3. \E t \in rows : SameKey(t, s)
    BY <2>1 DEF KeyTaken, SameKey
  <2>4. QED
    BY <1>1, <2>2, <2>3
<1>6. CASE Enqueue(s)
  <2>1. reply'[s] = [kind |-> "created", task |-> s]
    BY <1>6 DEF Enqueue, Answer, TypeOK
  <2>2. s \in rows
    BY <1>6 DEF Enqueue, StageInv
  <2>3. QED
    BY <1>1, <2>1, <2>2
<1>7. CASE Crash(s)
  BY <1>7 DEF Crash, Answer, TypeOK
<1>8. QED
  BY <1>2, <1>3, <1>4, <1>5, <1>6, <1>7
  DEF Next, Handle, vars, TypeOK, Lookup, RegisterDedup, Commit, RegisterKey,
      Enqueue, Crash, ExpireKey, ExpireDedup, Answer

(* A row is added with its usage before the request is answered.            *)
LEMMA NextUsageInv ==
  TypeOK /\ StageInv /\ UsageInv /\ [Next]_vars => UsageInv'
<1> SUFFICES ASSUME TypeOK, StageInv, UsageInv, [Next]_vars PROVE UsageInv'
  OBVIOUS
<1>1. CASE \E r \in Request : Commit(r)
  <2> PICK r \in Request : Commit(r)
    BY <1>1
  <2>1. r \notin rows /\ stage[r] = "commit"
    BY DEF Commit, StageInv
  <2>2. CASE KeyTaken(r)
    <3>1. /\ rows' = rows /\ usage' = usage /\ queued' = queued
          /\ \A t \in rows : reply'[t] = reply[t] /\ stage'[t] = stage[t]
      BY <2>1, <2>2 DEF Commit, Answer, Goto, TypeOK, Task
    <3>2. QED
      BY <3>1 DEF UsageInv
  <2>3. CASE ~KeyTaken(r)
    <3>1. /\ rows' = rows \cup {r}
          /\ usage' = usage \cup Billed(r)
          /\ reply' = reply
          /\ queued' = queued
          /\ stage' = [stage EXCEPT ![r] = "register"]
      BY <2>3 DEF Commit, Goto
    <3>2. usage' \subseteq rows' /\ (rapidapi_inbound => rows' \subseteq usage')
      BY <3>1 DEF Billed, UsageInv
    <3>3. reply[r].kind \notin {"replayed", "duplicate", "conflict"}
      BY <2>1 DEF StageInv
    <3>4. QED
      BY <3>1, <3>2, <3>3 DEF UsageInv, TypeOK
  <2>4. QED
    BY <2>2, <2>3
<1>2. CASE \E r \in Request : \/ Lookup(r) \/ RegisterDedup(r)
                              \/ RegisterKey(r)
  <2> PICK r \in Request : \/ Lookup(r) \/ RegisterDedup(r) \/ RegisterKey(r)
    BY <1>2
  <2>1. rows' = rows /\ usage' = usage /\ queued' = queued
    BY DEF Lookup, RegisterDedup, RegisterKey
  <2>2. ASSUME NEW t \in rows
        PROVE  reply'[t] = reply[t] /\ (stage'[t] = "done" => stage[t] = "done")
    <3>1. CASE t = r
      <4>1. RegisterKey(r)
        BY <3>1 DEF Lookup, RegisterDedup, StageInv, TypeOK, Task
      <4>2. QED
        BY <3>1, <4>1 DEF RegisterKey, Goto, TypeOK, Task
    <3>2. CASE t # r
      BY <3>2 DEF Lookup, RegisterDedup, RegisterKey, Goto, Answer, TypeOK, Task
    <3>3. QED
      BY <3>1, <3>2
  <2>3. ASSUME NEW t \in rows
        PROVE  /\ reply'[t].kind \notin {"replayed", "duplicate", "conflict"}
               /\ stage'[t] = "done" =>
                    t \in queued' \/ reply'[t].kind = "error"
    <3>1. reply'[t] = reply[t] /\ (stage'[t] = "done" => stage[t] = "done")
      BY <2>2
    <3>2. /\ reply[t].kind \notin {"replayed", "duplicate", "conflict"}
          /\ stage[t] = "done" => t \in queued \/ reply[t].kind = "error"
      BY DEF UsageInv
    <3>3. QED
      BY <2>1, <3>1, <3>2
  <2>4. QED
    BY <2>1, <2>3 DEF UsageInv
<1>3. CASE \E r \in Request : Enqueue(r)
  BY <1>3 DEF Enqueue, Answer, Goto, UsageInv, TypeOK
<1>4. CASE \E r \in Request : Crash(r)
  BY <1>4 DEF Crash, Answer, Goto, UsageInv, TypeOK
<1>5. CASE \E k \in Key : ExpireKey(k)
  BY <1>5 DEF ExpireKey, UsageInv
<1>6. CASE \E f \in dedup : ExpireDedup(f)
  BY <1>6 DEF ExpireDedup, UsageInv
<1>7. CASE UNCHANGED vars
  BY <1>7 DEF vars, UsageInv
<1>8. QED
  BY <1>1, <1>2, <1>3, <1>4, <1>5, <1>6, <1>7 DEF Next, Handle

LEMMA SpecInv == Spec => []Inv
<1>1. Inv /\ [Next]_vars => Inv'
  BY NextTypeOK, NextStageInv, NextUniqueKeys, NextCacheInv, NextReplyInv,
     NextUsageInv
  DEF Inv
<1>2. QED
  BY InitInv, <1>1, PTL DEF Spec

-----------------------------------------------------------------------------

(* Every reachable state has the declared types, and no message is         *)
(* published for a task that is not committed.                             *)
THEOREM TypeCorrect == Spec => []TypeOK
<1>1. Inv => TypeOK
  BY DEF Inv
<1>2. QED
  BY SpecInv, <1>1, PTL

(* Clients that share a key are never given different tasks: what each is  *)
(* given has a row of their key, and the unique constraint leaves one.     *)
THEOREM IdempotentAnswers == Spec => []AnswersAgree
<1>1. Inv => AnswersAgree
  <2> SUFFICES ASSUME Inv, NEW r \in Request, NEW s \in Request, SameKey(r, s),
                      reply[r].task # NoTask, reply[s].task # NoTask
               PROVE  reply[r].task = reply[s].task
    BY DEF AnswersAgree
  <2>1. reply[r].task \in rows /\ reply[s].task \in rows
    BY DEF Inv, ReplyInv
  <2>2. SameKey(reply[r].task, reply[s].task)
    BY DEF Inv, ReplyInv, SameKey
  <2>3. QED
    BY <2>1, <2>2 DEF Inv, UniqueKeys
<1>2. QED
  BY SpecInv, <1>1, PTL

(* The handler may ignore what SET NX returns: the entry it finds would    *)
(* name a row of its key, its own, which is not registered yet.            *)
THEOREM RegistrationNeverLoses == Spec => []RegistersFirst
<1>1. Inv => RegistersFirst
  <2> SUFFICES ASSUME Inv, NEW r \in Request, stage[r] = "register", Keyed(r),
                      idem[idempotency_key[r]] # NoTask
               PROVE  FALSE
    BY DEF RegistersFirst
  <2> DEFINE t == idem[idempotency_key[r]]
  <2>1. /\ t \in rows
        /\ SameKey(t, r)
        /\ stage[t] \in {"enqueue", "done"}
    BY KeyedHasKey DEF Inv, CacheInv, SameKey
  <2>2. r \in rows
    BY DEF Inv, StageInv
  <2>3. t = r
    BY <2>1, <2>2 DEF Inv, UniqueKeys
  <2>4. QED
    BY <2>1, <2>3
<1>2. QED
  BY SpecInv, <1>1, PTL

(* A conflict on a key leaves its client with a task: committed, and        *)
(* published unless its request is about to do it or has crashed.           *)
THEOREM ConflictsAreBacked == Spec => []ConflictIsBacked
<1>1. Inv => ConflictIsBacked
  <2> SUFFICES ASSUME Inv, NEW r \in Request, reply[r].kind = "conflict"
               PROVE  \E t \in rows :
                        /\ SameKey(t, r)
                        /\ \/ t \in queued
                           \/ stage[t] \in {"register", "enqueue"}
                           \/ reply[t].kind = "error"
    BY DEF ConflictIsBacked
  <2>1. PICK t \in rows : SameKey(t, r)
    BY DEF Inv, ReplyInv
  <2>2. stage[t] \in {"register", "enqueue", "done"}
    BY DEF Inv, TypeOK, StageInv, Task
  <2>3. stage[t] = "done" => t \in queued \/ reply[t].kind = "error"
    BY DEF Inv, UsageInv
  <2>4. QED
    BY <2>1, <2>2, <2>3
<1>2. QED
  BY SpecInv, <1>1, PTL

(* However often a client tries, its key is billed at most once, and every *)
(* task that was admitted is billed.                                       *)
THEOREM KeysAreBilledOnce == Spec => []BilledOnce
<1>1. Inv => BilledOnce
  BY DEF Inv, UniqueKeys, UsageInv, BilledOnce
<1>2. QED
  BY SpecInv, <1>1, PTL

(* A replayed answer names a committed task of the same key, which is       *)
(* published unless its request is about to do it or has crashed: the key   *)
(* is registered just before.                                               *)
THEOREM ReplaysAreBacked == Spec => []ReplayIsBacked
<1>1. Inv => ReplayIsBacked
  <2> SUFFICES ASSUME Inv, NEW r \in Request, reply[r].kind = "replayed"
               PROVE  LET t == reply[r].task IN
                      /\ t \in rows
                      /\ SameKey(t, r)
                      /\ \/ t \in queued
                         \/ stage[t] = "enqueue"
                         \/ reply[t].kind = "error"
    BY DEF ReplayIsBacked
  <2>1. /\ reply[r].task \in rows
        /\ SameKey(reply[r].task, r)
        /\ stage[reply[r].task] \in {"enqueue", "done"}
    BY DEF Inv, ReplyInv
  <2>2. QED
    BY <2>1 DEF Inv, UsageInv
<1>2. QED
  BY SpecInv, <1>1, PTL

-----------------------------------------------------------------------------
(* The refinement of AdmitOnce.                                            *)

(* How far the task of a committed request has come.                       *)
Progress(t) ==
  IF t \in queued THEN "enqueued"
  ELSE IF stage[t] \in {"register", "enqueue"} THEN "committed" ELSE "lost"

(* A subject has the progress of its only task.                            *)
Shape ==
  \A s \in Subjects :
    /\ (\A t \in rows : subject(t) # s) => admission[s] = "new"
    /\ \A t \in rows : subject(t) = s => admission[s] = Progress(t)

LEMMA SubjectInjective ==
  ASSUME Inv, NEW t \in rows, NEW u \in rows, subject(t) = subject(u)
  PROVE  t = u
<1>1. t \in Request /\ u \in Request
  BY DEF Inv, TypeOK, Task
<1>2. CASE SameKey(t, u)
  BY <1>2 DEF Inv, UniqueKeys
<1>3. CASE ~SameKey(t, u)
  BY <1>1, <1>3, Assumptions DEF SameKey, subject
<1>4. QED
  BY <1>2, <1>3

LEMMA ShapeHolds == Inv => Shape
<1> SUFFICES ASSUME Inv, NEW s \in Subjects
             PROVE  /\ (\A t \in rows : subject(t) # s) => admission[s] = "new"
                    /\ \A t \in rows :
                         subject(t) = s => admission[s] = Progress(t)
  BY DEF Shape
<1>1. CASE \A t \in rows : subject(t) # s
  <2>1. Committed(s) = {}
    BY <1>1 DEF Committed
  <2>2. QED
    BY <1>1, <2>1 DEF admission
<1>2. ASSUME NEW t \in rows, subject(t) = s
      PROVE  admission[s] = Progress(t)
  <2>1. Committed(s) = {t}
    BY <1>2, SubjectInjective DEF Committed
  <2>2. QED
    BY <2>1 DEF admission, Progress
<1>3. QED
  BY <1>1, <1>2

(* A step under which only the task of one request progresses.             *)
LEMMA OneProgresses ==
  ASSUME Inv, Inv', rows' = rows, NEW r \in rows,
         \A t \in rows : t # r => Progress(t)' = Progress(t)
  PROVE  admission' = [admission EXCEPT ![subject(r)] = Progress(r)']
<1>1. Shape /\ Shape'
  BY ShapeHolds, PTL
<1>2. rows \subseteq Request /\ subject(r) \in Subjects
  BY DEF Inv, TypeOK, Task, Subjects
<1>3. admission'[subject(r)] = Progress(r)'
  BY <1>1, <1>2 DEF Shape
<1>4. ASSUME NEW s \in Subjects, s # subject(r)
      PROVE  admission'[s] = admission[s]
  <2>1. CASE \A t \in rows : subject(t) # s
    BY <1>1, <2>1 DEF Shape
  <2>2. CASE \E t \in rows : subject(t) = s
    <3> PICK t \in rows : subject(t) = s
      BY <2>2
    <3>1. t # r /\ admission[s] = Progress(t)
      BY <1>1, <1>4 DEF Shape
    <3>2. admission'[s] = Progress(t)'
      BY <1>1 DEF Shape
    <3>3. QED
      BY <3>1, <3>2
  <2>3. QED
    BY <2>1, <2>2
<1>5. QED
  BY <1>2, <1>3, <1>4 DEF admission

LEMMA NobodyProgresses ==
  ASSUME Inv, Inv', rows' = rows, \A t \in rows : Progress(t)' = Progress(t)
  PROVE  admission' = admission
<1>1. Shape /\ Shape'
  BY ShapeHolds, PTL
<1>2. ASSUME NEW s \in Subjects PROVE admission'[s] = admission[s]
  BY <1>1, <1>2 DEF Shape
<1>3. QED
  BY <1>2 DEF admission

(* A commit admits a subject that had nothing committed.                   *)
LEMMA CommitCreates ==
  ASSUME Inv, Inv', NEW r \in Request, Commit(r), ~KeyTaken(r)
  PROVE  Once!Create(subject(r))
<1>1. Shape /\ Shape'
  BY ShapeHolds, PTL
<1>2. /\ rows \subseteq Request
      /\ subject(r) \in Subjects
      /\ rows' = rows \cup {r}
      /\ r \notin rows
  BY DEF Inv, TypeOK, Task, Subjects, Commit, StageInv
<1>3. \A t \in rows : subject(t) # subject(r)
  BY <1>2, Assumptions DEF KeyTaken, subject
<1>4. admission[subject(r)] = "new"
  BY <1>1, <1>2, <1>3 DEF Shape
<1>5. admission'[subject(r)] = "committed"
  <2>1. r \notin queued' /\ stage'[r] = "register"
    BY <1>2 DEF Commit, Goto, Inv, TypeOK
  <2>2. Progress(r)' = "committed"
    BY <2>1 DEF Progress
  <2>3. QED
    BY <1>1, <1>2, <2>2 DEF Shape
<1>6. ASSUME NEW s \in Subjects, s # subject(r)
      PROVE  admission'[s] = admission[s]
  <2>1. CASE \A t \in rows : subject(t) # s
    BY <1>1, <1>2, <1>6, <2>1 DEF Shape
  <2>2. CASE \E t \in rows : subject(t) = s
    <3> PICK t \in rows : subject(t) = s
      BY <2>2
    <3>1. Progress(t)' = Progress(t)
      BY <1>2 DEF Progress, Commit, Goto, Inv, TypeOK
    <3>2. admission[s] = Progress(t) /\ admission'[s] = Progress(t)'
      BY <1>1, <1>2 DEF Shape
    <3>3. QED
      BY <3>1, <3>2
  <2>3. QED
    BY <2>1, <2>2
<1>7. admission' = [admission EXCEPT ![subject(r)] = "committed"]
  BY <1>2, <1>5, <1>6 DEF admission
<1>8. QED
  BY <1>4, <1>7 DEF Once!Create, Once!Step

LEMMA NextAdmits == Inv /\ Inv' /\ [Next]_vars => [Once!Next]_admission
<1> SUFFICES ASSUME Inv, Inv', [Next]_vars
             PROVE  Once!Next \/ admission' = admission
  BY DEF Once!Next
<1> USE DEF Progress
<1>1. CASE \E r \in Request : Commit(r) /\ ~KeyTaken(r)
  BY <1>1, CommitCreates DEF Once!Next, Subjects
<1>2. CASE \E r \in Request : Enqueue(r)
  <2> PICK r \in Request : Enqueue(r)
    BY <1>2
  <2>1. r \in rows /\ Progress(r) = "committed" /\ Progress(r)' = "enqueued"
    BY DEF Enqueue, Inv, StageInv
  <2>2. \A t \in rows : t # r => Progress(t)' = Progress(t)
    BY DEF Enqueue, Answer, Goto, Inv, TypeOK
  <2>3. admission' = [admission EXCEPT ![subject(r)] = "enqueued"]
    BY <2>1, <2>2, OneProgresses DEF Enqueue
  <2>4. Shape /\ subject(r) \in Subjects
    BY ShapeHolds DEF Subjects
  <2>5. admission[subject(r)] = "committed"
    BY <2>1, <2>4 DEF Shape
  <2>6. QED
    BY <2>3, <2>4, <2>5 DEF Once!Next, Once!Enqueue, Once!Step
<1>3. CASE \E r \in Request : Crash(r) /\ stage[r] \in {"register", "enqueue"}
  <2> PICK r \in Request : Crash(r) /\ stage[r] \in {"register", "enqueue"}
    BY <1>3
  <2>1. r \in rows /\ Progress(r) = "committed" /\ Progress(r)' = "lost"
    BY DEF Crash, Answer, Goto, Inv, StageInv, TypeOK
  <2>2. \A t \in rows : t # r => Progress(t)' = Progress(t)
    BY DEF Crash, Answer, Goto, Inv, TypeOK
  <2>3. admission' = [admission EXCEPT ![subject(r)] = "lost"]
    BY <2>1, <2>2, OneProgresses DEF Crash
  <2>4. Shape /\ subject(r) \in Subjects
    BY ShapeHolds DEF Subjects
  <2>5. admission[subject(r)] = "committed"
    BY <2>1, <2>4 DEF Shape
  <2>6. QED
    BY <2>3, <2>4, <2>5 DEF Once!Next, Once!Lose, Once!Step
<1>4. CASE \E r \in Request :
             Crash(r) /\ ~(stage[r] \in {"register", "enqueue"})
  <2> PICK r \in Request :
         Crash(r) /\ ~(stage[r] \in {"register", "enqueue"})
    BY <1>4
  <2>1. \A t \in rows : Progress(t)' = Progress(t)
    BY DEF Crash, Answer, Goto, Inv, TypeOK
  <2>2. QED
    BY <2>1, NobodyProgresses DEF Crash
<1>5. CASE \E r \in Request : \/ Lookup(r) \/ RegisterDedup(r)
                              \/ RegisterKey(r) \/ (Commit(r) /\ KeyTaken(r))
  <2> PICK r \in Request : \/ Lookup(r) \/ RegisterDedup(r)
                           \/ RegisterKey(r) \/ (Commit(r) /\ KeyTaken(r))
    BY <1>5
  <2>1. rows' = rows /\ queued' = queued
    BY DEF Lookup, RegisterDedup, RegisterKey, Commit
  <2>2. \A t \in rows : stage'[t] \in {"register", "enqueue"}
                          <=> stage[t] \in {"register", "enqueue"}
    BY DEF Lookup, RegisterDedup, RegisterKey, Commit, Answer, Goto,
           Inv, TypeOK, StageInv, Task
  <2>3. QED
    BY <2>1, <2>2, NobodyProgresses
<1>6. CASE \/ \E k \in Key : ExpireKey(k)
           \/ \E f \in dedup : ExpireDedup(f)
           \/ UNCHANGED vars
  <2>1. rows' = rows /\ queued' = queued /\ stage' = stage
    BY <1>6 DEF ExpireKey, ExpireDedup, vars
  <2>2. QED
    BY <2>1, NobodyProgresses
<1>7. CASE \E r \in Request : Handle(r) \/ Crash(r)
  <2> PICK r \in Request : Handle(r) \/ Crash(r)
    BY <1>7
  <2>1. CASE Crash(r)
    BY <1>3, <1>4, <2>1
  <2>2. CASE Handle(r)
    <3>1. CASE Commit(r) /\ ~KeyTaken(r)
      BY <1>1, <3>1
    <3>2. CASE Enqueue(r)
      BY <1>2, <3>2
    <3>3. CASE \/ Lookup(r) \/ RegisterDedup(r)
               \/ RegisterKey(r) \/ (Commit(r) /\ KeyTaken(r))
      BY <1>5, <3>3
    <3>4. QED
      BY <2>2, <3>1, <3>2, <3>3 DEF Handle
  <2>3. QED
    BY <2>1, <2>2
<1>8. QED
  BY <1>6, <1>7 DEF Next

(* POST /v1/tasks admits a key, or a request without one, at most once and *)
(* publishes what it admitted at most once, whatever crashes or expires.   *)
THEOREM AdmissionRefines == Spec => AdmitsOnce
<1>1. Init => Once!Init
  BY DEF Init, Once!Init, admission, Committed
<1>2. QED
  BY <1>1, SpecInv, NextAdmits, PTL
  DEF Spec, AdmitsOnce, Once!Spec
=============================================================================
