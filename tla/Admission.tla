----------------------------- MODULE Admission -----------------------------
(***************************************************************************)
(* POST /v1/tasks (apps/api/main.py, create_task) as several API processes *)
(* run it at once: the idempotency and dedup entries in Redis              *)
(* (packages/cache/idempotency.py), which expire, the row in the database, *)
(* whose idempotency_key is unique and stays, and the Celery message.      *)
(*                                                                         *)
(* A request is one execution of the handler; a client that tries again is *)
(* another request with the same key. The task a request creates carries   *)
(* the request's name: uuid4().hex is fresh.                               *)
(***************************************************************************)
EXTENDS Naturals

CONSTANTS
  Request,
  Key,       \* values of the Idempotency-Key header
  Blank,     \* the empty header, which is falsy
  NoKey,     \* no header
  Payload,   \* what a contract holds besides the task_id
  idempotency_key,   \* the key of each request
  payload,           \* the payload of each request
  NoTask,
  rapidapi_inbound   \* task_source_mode == "rapidapi_inbound"

ASSUME Assumptions ==
  /\ idempotency_key \in [Request -> Key \cup {NoKey}]
  /\ payload \in [Request -> Payload]
  /\ NoKey \notin Key
  /\ Key \cap Request = {}
  /\ NoTask \notin Request
  /\ rapidapi_inbound \in BOOLEAN

VARIABLES
  stage,    \* where each request is in the handler
  reply,    \* what it was answered
  idem,     \* Redis: the task of each live idem: entry
  dedup,    \* Redis: the live dedup: entries
  rows,     \* the committed tasks
  usage,    \* the tasks with an api_usage_events and a task_economics row
  queued    \* the tasks process_task.delay was called for

vars == <<stage, reply, idem, dedup, rows, usage, queued>>

Task == Request
Reply == [kind : {"none", "created", "replayed", "duplicate", "conflict",
                  "error"},
          task : Task \cup {NoTask}]
Unanswered == [kind |-> "none", task |-> NoTask]

(* if idempotency_key:                                                     *)
Keyed(r) == idempotency_key[r] \notin {NoKey, Blank}

(* TaskContract.fingerprint hashes the whole contract, task_id included.   *)
fingerprint(r) == <<r, payload[r]>>

Goto(r, s) == stage' = [stage EXCEPT ![r] = s]

Answer(r, kind, t) ==
  /\ reply' = [reply EXCEPT ![r] = [kind |-> kind, task |-> t]]
  /\ Goto(r, "done")

-----------------------------------------------------------------------------

(* Mutant of Lookup: the key is claimed where it is looked up.             *)
LookupAndClaim(r) ==
  /\ stage[r] = "lookup"
  /\ IF Keyed(r) /\ idem[idempotency_key[r]] # NoTask
     THEN Answer(r, "replayed", idem[idempotency_key[r]]) /\ UNCHANGED idem
     ELSE /\ Goto(r, "dedup")
          /\ UNCHANGED reply
          /\ idem' = IF Keyed(r) THEN [idem EXCEPT ![idempotency_key[r]] = r]
                                 ELSE idem
  /\ UNCHANGED <<dedup, rows, usage, queued>>

(* get_task_for_idempotency: a live entry is the answer.                   *)
Lookup(r) ==
  /\ stage[r] = "lookup"
  /\ IF Keyed(r) /\ idem[idempotency_key[r]] # NoTask
     THEN Answer(r, "replayed", idem[idempotency_key[r]])
     ELSE Goto(r, "dedup") /\ UNCHANGED reply
  /\ UNCHANGED <<idem, dedup, rows, usage, queued>>

(* register_dedup: SET NX; 409 when the entry is there.                    *)
RegisterDedup(r) ==
  /\ stage[r] = "dedup"
  /\ IF fingerprint(r) \in dedup
     THEN Answer(r, "duplicate", NoTask)
     ELSE Goto(r, "commit") /\ UNCHANGED reply
  /\ dedup' = dedup \cup {fingerprint(r)}
  /\ UNCHANGED <<idem, rows, usage, queued>>

(* Mutant of KeyTaken: no unique constraint.                               *)
NeverTaken(r) == FALSE

(* Mutant of KeyTaken: a missing header is stored as an empty one.         *)
AbsentIsBlank(r) ==
  LET stored(q) ==
        IF idempotency_key[q] = NoKey THEN Blank ELSE idempotency_key[q]
  IN  \E t \in rows : stored(t) = stored(r)

(* tasks.idempotency_key is unique; NULL is not, the empty string is.      *)
KeyTaken(r) ==
  /\ idempotency_key[r] # NoKey
  /\ \E t \in rows : idempotency_key[t] = idempotency_key[r]

(* _register_rapidapi_usage: in the inbound mode a request has its price.  *)
Billed(r) == IF rapidapi_inbound THEN {r} ELSE {}

(* Mutant of Commit: the usage has a transaction of its own.               *)
CommitUsageFirst(r) ==
  /\ stage[r] = "commit"
  /\ IF KeyTaken(r)
     THEN Answer(r, "conflict", NoTask) /\ UNCHANGED rows
     ELSE /\ Goto(r, "register")
          /\ rows' = rows \cup {r}
          /\ UNCHANGED reply
  /\ usage' = usage \cup Billed(r)
  /\ UNCHANGED <<idem, dedup, queued>>

(* The rows are inserted and committed, or the IntegrityError is a 500.    *)
Commit(r) ==
  /\ stage[r] = "commit"
  /\ IF KeyTaken(r)
     THEN Answer(r, "conflict", NoTask) /\ UNCHANGED <<rows, usage>>
     ELSE /\ Goto(r, "register")
          /\ rows' = rows \cup {r}
          /\ usage' = usage \cup Billed(r)
          /\ UNCHANGED reply
  /\ UNCHANGED <<idem, dedup, queued>>

(* Mutant of RegisterKey: a keyed request is answered before delay.        *)
RegisterKeyAndAnswer(r) ==
  /\ stage[r] = "register"
  /\ IF Keyed(r)
     THEN /\ idem' = [idem EXCEPT ![idempotency_key[r]] = r]
          /\ Answer(r, "created", r)
     ELSE Goto(r, "enqueue") /\ UNCHANGED <<idem, reply>>
  /\ UNCHANGED <<dedup, rows, usage, queued>>

(* register_idempotency: SET NX, whose result is ignored.                  *)
RegisterKey(r) ==
  /\ stage[r] = "register"
  /\ idem' = IF Keyed(r) /\ idem[idempotency_key[r]] = NoTask
             THEN [idem EXCEPT ![idempotency_key[r]] = r]
             ELSE idem
  /\ Goto(r, "enqueue")
  /\ UNCHANGED <<reply, dedup, rows, usage, queued>>

(* Mutant of Enqueue: the message is published before the commit.          *)
EnqueueBeforeCommit(r) ==
  /\ stage[r] = "commit"
  /\ queued' = queued \cup {r}
  /\ Answer(r, "created", r)
  /\ UNCHANGED <<idem, dedup, rows, usage>>

(* process_task.delay(task_id), then 202.                                  *)
Enqueue(r) ==
  /\ stage[r] = "enqueue"
  /\ queued' = queued \cup {r}
  /\ Answer(r, "created", r)
  /\ UNCHANGED <<idem, dedup, rows, usage>>

(* Redis, the database or the broker fails, or the process dies: the       *)
(* request ends where it is and what it has written stays.                 *)
Crash(r) ==
  /\ stage[r] # "done"
  /\ Answer(r, "error", NoTask)
  /\ UNCHANGED <<idem, dedup, rows, usage, queued>>

(* idempotency_ttl_seconds and dedup_ttl_seconds are over.                 *)
ExpireKey(k) ==
  /\ idem[k] # NoTask
  /\ idem' = [idem EXCEPT ![k] = NoTask]
  /\ UNCHANGED <<stage, reply, dedup, rows, usage, queued>>

ExpireDedup(f) ==
  /\ f \in dedup
  /\ dedup' = dedup \ {f}
  /\ UNCHANGED <<stage, reply, idem, rows, usage, queued>>

-----------------------------------------------------------------------------

Init ==
  /\ stage = [r \in Request |-> "lookup"]
  /\ reply = [r \in Request |-> Unanswered]
  /\ idem = [k \in Key |-> NoTask]
  /\ dedup = {}
  /\ rows = {}
  /\ usage = {}
  /\ queued = {}

Handle(r) ==
  Lookup(r) \/ RegisterDedup(r) \/ Commit(r) \/ RegisterKey(r) \/ Enqueue(r)

Next ==
  \/ \E r \in Request : Handle(r) \/ Crash(r)
  \/ \E k \in Key : ExpireKey(k)
  \/ \E f \in dedup : ExpireDedup(f)

Spec == Init /\ [][Next]_vars

-----------------------------------------------------------------------------

TypeOK ==
  /\ stage \in [Request -> {"lookup", "dedup", "commit", "register", "enqueue",
                            "done"}]
  /\ reply \in [Request -> Reply]
  /\ idem \in [Key -> Task \cup {NoTask}]
  /\ dedup \subseteq {fingerprint(r) : r \in Request}
  /\ rows \subseteq Task
  /\ usage \subseteq Task
  /\ queued \subseteq rows

SameKey(r, s) ==
  idempotency_key[r] # NoKey /\ idempotency_key[r] = idempotency_key[s]

(* However requests with one key overlap, and long after the cache forgot  *)
(* the key, every one that is given a task is given the same one.          *)
AnswersAgree ==
  \A r, s \in Request :
    SameKey(r, s) /\ reply[r].task # NoTask /\ reply[s].task # NoTask =>
      reply[r].task = reply[s].task

(* SET NX finds the key free whenever create_task gets to it, which is why *)
(* it may ignore the result: losers of the race end at the commit.         *)
RegistersFirst ==
  \A r \in Request : stage[r] = "register" /\ Keyed(r) =>
    idem[idempotency_key[r]] = NoTask

(* A request that ends in the conflict of its key, a 500, is not lost: the *)
(* task of that key is committed, and published, or the request it belongs *)
(* to is on its way there, or has crashed.                                 *)
ConflictIsBacked ==
  \A r \in Request : reply[r].kind = "conflict" =>
    \E t \in rows :
      /\ SameKey(t, r)
      /\ \/ t \in queued
         \/ stage[t] \in {"register", "enqueue"}
         \/ reply[t].kind = "error"

(* Trying again costs nothing: of the requests with one key at most one is *)
(* billed, every task that was admitted is, and nobody is for an answer    *)
(* that names another's task, or none.                                     *)
BilledOnce ==
  /\ \A r, s \in usage : SameKey(r, s) => r = s
  /\ rapidapi_inbound => rows \subseteq usage
  /\ \A r \in usage : reply[r].kind \notin {"replayed", "duplicate", "conflict"}

(* A replayed answer names a task the client can ask for: it is committed, *)
(* was created for the same key, and is queued as the answer says, or is   *)
(* being published by the request that created it, or that has crashed.    *)
ReplayIsBacked ==
  \A r \in Request : reply[r].kind = "replayed" =>
    LET t == reply[r].task IN
    /\ t \in rows
    /\ SameKey(t, r)
    /\ t \in queued \/ stage[t] = "enqueue" \/ reply[t].kind = "error"

(* A key, or a request without one, is admitted at most once.              *)
subject(r) == IF idempotency_key[r] = NoKey THEN r ELSE idempotency_key[r]

Subjects == {subject(r) : r \in Request}

Committed(s) == {t \in rows : subject(t) = s}

admission ==
  [s \in Subjects |->
     LET own == Committed(s) IN
     CASE own = {} -> "new"
       [] own \cap queued # {} -> "enqueued"
       [] /\ own \cap queued = {}
          /\ \E t \in own : stage[t] \in {"register", "enqueue"}
            -> "committed"
       [] OTHER -> "lost"]

Once == INSTANCE AdmitOnce WITH Subject <- Subjects

AdmitsOnce == Once!Spec

(* main.py:183, "Duplicate task payload in TTL window": while the dedup    *)
(* entry of a payload is live, no other request with it gets past it.      *)
DuplicateRefused ==
  \A r, s \in Request :
    fingerprint(r) \in dedup /\ fingerprint(s) \in dedup
      /\ payload[r] = payload[s] => r = s
=============================================================================
