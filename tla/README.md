# A verification project for Work_AI

Work_AI takes in tasks, runs each through a language-model provider, validates
and scores the answer, stores it, and hands the results of paid tasks back to
the marketplace they came from. These modules model that program in TLA+, check
the models with TLC, and prove the central invariants with TLAPS. Paths below
are relative to the repository, which the project calls `src/`.

1. [Inventory](#inventory)
2. [Modules](#modules)
3. [Runs](#runs)
4. [Fairness](#fairness)
5. [Proofs](#proofs)
6. [Findings](#findings)
7. [What the models leave out](#what-the-models-leave-out)
8. [Plan](#plan)

## Inventory

| component | state it keeps | operations | what is hard about it |
|---|---|---|---|
| admission API, `apps/api/main.py` `create_task`, `packages/cache/idempotency.py` | the `tasks` row; Redis entries `idem:` and `dedup:` with a time to live | look the key up, register the dedup hash, insert and commit (in the inbound mode with a usage and an economics row), register the key, publish | concurrent requests with one key, entries that expire, a crash between commit and publish |
| cancellation, `cancel_task` | `tasks.status` | read, revoke, commit | the status that was tested is stale when it is written |
| worker, `packages/queue/tasks.py` `process_task`, `packages/queue/celery_app.py` | `tasks`, `task_attempts`, `task_results`, `external_tasks`, `task_economics`; the broker's queue and its unacknowledged messages | begin an attempt, execute, merge the result, submit, commit; record a failure; retry; acknowledge | late acknowledgement means redelivery to a second worker; the external call comes before the commit; the session writes only what it saw change |
| ingestion, `ingest_source_tasks`, `packages/economics`, `packages/task_source` | three rows per offer | poll, evaluate, accept at the source, commit, publish | beat polls and manual pulls overlap; accepted offers whose commit fails |
| orchestrator, `packages/orchestrator` | local to one execution | inference with retries, timeouts and pauses; repair; validate; score; decide | the outcome depends on thresholds that penalties meet exactly; timeouts add up |
| validators, `packages/validators` | none | three validators, one decision | rules interact with the repair |
| quality engine, `packages/scoring` | none | score, recommendation | arithmetic at the thresholds |
| contracts, `packages/contracts` | none | policies, statuses, the fingerprint | the fingerprint hashes the fresh task id |
| providers, `packages/providers`, and Celery's limits | none (an HTTP client for each call) | create, generate text or structured output, normalise the reply | four timers, the HTTP client's, the execution timeout, the soft and the hard limit, which one ends a call; a reply of the wrong shape |
| persistence, `packages/persistence` | the schema, with its unique constraints and foreign keys | sessions without autoflush | constraints are the only locks there are |
| migrations and deployment, `alembic`, `infra/compose`, `create_all` in `main.py` | the tables of two databases, `alembic_version` | upgrade, downgrade, `create_all`, start and stop of the services | two definitions of the tables and two programs that create them; DDL that is not rolled back on SQLite |
| economics endpoints, `main.py` `economics_summary`, `get_economics_summary` | none of their own | a SELECT run by a worker, for which the endpoint waits | the endpoint waits for a pool that may be busy |
| telemetry, configuration, `scripts/offline_eval.py`, placeholder packages | none that the others read | | |

How they interact: the API and the ingestion commit rows and then publish a
message per task. A worker takes the message, reads the row, runs the
orchestrator (which calls the provider, the validators and the quality engine),
calls the paid source, and commits all its rows at once. The API's cancel
endpoint writes the row a worker is working on. Nothing but the database's
unique constraints and Redis's `SET NX` synchronises these processes.

What makes each part correct, in the order of importance:

- **Worker.** One run per attempt although a message may be delivered several
  times; an attempt is claimed, reported to the paid source and closed once
  each, in this order; a task left behind is visible; the books agree with each
  other; a verdict stands unless something went wrong; work ends.
- **Admission.** Requests with one key are given one task, through overlap,
  crashes and expiry; a replay names a committed task; a request that loses on
  its key leaves the task of that key; a key is admitted, published and billed
  at most once.
- **Ingestion.** The same per offer; a promise made to the source becomes a
  task, unless a fault hits an offer that beat does not fetch; only a fault
  strands a task.
- **Orchestrator.** Bounded time, no success without content, no success at too
  high a price, no valid answer called a failure, no hopelessly invalid one
  called an abstention.
- **Inference.** Every run ends; whatever the server sends or does not send, the
  run has a result unless a limit of Celery's cut it off.
- **Startup.** No table refers to one that is missing, the revisions and the
  models define the same locks, an API that answers has its tables, and the
  stack comes up once the names its programs import are defined, which as
  committed they are not.

`PROJECT.json` lists the hazards behind these properties, each at its line.

## Modules

```
AdmitOnce                            AttemptLedger      (abstract)
  ^          ^            ^              ^
Admission  Ingest       TaskLifecycle ---+
                           :        :
             TaskOrchestrator    Inference        Startup
        = Validation + QualityEngine
```

`AdmitOnce` is what an admission promises. `Admission` and `Ingest` refine it
with everything their code does; `TaskLifecycle` refines it with the two actions
it abstracts them to, so the worker model assumes no more of an admission than
the detailed models deliver. `AttemptLedger` is what the worker promises of the
numbered attempts of a task, and `TaskLifecycle` refines it too. The dotted lines
are choices in `TaskLifecycle` that other modules open up: the verdict of
`Execute` is `TaskOrchestrator`; that `Raise` or `TransientError` may take its
place is what `Inference` times. `Startup` is how the tables come to be that all
the others take for granted.

### TaskLifecycle

| variable | in the code |
|---|---|
| `status`, `attempts`, `result`, `external`, `economics` | the columns of the five tables that anything reads |
| `submits` | history: calls of `submit_result` per task and attempt |
| `ready`, `attached` | the broker: messages waiting, and deliveries it holds as unacknowledged |
| `admission`, `cancelling` | API and ingestion processes between two of their steps |
| `pc`, `held` | where each pool process is in `process_task`, and with which message |
| `seen`, `outcome`, `answer` | what its ORM session has loaded, and its local variables |
| `losses`, `faults` | how many failures have happened, for the bounds |

An action is one transaction, one external call or one broker operation:
`Begin` is the first transaction, `Prepare` the reload of the expired row,
`Execute` or `Raise` the orchestrator, `MergeResult`, `SubmitResult` and
`LoadEconomics` the reads and the call in between, `Commit` the second
transaction, `RecordFailure` the except clause, `Retry` and `Ack` what Celery
does after it. `ConnectionLost`, `Die` and `ChildKilled` are the ways in which
Celery with `task_acks_late` loses or repeats a delivery, and `TransientError`
is a database error or the soft time limit, at any statement.

Three observations decide the grain.

- `SessionLocal` has `autoflush=False`, so nothing is written before a commit,
  and a commit writes only the columns whose assigned value differs from the
  loaded one. `Flush` says so; with it a stale read has the effect it has in the
  database. (A worker that loaded `failed` and assigns `failed` does not
  overwrite a `succeeded` that was committed in between.)
- In `Begin` and `RecordFailure` the SELECT and the commit are one action: what
  they assign does not depend on the loaded status, and every overlap leaves the
  tables as some serial order does. `CancelRead` and `CancelCommit` are two,
  because the first one decides on what it reads.
- `cancel_task` revokes the row's id, which is not a Celery message id: it
  reaches nobody, and no action models it.

The branch `Task ... not found` is left out of `Begin` because `MessageHasTask`,
proved below, makes it unreachable.

**AttemptLedger** gives each attempt an entry: free, claimed, reported (if it is
a paid one) and closed, or free and failed. The refinement mapping `ledger` reads
the entry off the attempt row and the submissions made so far. A claimed or
reported entry may stay so for good (the process was killed, or the failure could
not be stored), but it never goes back, whichever deliveries follow.

### Admission

One request is one execution of `create_task`, one action per call it makes:
`Lookup`, `RegisterDedup`, `Commit`, `RegisterKey`, `Enqueue`. `Crash` ends it
anywhere, `ExpireKey` and `ExpireDedup` are the time to live. The task has its
request's name, because `uuid4().hex` is fresh. An empty header is falsy, so it
skips Redis, but it is not NULL, so the unique constraint applies to it; the
constant `Blank` is that header. A request can be refused in two ways: by the
dedup entry (`duplicate`, a 409, which names no task and promises none) and by
the unique key (`conflict`, a 500, behind which there is a task). With `rapidapi_inbound` the commit also writes
the `api_usage_events` and the `task_economics` row (`usage`).

### Ingest

A poller is an invocation of `ingest_source_tasks`, from beat or from
`POST /v1/source/pull`. `Select` is the look-up and the evaluation, `Accept` the
call of the source, `Commit` the transaction with its three rows, `Enqueue` the
publication. Losing the race for an offer raises an `IntegrityError`, which ends
the invocation with the rest of its batch. Every invocation builds its own
`MockTaskSource`, which therefore accepts whatever it is asked, and which offers
the first tasks of an unending list, as many as its `limit` says (`Offers`). A
poll of beat has no limit and takes `task_source_poll_batch_size`; a pull names
its own, so it may accept offers that no poll of beat ever fetches. Money is in
micro-dollars, as `round(_, 6)` has it; a tie rounds up, where Python's choice
depends on the float, and the default settings produce no tie.

### TaskOrchestrator, Validation, QualityEngine

`TaskOrchestrator` is `execute`, step by step, with time in milliseconds that
passes in provider calls and pauses. `Validation` holds the validators as
operators on a contract and a payload, and `QualityEngine` the score in units of
1/10000. All weights, penalties and thresholds are whole units, and the one term
that is not, completeness, is rounded down, which never moves a sum across a
whole threshold, so the recommendation is exact. A value is a kind and a size,
which is all the validators look at. `_persist` and `_telemetry` are empty in
the code.

### Inference

One run of `process_task` against four timers. `at` is where it is, `clock` the
time since the pool process took the message and `idle` the time since the HTTP
phase began or a part of the body arrived: httpx starts its timeout anew for each
of them. `Server` is what Ollama may do and need not; `Program` is what happens
of itself. The soft limit is a signal, and the exception it becomes goes wherever
the process is: out of `asyncio.run` (`SoftLimitEscapes`), into the provider's
coroutine, where `_run_with_retry` takes it for a failed call
(`SoftLimitCaught`), or into a callback of the event loop, which logs it
(`SoftLimitLogged`). Bodies are classes of replies, and `NormalizeText` and
`NormalizeStructured` say what becomes of each. Both contracts the program builds
have the default policy, so there is one attempt; retries are in
`TaskOrchestrator`.

### Startup

`tables` holds the tables of two databases: the SQLite file named by
`alembic.ini`, which `env.py` takes as it is, and the one of `DATABASE_URL`. An
Alembic command (`job`) does one statement at a time, `CreateTable` or
`DropTable`, and writes its version at the end of a revision (`Stamp`,
`Downgraded`); `Interrupt` kills it between two statements. `ImportApi` looks for
the missing tables as `create_all` does, and creates them one by one on the file
(`CreateMissing`) or in one transaction on Postgres (`CreateAllMissing`).
A deployment is `Compose(D)`, where the services wait for the migration and use
Postgres, or `Local(D)`, where everything uses the file and starts in any order.
`D` is the set of names defined among those the commit lacks (`Absentees`):
`packages/persistence/__init__.py:4` imports `ApiUsageEvent`, and Alembic runs it
through `env.py:8`; `celery_app.py:13` reads `settings.task_source_mode`;
`main.py:19-23` imports `PayoutReconciliation` besides. `Needs` says which program
needs which, and a program that lacks one does not load: Alembic fails before it
has looked at the database, the worker and the API before they have done
anything. As committed, `D` is empty. The services restart at will, and `Recreate` is `docker compose down` and `up`.
A table is its name, the tables its foreign keys refer to, and its unique
constraints; the revisions and the models are written down separately, as in the
code.

Definitions described as mutants in a comment stand next to the definition they
vary. They are not part of the specification: each is a plausible mistake which
makes a run fail, and so shows that the property is about the code.

## Runs

Run one with `tlc -config <cfg> <module>`.

| run | module, cfg | instance | shows |
|---|---|---|---|
| `redelivery` | MCTaskLifecycle, `TaskLifecycle_redelivery.cfg` | one paid task, 2 workers, 2 retries, 1 loss, 1 fault | `OneRunPerAttempt`, `OneSubmitPerAttempt`, `StuckIsVisible`, `AttemptsInOrder` |
| `two_tasks` | `TaskLifecycle_twotasks.cfg` | a paid and an ordinary task, 2 workers, 1 retry, 1 fault, no loss | `MessageHasTask`, `SoleDelivery`, `BooksAgree`, `StatusMatchesResult`, `VerdictStands` |
| `liveness` | `TaskLifecycle_liveness.cfg` | one paid task, 2 workers, 2 retries, 1 loss | `Drains`, `AdmittedIsBegun` |
| `orchestrator` | MCTaskOrchestrator, `TaskOrchestrator.cfg` | 54 contracts, 40 answers, 5 durations, up to 3 attempts | `ElapsedBounded`, `SuccessIsCheap`, `SuccessHasContent`, `InvalidAbstainsOnlyNearMiss`, `CleanAnswerStands` |
| `admission` | MCAdmission, `Admission.cfg` | two requests with one key and different payloads, two with an empty key, one without | `ConflictIsBacked`, `BilledOnce`, `AnswersAgree`, `ReplayIsBacked`, `RegistersFirst`, `AdmitsOnce` |
| `ingest` | MCIngest, `Ingest.cfg` | two polls of beat with a batch of 2, two pulls with a limit of 3; three offers, the first unprofitable; 2 faults | `OneTaskPerItem`, `StrandedOnlyByFault`, `PromiseKept`, `AdmitsOnce` |
| `startup` | MCStartup, `Startup.cfg` | both deployments with every name defined and with none, and compose with those of the migration and the worker only; 3 Alembic commands, any number of restarts | `BlockedOnlyByLeftovers`, `HeadMatchesModels`, `ReferencesResolve`, `ApiHasTables`, `StackStartsOnceComplete` |
| `inference` | MCInference, `Inference.cfg` | three provider names, with and without a model; the default limits (30, 120, 90 and 120 s) in units of 10 s; 6 signs of life | `LostOnlyByLimit`, `SilenceIsAFailure`, `Ends` |

The type invariants are checked in `redelivery`, `orchestrator`, `admission`,
`ingest`, `startup` and `inference`. Four further runs, named under
[Findings](#findings), are expected to end in a violation.

**Why the bounds are enough to be interesting.** Every bound is a constant, and
each of them counts something the code leaves to its environment.

- `MaxLosses = 1` with two workers is the smallest instance in which one attempt
  is delivered twice and both deliveries run; a second loss adds another copy of
  the same message, which the same insert stops. `MaxFaults = 1` puts an error
  at any one statement of any worker, in every combination with the loss.
  `MaxRetries` is 3 in the code; with 2 there is a first, a middle and a last
  attempt. The safety theorems hold for any values of the three.
- Two requests suffice for a race on a key, and either may come back after the
  cache entry of the other has expired, since crashes and expiry are not bounded.
  The theorems of `AdmissionProofs` hold for any number of requests and keys.
- Four pollers allow one to lose the race while others are ahead and behind it,
  and two pulls to race for the third offer, which beat does not fetch. The
  prices are those of `settings.py` and `mock_source.py`, but for the margin: at
  the default 0.005 USD every offer is profitable, so it is raised to 0.035, which
  the first offer misses and the others clear.
- The answers are every payload over two fields and five kinds of value, and
  some with fields no schema names. The durations fall into all four latency
  classes and past the timeout. `SuccessIsCheap` and its neighbours depend on
  numbers of issues and repairs of up to three, which these reach, a success
  with two repairs included.
- Three commands are the shortest history in which an interrupted upgrade is
  followed by a second command and by a third that meets what both have left;
  one `downgrade base` goes through all three downgrades.
- The soft limit is three HTTP timeouts, so a server must move on at least twice
  for a call to reach it: six signs of life are more than a run needs to reach
  either of Celery's limits, in every phase.

**Symmetry** is used for the workers, in the two `TaskLifecycle` runs that check
no fairness, and for the two requests with an empty header. **Deadlock** is not
checked in `TaskLifecycle`, `Admission`, `TaskOrchestrator`, `Inference` and
`Startup`, where a finite supply of work is used up and the system rests; it is
checked in `Ingest`, which polls for ever.

**What is true only while nothing is redelivered.** `SoleDelivery`, `BooksAgree`,
`StatusMatchesResult` and `VerdictStands` carry `losses = 0` as a premise. Without
it TLC refutes them: after a redelivery two attempts of one task can run side by
side (one worker's insert is refused, so it retries with the next number while
the first still runs), both submit, and the later commit can leave the amount
paid, the external status and the stored result from different attempts. They
are known consequences of a design without a lock on the task, and the
properties state exactly how far the promise goes.

## Fairness

- `TaskLifecycle`: weak fairness of each worker's `Progress` and of `Enqueue`. A
  pool process that is not killed goes on to its next statement, because every
  call it makes is bounded by the execution timeout or by Celery's time limits,
  and a request that has committed goes on to publish. No failure is ever
  required, and nobody is required to create or to cancel a task.
- `Ingest`: weak fairness of an invocation that has started, and of the start of
  the polls of beat, which repeats them at `task_source_poll_interval_seconds`
  for as long as it runs. Nobody is obliged to call `POST /v1/source/pull` again.
  Hence the exception in `PromiseKept`: an offer beyond beat's batch is fetched by
  pulls only, and when a fault ends the one that has accepted it, no later poll
  makes up for it. Without the exception TLC refutes the property.
- `Startup`: `docker compose up` starts the migration, and a command or an
  import that has started goes on. Nothing is stopped, restarted or killed of
  necessity.
- `Inference`: weak fairness of `Program`: timers fire and code runs on. Nothing
  of `Server` is fair: Ollama may fall silent for good.

## Proofs

Every safety property of the passing runs, invariant or action property, and
every refinement is a theorem of one of seven modules, of the form
`Spec => []P` or `Spec => P`, for all values of the constants that satisfy the
assumptions of the modules. Tasks, workers, requests, pollers, offers, contracts,
answers and latencies may be any sets, and the bounds any natural numbers. In the
order of the arguments:

**`TaskLifecycleProofs`.**

- `TypeCorrect`: `TypeOK` is inductive.
- `RunsAreExclusive`, `SubmittedAtMostOnce`: neither property is inductive. The
  invariant `LockInv` says that a worker in the middle of an attempt has the
  attempt row in state `running` (`succeeded` once it has committed) and is the
  only one there (`RunOwnsAttempt`);
  that an attempt without a row was not submitted (`UnclaimedIsUnsubmitted`);
  and that a worker that is still before its call has not submitted either
  (`RunSubmitsLate`). The row is the lock: it is taken by an insert that
  succeeds only once and never given back, which is why a redelivery cannot
  run, or submit, the same attempt.
- `MessagesHaveTasks`, `AdmissionAsPromised`: `RowInv` adds that a row exists
  from the commit of its admission on; rows are never deleted. The steps outside
  an admission leave its variable alone, the others are steps of `AdmitOnce`.
- `AttemptsAsPromised`: the refinement of `AttemptLedger`. Beyond the lock it
  needs `PaidInv`: a paid task with a row has its external row and no other task
  has one (`PaidHasRow`), so the run of a paid attempt never skips the call and
  no other run makes it (`UnpaidIsUnsubmitted`, `PaidRunHasSubmitted`), and an
  answer of the source is held only by a run of a paid task (`AnswerIsForPaid`).
  One lemma for each of the four steps that move an entry.
- `LeftBehindIsVisible`: that some attempt is `running` while the status is
  would break if a commit closed that attempt and left the status alone, as a
  session does that assigns what it has loaded. `StuckInv` names an attempt
  that cannot: its run, if it has got that far, loaded `running` and will assign
  a verdict. A new run takes the role over; a cancel ends it.
- `OnePlaceAtATime`: `SoleInv` says where each task is while nothing is lost:
  nowhere, or, once it is enqueued, in one message or with one worker. One lemma
  for each of the steps that move it (`Enqueue`, `Receive`, `Retry`); a loss ends
  the premise.

**`TaskBooksProofs`**, on top of `TaskLifecycleProofs`.

- `PaidBooksAgree`, `StatusHasItsResult`: a commit writes what its session
  loaded up to seven statements earlier, and only the columns that differ from
  it. The rows agree after the commit only if everything the session loaded is
  still true of them, and the inductive invariant `BooksInv` says so
  (`SessionInv`): the result and the two rows of the paid task are as they were
  loaded, the status is open and was loaded open (a cancel may have written
  `failed` since), the answer of the source belongs to the outcome that was
  submitted. It holds because the task is with one worker (`SoleInv`) and because
  nobody but that worker writes any column but the status, nor any other value
  but `failed`.
- `PositiveVerdictStands`, an action property: `VerdictInv` says that, as long as
  nothing is lost or fails, a task with a positive status is in no message and
  its worker has only to return. What remains is a cancel that read the status
  before.

**`AdmissionProofs`.** The invariant `Inv` adds to `TypeOK` that a request past
its commit has a row, one before it has none, and a published one has been answered
(`StageInv`); that no two rows
have one key (`UniqueKeys`); that a live cache entry names the row of its key
whose request is past the registration (`CacheInv`); and that a reply names a
row of the request's key (`ReplyInv`). `IdempotentAnswers` follows from
`ReplyInv` and `UniqueKeys`, however often the cache forgets;
`RegistrationNeverLoses` from `CacheInv`, because the entry it would lose to
belongs to another row with its key. `ConflictsAreBacked` and `ReplaysAreBacked`
follow from the same parts (a row's request is still on its way, has published
it, or has crashed, by `StageInv`), and `KeysAreBilledOnce` from `UsageInv`: a usage row
has a task row, and every task row has one in the inbound mode, because they
share a transaction. `AdmissionRefines` maps a key to the state
of its one row (`Shape`); the lemmas show that a request's commit creates, its
`Enqueue` publishes, its crash loses, and every other step stutters.

**`IngestProofs`.** `CountInv` counts: an offer has at most one row, at most as
many messages as rows, and a poller that is about to publish is the only one
for its offer and has a row that is not published. `OffersTakenOnce` and
`IngestRefines` follow; `RacesStrandNothing` is an invariant of its own, with
one lemma for each kind of step.

**`TaskOrchestratorProofs`.** About one execution, for any contracts that
`RetryPolicy` and `TimeoutPolicy` admit (`ContractsAreWellFormed`), any finite
answers and any latencies. `ExecutionInv` records what each stage leaves to the
later ones: the time taken so far (`TimeIsAccounted`), that the payload is the
answer with nulls filled in (`PayloadIsRepaired`), that the report is the
validators' verdict on it (`ReportIsOfPayload`), that the score is the sum of
its terms (`ScoreIsTotal`) and the verdict that of the two (`VerdictIsOutcome`).
Beside it stand lemmas about the operators, true of every input:

- of `QualityEngine`, how far each term of the score and each penalty reaches,
  hence what a recommendation says of the penalties (`SuccessCostsLittle`), and
  that a clean answer keeps enough to be no error (`CleanAnswerIsNoFailure`);
- of `Validation`, which issues the decision tolerates, hence what a passing
  answer contains (`SuccessIsTheProviders`) and how many hard and soft issues an
  abstention may have (`AbstentionIsNearMiss`). The reports are sets of issues,
  so the lemmas count them;
- of the pauses: `TimeIsBounded` needs that they double. The lemma goes through
  the 20 attempts that `RetryPolicy` admits one by one, since the prover knows no
  induction for `2^n`.

**`StartupProofs`.** For both deployments, whichever names are defined, and any
number of commands.
`Applied(k, i)` says which statements the version, the command and its step
account for. `StartupInv` relates that to the database: every applied statement's
table is there unless a command was cut (`AppliedIsThere`), and there is nothing
else, and no command has failed, unless one was cut or `create_all` interfered
(`NothingElse`). `RevisionsUndoEachOther` and `MigratedHasModels` follow; the
lemmas `NamesDiffer` and `DropsMirror` say what they need of the eleven tables:
no name is created twice, and each downgrade drops in reverse what its upgrade
created. `NoReferenceDangles` has two premises and so two arguments: undisturbed,
the applied statements include the one for `tasks`, to which all references go;
and while nothing has been downgraded, `tasks` is there whenever anything is
created that refers to it (`TasksFirst`), `create_all` sorting the tables it
found missing. `ServingApiHasTables` rests on `MissingIsKnown`: a model's table
is there or still to be created.

**`InferenceProofs`.** For any limits of which the soft one comes first, as in
`celery_app.py`. `SoftFirst` says that time stops at the soft limit until its
exception has been raised, so `killed` needs one that was lost, and `AnswerFits`
that the normalisation hands over nothing `execute` would choke on;
`ResultUnlessLimit` follows. `SilenceCostsNoResult` adds `Paced`: the clock is at
most one HTTP timeout for each sign of life and the current silence.

Beyond their named assumptions the theorems assume nothing: that of a contract is
what pydantic enforces when it is built, that of an answer holds of every JSON
object, and `DeploymentsAreKnown` lists the two ways to run the program.

**Only model-checked:** the liveness properties (`Drains`, `AdmittedIsBegun`,
`PromiseKept`, `StackStartsOnceComplete`,
`Ends`), which the prover cannot handle under
fairness.

## Findings

Each is the shortest run TLC finds to a statement of the repository that the
code does not keep. `PROJECT.json` quotes the statements.

| run | what happens |
|---|---|
| `failure_metadata` | A run that raises after its first commit inserts a second row with its own attempt number, which `uq_task_attempt` refuses: the failure is never stored and the task stays `running`, even after the last retry. |
| `dedup` | The dedup hash contains the fresh task id, so two requests never collide and the 409 cannot occur. |
| `stranded` | After one failure between commit and publish, every later poll skips the offer because it has a row, and it is never enqueued. |
| `unmigrated` | `alembic.ini` names a SQLite file inside the `migrate` container, so the Postgres database of the services is never migrated: the worker starts without a table until the API's `create_all`. |

**As committed, nothing starts.** Alembic, the API and the worker each import, or
read from the settings, a name that is defined nowhere (the list is under
[Startup](#startup)), so `docker compose up` ends with a failed migration and no
service, although `docs/deployment.md:6-18` says that it runs the full stack.
`Startup` models this, and the second half of `StackStartsOnceComplete` says so:
until all three names are defined the API never serves. The run `unmigrated` is
about the stack with the names in place, and so are the other modules, which
describe the code that would then run. (The two tables those names stand for in
`models.py` are not in `Models`, since nothing says what they are to look like;
with them, `create_all` would create two more tables.)

**The inference timeout.** `docs/execution-flow.md:17` says that a timeout of the
inference leads to a `failed` result. It does where the execution timeout (120 s)
or the HTTP timeout (30 s) is what fires; with the default settings the soft
limit (90 s) comes before the first of them, and a provider that keeps moving on
until then ends in the except clause of `process_task`, with no result. That is
why `LostOnlyByLimit` excepts it, and `SilenceIsAFailure` says what it takes.

Found by reading besides: nothing reads `total_timeout_seconds` or
`queue_timeout_seconds`
(`ElapsedBounded` gives the bound that holds instead). Filled fields that nobody
expects count toward completeness, which is how a success may rest on them
(`SuccessHasContent` says how far). The base URL of Ollama is never passed to the
factory, so the worker of the compose stack looks for it in its own container.
On SQLite an upgrade interrupted inside the second revision and followed by a
downgrade drops `tasks` under a table that refers to it: TLC's counterexample
without the premise of `ReferencesResolve`.
`celery_app.conf.update` overwrites the conditional beat schedule with an
unconditional one. `TASKS_COMPLETED_TOTAL` counts reads of a finished task.
`TaskResult.outcome_from_validation`, which maps a validation error to a failure,
is called by nothing: `_outcome` may abstain on one, and
`InvalidAbstainsOnlyNearMiss` says when.

## What the models leave out

- Time, apart from `TaskOrchestrator` and `Inference`: an expiry, a redelivery,
  a retry's pause may come at any moment.
- Data the properties do not tell apart: payload, score, confidence, messages,
  timestamps. A submitted amount is `base` or `zero`.
- The order of the INSERTs of one flush among tables without a `relationship()`;
  a foreign key that fails there is `Fail` in `Ingest` and `Crash` in `Admission`.
- `POST /v1/debug/sync`, which runs the orchestrator inside the API process, on
  the contract of the request with any policy it names: one execution of
  `TaskOrchestrator`, which holds for every policy, and which writes nothing and
  is under none of Celery's limits. `POST /v1/debug/contract-validation` only
  builds a contract.
- The connection pool: `ingest_source_tasks` leaves its session open when it
  raises.
- A reused key with another payload: `create_task` does not compare payloads
  and nothing says that it does; `replayed` answers carry the first task.
- Malformed constraints (a pair that is not a pair, a limit that is no number),
  which raise; that is `Raise` in `TaskLifecycle`. `Validation` takes lists of
  fields to hold no duplicates.
- Pydantic's field validation, metrics, logging and the values of the
  configuration, except the limits and URLs above. The header check of the
  inbound mode (401) comes before anything `Admission` models.
- Indexes, and the columns of a table other than keys.
- `get_economics_summary`, a SELECT, and the 20 s for which `economics_summary`
  waits until a worker has run it: the result backend is not modelled.
  `payout_reconciliations` is written by no code.
- The providers' `healthcheck` and `model_info`, which nothing calls.
- `scripts/offline_eval.py`, a sequential script around the orchestrator, and the
  placeholder packages.

## Plan

The order so far was by importance: the worker with its broker, the orchestrator
it runs, the two ways in with their abstract specification; then the attempts as
a ledger, the usage rows, the clocks of an inference, and the start of the stack.
What is left:

1. **Proofs**: every safety property a run checks is proved. Next is what none
   states yet: that the verdicts `Execute` of `TaskLifecycle` chooses from are
   those of `TaskOrchestrator`, and that the operators of `Ingest` that decide on
   a margin are monotonic in what is offered.
2. **Economics summary**: the endpoint, the result backend and a pool that
   `process_task` may occupy for longer than the endpoint waits.
