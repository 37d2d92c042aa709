------------------------------ MODULE Startup ------------------------------
(***************************************************************************)
(* How the tables come to be. Two programs create them, which know nothing *)
(* of each other: the Alembic revisions (alembic/versions), run against    *)
(* the database alembic.ini names, and Base.metadata.create_all, run by    *)
(* the API when it is imported against the one DATABASE_URL names. The     *)
(* API, the worker and beat are started by infra/compose after the         *)
(* migration has exited with success, or by hand in any order.             *)
(*                                                                         *)
(* alembic.ini names a SQLite file. There each CREATE or DROP is permanent *)
(* at once and the version is written at the end of its revision; on       *)
(* Postgres create_all is one transaction.                                 *)
(*                                                                         *)
(* As committed no program loads: each imports, or reads, a name that is   *)
(* defined nowhere. Which of these names there are is part of a deployment.*)
(***************************************************************************)
EXTENDS Naturals, Sequences, FiniteSets, SequencesExt

CONSTANTS
  Deployment,   \* ways to run the program, and which names are defined
  MaxCommands   \* bound: alembic commands run

ASSUME BoundIsNatural == MaxCommands \in Nat

Database == {"file", "postgres"}

(* alembic.ini: sqlalchemy.url, which env.py takes as it is.               *)
migrated == "file"

(* What the programs import from packages.persistence or read from the     *)
(* settings, and the commit does not define.                               *)
Absentees == {"ApiUsageEvent", "PayoutReconciliation", "task_source_mode"}

(* packages/persistence/__init__.py:4, which env.py:8 runs too;            *)
(* celery_app.py:13; main.py:19-33.                                        *)
Needs ==
  [alembic |-> {"ApiUsageEvent"},
   worker  |-> {"ApiUsageEvent", "task_source_mode"},
   api     |-> Absentees]

(* depends_on: migrate, service_completed_successfully; DATABASE_URL.      *)
Compose(D) == [ordered |-> TRUE, service |-> "postgres", defined |-> D]

(* uvicorn and celery started by hand with the URL of .env.example.        *)
Local(D) == [ordered |-> FALSE, service |-> "file", defined |-> D]

ASSUME DeploymentsAreKnown ==
  \A d \in Deployment :
    \E D \in SUBSET Absentees : d = Compose(D) \/ d = Local(D)

Tbl(name, refs, unique) == [name |-> name, refs |-> refs, unique |-> unique]

OfTask(name, unique) == Tbl(name, {"tasks"}, unique)

OfferKeys == {"internal_task_id", "source_name, external_task_id"}

Events == Tbl("system_events", {}, {})

-----------------------------------------------------------------------------

(* Mutant of InitialRevision: no uq_task_attempt.                          *)
InitialWithoutLock ==
  <<Tbl("tasks", {}, {"idempotency_key"}), OfTask("task_attempts", {}),
    OfTask("task_results", {"task_id"}), OfTask("provider_runs", {}),
    OfTask("validation_reports", {}), OfTask("scoring_reports", {}), Events>>

InitialRevision ==
  <<Tbl("tasks", {}, {"idempotency_key"}),
    OfTask("task_attempts", {"task_id, attempt_no"}),
    OfTask("task_results", {"task_id"}),
    OfTask("provider_runs", {}),
    OfTask("validation_reports", {}),
    OfTask("scoring_reports", {}),
    Events>>

SourceRevision ==
  <<OfTask("external_tasks", OfferKeys),
    OfTask("task_economics", {"task_id"})>>

UsageRevision ==
  <<OfTask("api_usage_events", {}),
    Tbl("payout_reconciliations", {}, {"month"})>>

(* Mutant of InitialDrops: in the order of the upgrade.                    *)
InitialDropsAsCreated ==
  [i \in 1..Len(InitialRevision) |-> InitialRevision[i].name]

(* What each downgrade() drops, in its order.                              *)
InitialDrops ==
  <<"system_events", "scoring_reports", "validation_reports", "provider_runs",
    "task_results", "task_attempts", "tasks">>

SourceDrops == <<"task_economics", "external_tasks">>

(* Mutant of UsageDrops: one table is forgotten.                           *)
UsageDropsOne == <<"api_usage_events">>

UsageDrops == <<"payout_reconciliations", "api_usage_events">>

Upgrades == <<InitialRevision, SourceRevision, UsageRevision>>
Downgrades == <<InitialDrops, SourceDrops, UsageDrops>>
HeadRevision == Len(Upgrades)

(* models.py: Base.metadata.                                               *)
Models ==
  {Tbl("tasks", {}, {"idempotency_key"}),
   OfTask("task_attempts", {"task_id, attempt_no"}),
   OfTask("task_results", {"task_id"}),
   OfTask("provider_runs", {}),
   OfTask("validation_reports", {}),
   OfTask("scoring_reports", {}),
   OfTask("external_tasks", OfferKeys),
   OfTask("task_economics", {"task_id"}),
   Events}

-----------------------------------------------------------------------------

VARIABLES
  deployment,
  tables,     \* the tables of each database
  version,    \* alembic_version of the migrated one
  job,        \* the alembic command: what it does, or how the last one ended
  step,       \* the statements it has done in the current revision
  api,        \* the API process
  missing,    \* the tables its create_all has found missing
  worker,     \* the worker and beat
  commands,   \* how many alembic commands were started
  history     \* which of History have happened

vars == <<deployment, tables, version, job, step, api, missing, worker,
          commands, history>>

alembicVars == <<version, job, step, commands>>
serviceVars == <<api, missing, worker>>

service == deployment.service

(* The program gets through its imports.                                   *)
Loads(program) == Needs[program] \subseteq deployment.defined

(* A command killed half-way; tables of the file made by create_all; a     *)
(* downgrade; the API stopped.                                             *)
History == {"cut", "created", "downgraded", "stopped"}

Names(T) == {t.name : t \in T}

Add(db, T) == tables' = [tables EXCEPT ![db] = @ \cup T]

Downgrading == job \in {"downgrade_one", "downgrade_base"}

Running == job = "upgrade" \/ Downgrading

(* A new command: the revision is read from alembic_version.               *)
Command(cmd) ==
  /\ ~Running
  /\ commands < MaxCommands
  /\ commands' = commands + 1
  /\ job' = cmd
  /\ step' = 0

(* alembic upgrade head; in compose, the migrate container. env.py may     *)
(* fail before it has looked at the database.                              *)
Upgrade ==
  /\ Command(IF Loads("alembic") THEN "upgrade" ELSE "unloaded")
  /\ UNCHANGED <<deployment, tables, version, serviceVars, history>>

(* op.create_table, which does not look whether the table is there.        *)
CreateTable ==
  /\ job = "upgrade"
  /\ version < HeadRevision
  /\ step < Len(Upgrades[version + 1])
  /\ LET t == Upgrades[version + 1][step + 1] IN
       IF t.name \in Names(tables[migrated])
       THEN job' = "failed" /\ UNCHANGED <<tables, step>>
       ELSE Add(migrated, {t}) /\ step' = step + 1 /\ UNCHANGED job
  /\ UNCHANGED <<deployment, version, commands, serviceVars, history>>

(* The revision is done: its number replaces the last one.                 *)
Stamp ==
  /\ job = "upgrade"
  /\ version < HeadRevision
  /\ step = Len(Upgrades[version + 1])
  /\ version' = version + 1
  /\ step' = 0
  /\ UNCHANGED <<deployment, tables, job, commands, serviceVars, history>>

Upgraded ==
  /\ job = "upgrade"
  /\ version = HeadRevision
  /\ job' = "ok"
  /\ UNCHANGED <<deployment, tables, version, step, commands, serviceVars,
                 history>>

(* alembic downgrade, by one revision or to the base, by hand: a container *)
(* of its own has an empty file. Where there is a version env.py loads.    *)
Downgrade ==
  /\ ~deployment.ordered
  /\ version > 0
  /\ Command("downgrade_one") \/ Command("downgrade_base")
  /\ history' = history \cup {"downgraded"}
  /\ UNCHANGED <<deployment, tables, version, serviceVars>>

DropTable ==
  /\ Downgrading
  /\ step < Len(Downgrades[version])
  /\ LET name == Downgrades[version][step + 1] IN
       IF name \notin Names(tables[migrated])
       THEN job' = "failed" /\ UNCHANGED <<tables, step>>
       ELSE /\ tables' = [tables EXCEPT ![migrated] = {t \in @ : t.name # name}]
            /\ step' = step + 1
            /\ UNCHANGED job
  /\ UNCHANGED <<deployment, version, commands, serviceVars, history>>

(* Mutant of Downgraded: down_revision names the revision before.          *)
DowngradedTooFar ==
  /\ Downgrading
  /\ step = Len(Downgrades[version])
  /\ version' = version - 2
  /\ job' = "ok"
  /\ UNCHANGED <<deployment, tables, step, commands, serviceVars, history>>

Downgraded ==
  /\ Downgrading
  /\ step = Len(Downgrades[version])
  /\ version' = version - 1
  /\ IF job = "downgrade_base" /\ version > 1
     THEN step' = 0 /\ UNCHANGED job
     ELSE job' = "ok" /\ UNCHANGED step
  /\ UNCHANGED <<deployment, tables, commands, serviceVars, history>>

(* The command is killed between two statements.                           *)
Interrupt ==
  /\ Running
  /\ job' = "killed"
  /\ history' = history \cup {"cut"}
  /\ UNCHANGED <<deployment, tables, version, step, commands, serviceVars>>

-----------------------------------------------------------------------------

(* Mutant of MayStart: wait until the database in use is at the head.      *)
MayStartAtHead ==
  deployment.ordered => service = migrated /\ version = HeadRevision

(* The condition under depends_on.                                         *)
MayStart == deployment.ordered => job = "ok"

(* Mutant of Absent: the schema is created only in an empty database.      *)
AbsentFromEmpty(T) == IF T = {} THEN Models ELSE {}

(* create_all looks for every table before it creates the first.           *)
Absent(T) == {m \in Models : m.name \notin Names(T)}

(* Without the names of its imports the API does not get to create_all.    *)
ImportApi ==
  /\ api = "down"
  /\ MayStart
  /\ Loads("api")
  /\ api' = "importing"
  /\ missing' = Absent(tables[service])
  /\ UNCHANGED <<deployment, tables, alembicVars, worker, history>>

(* create_all sorts the tables by their foreign keys.                      *)
MayCreate(m) == m.refs \cap Names(missing) = {}

(* On the file, table by table; one that has come up in between is an      *)
(* error, and the import fails.                                            *)
CreateMissing(m) ==
  /\ api = "importing"
  /\ service = "file"
  /\ m \in missing
  /\ MayCreate(m)
  /\ IF m.name \in Names(tables[service])
     THEN api' = "down" /\ missing' = {} /\ UNCHANGED <<tables, history>>
     ELSE /\ Add(service, {m})
          /\ missing' = missing \ {m}
          /\ history' = history \cup {"created"}
          /\ UNCHANGED api
  /\ UNCHANGED <<deployment, alembicVars, worker>>

(* On Postgres, all of them in one transaction.                            *)
CreateAllMissing ==
  /\ api = "importing"
  /\ service = "postgres"
  /\ missing # {}
  /\ Add(service, missing)
  /\ missing' = {}
  /\ UNCHANGED <<deployment, alembicVars, api, worker, history>>

ServeApi ==
  /\ api = "importing"
  /\ missing = {}
  /\ api' = "up"
  /\ UNCHANGED <<deployment, tables, alembicVars, missing, worker, history>>

StopApi ==
  /\ api # "down"
  /\ api' = "down"
  /\ missing' = {}
  /\ history' = history \cup {"stopped"}
  /\ UNCHANGED <<deployment, tables, alembicVars, worker>>

StartWorker ==
  /\ worker = "down"
  /\ MayStart
  /\ Loads("worker")
  /\ worker' = "up"
  /\ UNCHANGED <<deployment, tables, alembicVars, api, missing, history>>

StopWorker ==
  /\ worker = "up"
  /\ worker' = "down"
  /\ UNCHANGED <<deployment, tables, alembicVars, api, missing, history>>

(* docker compose down and up: the containers go, and the file of the      *)
(* migrate container with them; the volume of Postgres stays.              *)
Recreate ==
  /\ deployment.ordered
  /\ ~Running
  /\ job # "none"
  /\ commands < MaxCommands
  /\ tables' = [tables EXCEPT ![migrated] = {}]
  /\ version' = 0
  /\ job' = "none"
  /\ step' = 0
  /\ api' = "down"
  /\ missing' = {}
  /\ worker' = "down"
  /\ history' = history \cup {"stopped"}
  /\ UNCHANGED <<deployment, commands>>

-----------------------------------------------------------------------------

Init ==
  /\ deployment \in Deployment
  /\ tables = [db \in Database |-> {}]
  /\ version = 0
  /\ job = "none"
  /\ step = 0
  /\ api = "down"
  /\ missing = {}
  /\ worker = "down"
  /\ commands = 0
  /\ history = {}

AlembicStep ==
  CreateTable \/ Stamp \/ Upgraded \/ DropTable \/ Downgraded

ApiStep ==
  \/ ImportApi
  \/ \E m \in missing : CreateMissing(m)
  \/ CreateAllMissing
  \/ ServeApi

Next ==
  \/ Upgrade \/ Downgrade \/ AlembicStep \/ Interrupt
  \/ ApiStep \/ StopApi
  \/ StartWorker \/ StopWorker
  \/ Recreate

Spec == Init /\ [][Next]_vars

(* docker compose up starts the migration, and what has started goes on.   *)
FairSpec ==
  /\ Spec
  /\ WF_vars(Upgrade)
  /\ WF_vars(AlembicStep)
  /\ WF_vars(ApiStep)

-----------------------------------------------------------------------------

Tables == (UNION {ToSet(Upgrades[k]) : k \in 1..HeadRevision}) \cup Models

TypeOK ==
  /\ deployment \in Deployment
  /\ tables \in [Database -> SUBSET Tables]
  /\ version \in 0..HeadRevision
  /\ job \in {"none", "upgrade", "downgrade_one", "downgrade_base", "ok",
             "failed", "killed", "unloaded"}
  /\ step \in Nat
  /\ api \in {"down", "importing", "up"}
  /\ missing \subseteq Models
  /\ worker \in {"down", "up"}
  /\ commands \in 0..MaxCommands
  /\ history \subseteq History

(* An upgrade or downgrade that cannot go on has met what an interrupted   *)
(* command or the API's create_all left: revisions undo each other.        *)
BlockedOnlyByLeftovers ==
  job = "failed" => history \cap {"cut", "created"} # {}

(* A migrated database has the tables the program maps, with the unique    *)
(* constraints that serve it as locks: the two definitions have not        *)
(* drifted apart.                                                          *)
HeadMatchesModels ==
  version = HeadRevision /\ ~Downgrading /\ "cut" \notin history =>
    Models \subseteq tables[migrated]

(* No table refers to one that is not there, between any two statements of *)
(* a migration or of create_all, and after any interruption; only a        *)
(* downgrade below what a command that was cut, or create_all, has left    *)
(* above can take tasks away under a table it does not know of.            *)
ReferencesResolve ==
  "downgraded" \notin history \/ history \cap {"cut", "created"} = {} =>
    \A db \in Database : \A t \in tables[db] :
      t.refs \subseteq Names(tables[db])

(* An API that answers finds every table it maps, whoever created which of *)
(* them, unless somebody has downgraded.                                   *)
ApiHasTables ==
  api = "up" /\ "downgraded" \notin history =>
    Names(Models) \subseteq Names(tables[service])

(* docker compose up ends with an API that serves, if nothing is killed,   *)
(* once every name is defined that the programs import. While one of them  *)
(* is not, the API never serves; as committed, none is.                    *)
StackStartsOnceComplete ==
  /\ deployment.ordered /\ deployment.defined = Absentees =>
       <>(api = "up" \/ history \cap {"cut", "stopped"} # {})
  /\ deployment.defined # Absentees => [](api = "down")

(* docs/deployment.md:20, API and worker start only after the migration    *)
(* was successful: a worker that runs has a migrated database.             *)
WorkerAfterMigration ==
  worker = "up" => Names(Models) \subseteq Names(tables[service])
=============================================================================
