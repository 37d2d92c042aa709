--------------------------- MODULE StartupProofs ---------------------------
(* How the tables come to be, for any number of commands: what Alembic and  *)
(* create_all have done to the two databases is told by the version, the    *)
(* statement the command is at, and what has ever interfered.               *)
EXTENDS Startup, TLAPS

(* A statement of a revision, as a position in Upgrades.                    *)
Slot(k, i) == k \in 1 .. HeadRevision /\ i \in 1 .. Len(Upgrades[k])

(* What the version and the statements done make of it: the upgrade goes up *)
(* through the revision after the version, the downgrade goes down through  *)
(* the revision of the version, and a command that has ended leaves what    *)
(* the version says.                                                        *)
Applied(k, i) ==
  \/ ~Downgrading /\ k <= version
  \/ job = "upgrade" /\ k = version + 1 /\ i <= step
  \/ Downgrading /\ k < version
  \/ Downgrading /\ k = version /\ i <= Len(Upgrades[k]) - step

Resolved(db) == \A t \in tables[db] : t.refs \subseteq Names(tables[db])

Uncut == "cut" \notin history
Undisturbed == history \cap {"cut", "created"} = {}
Undowngraded == "downgraded" \notin history

StatementInv ==
  /\ job = "upgrade" /\ version < HeadRevision =>
       step <= Len(Upgrades[version + 1])
  /\ Downgrading => /\ version >= 1
                    /\ step <= Len(Upgrades[version])
                    /\ ~Undowngraded

(* Only by hand can a downgrade be run, and only with compose is Postgres   *)
(* used.                                                                    *)
DeploymentInv ==
  /\ deployment.ordered => Undowngraded
  /\ ~deployment.ordered => tables["postgres"] = {}

(* An interrupted command is the only thing that can take a table away from *)
(* a revision that is thought to be applied.                                *)
AppliedIsThere ==
  Uncut => \A k, i \in Nat :
             Slot(k, i) /\ Applied(k, i) => Upgrades[k][i] \in tables[migrated]

NothingElse ==
  Undisturbed =>
    /\ job # "failed"
    /\ \A t \in tables[migrated] : \E k, i \in Nat :
         Slot(k, i) /\ Applied(k, i) /\ t = Upgrades[k][i]

(* What create_all has looked for is there or still to be created.          *)
MissingIsKnown ==
  /\ api = "up" => missing = {}
  /\ api # "down" /\ Undowngraded =>
       \A m \in Models : m \in missing \/ m.name \in Names(tables[service])

(* The table that the others refer to comes first.                          *)
TasksFirst ==
  Undowngraded =>
    /\ version >= 1 \/ (job = "upgrade" /\ step >= 1) =>
         "tasks" \in Names(tables[migrated])
    /\ \A db \in Database : Resolved(db)

StartupInv ==
  /\ TypeOK
  /\ StatementInv
  /\ DeploymentInv
  /\ AppliedIsThere
  /\ NothingElse
  /\ MissingIsKnown
  /\ TasksFirst

-----------------------------------------------------------------------------
(* The revisions as they stand.                                             *)

USE DEF migrated

LEMMA RevisionLengths ==
  /\ HeadRevision = 3
  /\ Len(Upgrades[1]) = 7 /\ Len(Upgrades[2]) = 2 /\ Len(Upgrades[3]) = 2
  /\ Len(Downgrades[1]) = 7 /\ Len(Downgrades[2]) = 2 /\ Len(Downgrades[3]) = 2
  BY DEF HeadRevision, Upgrades, Downgrades, InitialRevision, SourceRevision,
     UsageRevision, InitialDrops, SourceDrops, UsageDrops

LEMMA RevisionsAreOneLong ==
  \A k \in 1 .. HeadRevision :
    /\ Len(Upgrades[k]) \in Nat \ {0}
    /\ Len(Downgrades[k]) = Len(Upgrades[k])
<1> SUFFICES ASSUME NEW k \in 1 .. HeadRevision
             PROVE  /\ Len(Upgrades[k]) \in Nat \ {0}
                    /\ Len(Downgrades[k]) = Len(Upgrades[k])
  OBVIOUS
<1>1. CASE k = 1
  BY <1>1, RevisionLengths
<1>2. CASE k = 2
  BY <1>2, RevisionLengths
<1>3. CASE k = 3
  BY <1>3, RevisionLengths
<1> QED
  BY <1>1, <1>2, <1>3, RevisionLengths

LEMMA SlotCases ==
  ASSUME NEW k \in Nat, NEW i \in Nat, Slot(k, i)
  PROVE  \/ k = 1 /\ (i = 1 \/ i = 2 \/ i = 3 \/ i = 4 \/ i = 5 \/ i = 6
                      \/ i = 7)
         \/ k = 2 /\ (i = 1 \/ i = 2)
         \/ k = 3 /\ (i = 1 \/ i = 2)
<1> DEFINE n == Len(Upgrades[k])
<1>1. i \in 1 .. n
  BY DEF Slot
<1>2. k = 1 \/ k = 2 \/ k = 3
  BY RevisionLengths DEF Slot
<1>3. /\ k = 1 => n = 7
      /\ k = 2 => n = 2
      /\ k = 3 => n = 2
  BY Zenon, RevisionLengths
<1> HIDE DEF n
<1> QED
  BY <1>1, <1>2, <1>3

LEMMA InitialTables ==
  /\ Upgrades[1][1].name = "tasks"
  /\ Upgrades[1][2].name = "task_attempts"
  /\ Upgrades[1][3].name = "task_results"
  /\ Upgrades[1][4].name = "provider_runs"
  /\ Upgrades[1][5].name = "validation_reports"
  /\ Upgrades[1][6].name = "scoring_reports"
  /\ Upgrades[1][7].name = "system_events"
  BY DEF Upgrades, InitialRevision, Tbl, OfTask, Events

LEMMA LaterTables ==
  /\ Upgrades[2][1].name = "external_tasks"
  /\ Upgrades[2][2].name = "task_economics"
  /\ Upgrades[3][1].name = "api_usage_events"
  /\ Upgrades[3][2].name = "payout_reconciliations"
  BY DEF Upgrades, SourceRevision, UsageRevision, Tbl, OfTask

(* No two statements create a table of one name.                            *)
LEMMA NamesDiffer ==
  ASSUME NEW k \in Nat, NEW i \in Nat, Slot(k, i),
         NEW l \in Nat, NEW j \in Nat, Slot(l, j),
         Upgrades[k][i].name = Upgrades[l][j].name
  PROVE  k = l /\ i = j
  BY SlotCases, InitialTables, LaterTables

(* A downgrade drops what its upgrade creates, the last first.              *)
LEMMA DropsMirror ==
  ASSUME NEW k \in Nat, NEW i \in Nat, Slot(k, i)
  PROVE  Downgrades[k][Len(Upgrades[k]) + 1 - i] = Upgrades[k][i].name
<1>1. /\ Downgrades[1][7] = "tasks"
      /\ Downgrades[1][6] = "task_attempts"
      /\ Downgrades[1][5] = "task_results"
      /\ Downgrades[1][4] = "provider_runs"
      /\ Downgrades[1][3] = "validation_reports"
      /\ Downgrades[1][2] = "scoring_reports"
      /\ Downgrades[1][1] = "system_events"
  BY DEF Downgrades, InitialDrops
<1>2. /\ Downgrades[2][2] = "external_tasks"
      /\ Downgrades[2][1] = "task_economics"
      /\ Downgrades[3][2] = "api_usage_events"
      /\ Downgrades[3][1] = "payout_reconciliations"
  BY DEF Downgrades, SourceDrops, UsageDrops
<1>3. CASE k = 1
  <2> DEFINE at(n) == Downgrades[1][n]
             name(n) == Upgrades[1][n].name
  <2>1. at(7) = name(1) /\ at(6) = name(2) /\ at(5) = name(3) /\ at(4) = name(4)
        /\ at(3) = name(5) /\ at(2) = name(6) /\ at(1) = name(7)
    BY <1>1, InitialTables
  <2> HIDE DEF at, name
  <2>2. at(8 - i) = name(i)
    BY <1>3, <2>1, SlotCases
  <2> QED
    BY <1>3, <2>2, RevisionLengths DEF at, name
<1>4. CASE k = 2
  BY <1>2, <1>4, SlotCases, LaterTables, RevisionLengths
<1>5. CASE k = 3
  BY <1>2, <1>5, SlotCases, LaterTables, RevisionLengths
<1> QED
  BY <1>3, <1>4, <1>5, SlotCases

(* Only tasks is referred to, and it is the first table of all.             *)
LEMMA SlotReferences ==
  /\ Slot(1, 1)
  /\ Upgrades[1][1].refs = {}
  /\ \A k, i \in Nat : Slot(k, i) => Upgrades[k][i].refs \subseteq {"tasks"}
<1>1. Slot(1, 1) /\ Upgrades[1][1].refs = {}
  BY RevisionLengths DEF Slot, Upgrades, InitialRevision, Tbl
<1>2. /\ Upgrades[1][2].refs \subseteq {"tasks"}
      /\ Upgrades[1][3].refs \subseteq {"tasks"}
      /\ Upgrades[1][4].refs \subseteq {"tasks"}
      /\ Upgrades[1][5].refs \subseteq {"tasks"}
      /\ Upgrades[1][6].refs \subseteq {"tasks"}
      /\ Upgrades[1][7].refs \subseteq {"tasks"}
  BY DEF Upgrades, InitialRevision, Tbl, OfTask, Events
<1>3. \A i \in {1, 2} : /\ Upgrades[2][i].refs \subseteq {"tasks"}
                        /\ Upgrades[3][i].refs \subseteq {"tasks"}
  BY DEF Upgrades, SourceRevision, UsageRevision, Tbl, OfTask
<1> QED
  BY <1>1, <1>2, <1>3, SlotCases

(* The models are those of the first two revisions.                         *)
LEMMA ModelsAreMigrated ==
  \A m \in Models : \E k, i \in Nat : Slot(k, i) /\ m = Upgrades[k][i]
<1>1. Models \subseteq {Upgrades[1][1], Upgrades[1][2], Upgrades[1][3],
                        Upgrades[1][4], Upgrades[1][5], Upgrades[1][6],
                        Upgrades[1][7], Upgrades[2][1], Upgrades[2][2]}
  BY DEF Models, Upgrades, InitialRevision, SourceRevision
<1>2. \A i \in {1, 2, 3, 4, 5, 6, 7} : Slot(1, i)
  BY RevisionLengths DEF Slot
<1>3. \A i \in {1, 2} : Slot(2, i)
  BY RevisionLengths DEF Slot
<1> QED
  BY <1>1, <1>2, <1>3

LEMMA TasksIsAModel ==
  Upgrades[1][1] \in Models
  BY DEF Models, Upgrades, InitialRevision

LEMMA RevisionDomains ==
  \A k \in 1 .. HeadRevision : DOMAIN Upgrades[k] = 1 .. Len(Upgrades[k])
<1>1. /\ DOMAIN Upgrades[1] = 1 .. Len(Upgrades[1])
      /\ DOMAIN Upgrades[2] = 1 .. Len(Upgrades[2])
      /\ DOMAIN Upgrades[3] = 1 .. Len(Upgrades[3])
  BY DEF Upgrades, InitialRevision, SourceRevision, UsageRevision
<1>2. HeadRevision = 3
  BY RevisionLengths
<1> QED
  BY <1>1, <1>2

LEMMA SlotsAreTables ==
  /\ Models \subseteq Tables
  /\ \A k, i \in Nat : Slot(k, i) => Upgrades[k][i] \in Tables
<1>1. ASSUME NEW k \in Nat, NEW i \in Nat, Slot(k, i)
      PROVE  Upgrades[k][i] \in Tables
  <2>1. Upgrades[k][i] \in ToSet(Upgrades[k])
    BY <1>1, RevisionDomains, Zenon DEF Slot, ToSet
  <2> QED
    BY <1>1, <2>1, Zenon DEF Tables, Slot
<1>2. Models \subseteq Tables
  BY Zenon DEF Tables
<1> QED
  BY <1>1, <1>2

LEMMA TablesAreSlots ==
  \A t \in Tables : \E k, i \in Nat : Slot(k, i) /\ t = Upgrades[k][i]
<1>1. SUFFICES ASSUME NEW t \in Tables, t \notin Models
               PROVE  \E k, i \in Nat : Slot(k, i) /\ t = Upgrades[k][i]
  BY ModelsAreMigrated
<1>2. PICK k \in 1 .. HeadRevision : t \in ToSet(Upgrades[k])
  BY <1>1, Zenon DEF Tables
<1>3. PICK i \in DOMAIN Upgrades[k] : t = Upgrades[k][i]
  BY <1>2, Zenon DEF ToSet
<1>4. i \in 1 .. Len(Upgrades[k])
  BY <1>3, RevisionDomains
<1>5. k \in Nat /\ i \in Nat
  BY <1>4, RevisionLengths, RevisionsAreOneLong
<1> QED
  BY <1>3, <1>4, <1>5 DEF Slot

(* A table is known by its name.                                            *)
LEMMA TablesByName ==
  ASSUME NEW t \in Tables, NEW u \in Tables, t.name = u.name
  PROVE  t = u
  BY TablesAreSlots, NamesDiffer

LEMMA TableReferences ==
  /\ Upgrades[1][1] \in Tables
  /\ Upgrades[1][1].name = "tasks"
  /\ \A t \in Tables : /\ t.refs \subseteq {"tasks"}
                       /\ t.name = "tasks" => t.refs = {}
<1>1. Upgrades[1][1] \in Tables /\ Upgrades[1][1].name = "tasks"
  BY SlotsAreTables, SlotReferences, InitialTables
<1>2. \A t \in Tables : t.refs \subseteq {"tasks"}
  BY TablesAreSlots, SlotReferences
<1>3. \A t \in Tables : t.name = "tasks" => t.refs = {}
  BY <1>1, TablesByName, SlotReferences
<1> QED
  BY <1>1, <1>2, <1>3

(* Every table that a database can have refers to a table it has, or        *)
(* refers to none, as soon as it has tasks.                                 *)
LEMMA ResolvedByTasks ==
  ASSUME NEW T \in SUBSET Tables,
         NEW t \in T,
         "tasks" \in Names(T)
  PROVE  t.refs \subseteq Names(T)
  BY TableReferences

LEMMA NameIsThere ==
  ASSUME NEW T, NEW t \in T
  PROVE  t.name \in Names(T)
  BY DEF Names

LEMMA NamesGrow ==
  ASSUME NEW S, NEW T, S \subseteq T
  PROVE  Names(S) \subseteq Names(T)
  BY DEF Names

LEMMA TheDeployments ==
  ASSUME NEW d \in Deployment
  PROVE  \/ d.ordered /\ d.service = "postgres"
         \/ ~d.ordered /\ d.service = "file"
<1>1. PICK D \in SUBSET Absentees : d = Compose(D) \/ d = Local(D)
  BY DeploymentsAreKnown
<1>2. d = Compose(D) => d.ordered = TRUE /\ d.service = "postgres"
  BY DEF Compose
<1>3. d = Local(D) => d.ordered = FALSE /\ d.service = "file"
  BY DEF Local
<1> QED
  BY <1>1, <1>2, <1>3

LEMMA ServiceIsADatabase ==
  ASSUME TypeOK
  PROVE  /\ \/ deployment.ordered /\ service = "postgres"
            \/ ~deployment.ordered /\ service = "file"
         /\ service \in Database
         /\ migrated \in Database
  BY TheDeployments DEF TypeOK, service, Database

-----------------------------------------------------------------------------
(* Type correctness.                                                        *)

LEMMA InitTypes ==
  Init => TypeOK
  BY BoundIsNatural, RevisionLengths DEF Init, TypeOK, Database, History

(* The next statement of an upgrade, and of a downgrade.                    *)
LEMMA NextSlot ==
  ASSUME TypeOK, StatementInv, version < HeadRevision,
         step < Len(Upgrades[version + 1])
  PROVE  /\ version + 1 \in Nat
         /\ step + 1 \in Nat
         /\ Slot(version + 1, step + 1)
  BY RevisionLengths, RevisionsAreOneLong DEF TypeOK, StatementInv, Slot

LEMMA LastSlot ==
  ASSUME TypeOK, StatementInv, Downgrading, step < Len(Downgrades[version])
  PROVE  /\ version \in 1 .. HeadRevision
         /\ Len(Upgrades[version]) - step \in Nat
         /\ Slot(version, Len(Upgrades[version]) - step)
         /\ Downgrades[version][step + 1] =
              Upgrades[version][Len(Upgrades[version]) - step].name
<1> DEFINE n == Len(Upgrades[version])
<1>1. version \in 1 .. HeadRevision
  BY RevisionLengths DEF TypeOK, StatementInv
<1>2. n \in Nat /\ step < n /\ step \in Nat
  BY <1>1, RevisionsAreOneLong DEF TypeOK
<1>3. n - step \in Nat /\ n - step \in 1 .. n /\ n + 1 - (n - step) = step + 1
  BY <1>2
<1>4. Slot(version, n - step)
  BY <1>1, <1>3 DEF Slot
<1>5. version \in Nat
  BY <1>1, RevisionLengths
<1>6. Downgrades[version][n + 1 - (n - step)] = Upgrades[version][n - step].name
  BY <1>3, <1>4, <1>5, DropsMirror, Zenon
<1> QED
  BY <1>1, <1>3, <1>4, <1>6

LEMMA CreateTableTyped ==
  ASSUME TypeOK, StatementInv, CreateTable
  PROVE  tables' \in [Database -> SUBSET Tables] /\ step' \in Nat
<1> DEFINE t == Upgrades[version + 1][step + 1]
<1>1. t \in Tables
  BY NextSlot, SlotsAreTables DEF CreateTable
<1> HIDE DEF t
<1>2. \/ UNCHANGED <<tables, step>>
      \/ tables' = [tables EXCEPT !["file"] = @ \cup {t}] /\ step' = step + 1
  BY DEF CreateTable, Add, t
<1> QED
  BY <1>1, <1>2 DEF TypeOK, Database

LEMMA DropTableTyped ==
  ASSUME TypeOK, DropTable
  PROVE  tables' \in [Database -> SUBSET Tables] /\ step' \in Nat
<1> DEFINE name == Downgrades[version][step + 1]
<1> HIDE DEF name
<1>1. \/ UNCHANGED <<tables, step>>
      \/ /\ tables' = [tables EXCEPT !["file"] = {t \in @ : t.name # name}]
         /\ step' = step + 1
  BY DEF DropTable, name
<1> QED
  BY <1>1 DEF TypeOK, Database

LEMMA NextTypes ==
  ASSUME TypeOK, StatementInv, [Next]_vars
  PROVE  TypeOK'
<1> USE BoundIsNatural, RevisionLengths DEF TypeOK, serviceVars, alembicVars
<1>1. CASE Upgrade
  BY <1>1 DEF Upgrade, Command
<1>2. CASE Downgrade
  BY <1>2 DEF Downgrade, Command, History
<1>3. CASE CreateTable
  <2>1. job' \in {job, "failed"}
    BY <1>3 DEF CreateTable
  <2> QED
    BY <1>3, <2>1, CreateTableTyped DEF CreateTable
<1>4. CASE Stamp
  BY <1>4 DEF Stamp
<1>5. CASE Upgraded
  BY <1>5 DEF Upgraded
<1>6. CASE DropTable
  <2>1. job' \in {job, "failed"}
    BY <1>6 DEF DropTable
  <2> QED
    BY <1>6, <2>1, DropTableTyped DEF DropTable
<1>7. CASE Downgraded
  BY <1>7 DEF Downgraded, StatementInv
<1>8. CASE Interrupt
  BY <1>8 DEF Interrupt, History
<1>9. CASE ImportApi
  BY <1>9 DEF ImportApi, Absent
<1>10. ASSUME NEW m \in missing, CreateMissing(m)
       PROVE  TypeOK'
  <2>1. \/ UNCHANGED tables
        \/ tables' = [tables EXCEPT !["file"] = @ \cup {m}]
    BY <1>10 DEF CreateMissing, Add
  <2>2. m \in Tables
    BY <1>10, SlotsAreTables
  <2>3. tables' \in [Database -> SUBSET Tables]
    BY <2>1, <2>2 DEF Database
  <2>4. UNCHANGED <<deployment, alembicVars, worker>>
    BY <1>10 DEF CreateMissing
  <2>5. /\ api' \in {api, "down"}
        /\ missing' \in {{}, missing \ {m}}
        /\ history' \in {history, history \cup {"created"}}
    BY <1>10 DEF CreateMissing
  <2> QED
    BY <2>3, <2>4, <2>5 DEF History
<1>11. CASE CreateAllMissing
  <2>1. tables' = [tables EXCEPT !["postgres"] = @ \cup missing]
    BY <1>11 DEF CreateAllMissing, Add
  <2>2. tables' \in [Database -> SUBSET Tables]
    BY <2>1, SlotsAreTables DEF Database
  <2> QED
    BY <1>11, <2>2 DEF CreateAllMissing
<1>12. CASE ServeApi \/ StopApi \/ StartWorker \/ StopWorker
  BY <1>12 DEF ServeApi, StopApi, StartWorker, StopWorker, History
<1>13. CASE Recreate
  BY <1>13 DEF Recreate, Database, History
<1>14. CASE UNCHANGED vars
  BY <1>14 DEF vars
<1> QED
  BY <1>1, <1>2, <1>3, <1>4, <1>5, <1>6, <1>7, <1>8, <1>9, <1>10, <1>11,
     <1>12, <1>13, <1>14 DEF Next, AlembicStep, ApiStep

-----------------------------------------------------------------------------
(* What a version stands for, one command after the other.                  *)

(* The rest of the invariant, which every action below is shown to keep.    *)
StoryInv ==
  /\ StatementInv
  /\ DeploymentInv
  /\ AppliedIsThere
  /\ NothingElse
  /\ MissingIsKnown
  /\ TasksFirst

LEMMA SlotIsPositive ==
  ASSUME NEW k \in Nat, NEW i \in Nat, Slot(k, i)
  PROVE  /\ k >= 1 /\ k <= 3
         /\ i >= 1 /\ i <= Len(Upgrades[k])
         /\ Len(Upgrades[k]) \in Nat
<1>1. k \in 1 .. HeadRevision
  BY DEF Slot
<1>2. Len(Upgrades[k]) \in Nat
  BY <1>1, RevisionsAreOneLong
<1> QED
  BY <1>1, <1>2, RevisionLengths DEF Slot

LEMMA InitStory ==
  Init => StoryInv
<1> SUFFICES ASSUME Init PROVE StoryInv
  OBVIOUS
<1>1. ~Downgrading /\ job # "upgrade" /\ job # "failed" /\ version = 0
  BY DEF Init, Downgrading
<1>2. \A k, i \in Nat : ~(Slot(k, i) /\ Applied(k, i))
  BY <1>1, SlotIsPositive DEF Applied
<1>3. tables["file"] = {} /\ tables["postgres"] = {}
  BY DEF Init, Database
<1>4. StatementInv /\ DeploymentInv
  BY <1>1, <1>3 DEF Init, StatementInv, DeploymentInv, Undowngraded
<1>5. AppliedIsThere /\ NothingElse
  BY <1>1, <1>2, <1>3 DEF AppliedIsThere, NothingElse
<1>6. MissingIsKnown
  BY DEF Init, MissingIsKnown
<1>7. TasksFirst
  BY <1>1, <1>3 DEF TasksFirst, Resolved, Database
<1> QED
  BY <1>4, <1>5, <1>6, <1>7 DEF StoryInv

(* What a step of Alembic does not change of the API, it leaves known.      *)
LEMMA MissingStaysKnown ==
  ASSUME MissingIsKnown,
         UNCHANGED <<deployment, api, missing>>,
         Undowngraded' =>
           /\ Undowngraded
           /\ Names(tables[service]) \subseteq Names(tables[service])'
  PROVE  MissingIsKnown'
<1>1. service' = service
  BY DEF service
<1> QED
  BY <1>1 DEF MissingIsKnown

(* Alembic may go from one statement to the next as long as it says what it *)
(* has applied.                                                             *)
LEMMA NothingHappened ==
  ASSUME StoryInv,
         UNCHANGED <<deployment, tables, api, missing>>,
         history \subseteq history',
         job' = "failed" => ~Undisturbed',
         \A k, i \in Nat : Slot(k, i) => (Applied(k, i)' <=> Applied(k, i)),
         (version' >= 1 \/ (job' = "upgrade" /\ step' >= 1)) =>
           (version >= 1 \/ (job = "upgrade" /\ step >= 1)),
         StatementInv',
         "downgraded" \in history' => "downgraded" \in history \/
                                      ~deployment.ordered
  PROVE  StoryInv'
<1>1. /\ Uncut' => Uncut
      /\ Undisturbed' => Undisturbed
      /\ Undowngraded' => Undowngraded
  BY DEF Uncut, Undisturbed, Undowngraded
<1>2. DeploymentInv'
  BY TheDeployments DEF StoryInv, DeploymentInv, Undowngraded
<1>3. AppliedIsThere'
  BY <1>1 DEF StoryInv, AppliedIsThere
<1>4. NothingElse'
  <2> SUFFICES ASSUME Undisturbed'
               PROVE  /\ job' # "failed"
                      /\ \A t \in tables["file"] : \E k, i \in Nat :
                           Slot(k, i) /\ Applied(k, i)' /\ t = Upgrades[k][i]
    BY DEF NothingElse
  <2> QED
    BY <1>1 DEF StoryInv, NothingElse
<1>5. MissingIsKnown'
  BY <1>1, MissingStaysKnown DEF StoryInv, service
<1>6. TasksFirst'
  BY <1>1 DEF StoryInv, TasksFirst, Resolved
<1> QED
  BY <1>2, <1>3, <1>4, <1>5, <1>6 DEF StoryInv

LEMMA UpgradeStory ==
  ASSUME TypeOK, StoryInv, Upgrade
  PROVE  StoryInv'
<1>1. /\ ~Running /\ job' \in {"upgrade", "unloaded"} /\ step' = 0
      /\ UNCHANGED <<deployment, tables, version, api, missing, history>>
  BY DEF Upgrade, Command, serviceVars
<1>2. ~Downgrading /\ job # "upgrade" /\ ~Downgrading' /\ job' # "failed"
  BY <1>1 DEF Running, Downgrading
<1>3. version \in Nat
  BY RevisionLengths DEF TypeOK
<1>4. \A k, i \in Nat : Slot(k, i) => (Applied(k, i)' <=> Applied(k, i))
  BY <1>1, <1>2, <1>3, SlotIsPositive DEF Applied
<1>5. StatementInv'
  <2>1. version < HeadRevision => 0 <= Len(Upgrades[version + 1])
    <3> SUFFICES ASSUME version < HeadRevision
                 PROVE  0 <= Len(Upgrades[version + 1])
      OBVIOUS
    <3>1. version + 1 \in 1 .. HeadRevision
      BY <1>3, RevisionLengths
    <3> QED
      BY <3>1, RevisionsAreOneLong
  <2> QED
    BY <1>1, <1>2, <2>1 DEF StatementInv
<1> QED
  BY <1>1, <1>2, <1>4, <1>5, NothingHappened

LEMMA DowngradeStory ==
  ASSUME TypeOK, StoryInv, Downgrade
  PROVE  StoryInv'
<1>1. /\ ~Running /\ step' = 0 /\ version > 0 /\ ~deployment.ordered
      /\ job' \in {"downgrade_one", "downgrade_base"}
      /\ history' = history \cup {"downgraded"}
      /\ UNCHANGED <<deployment, tables, version, api, missing>>
  BY DEF Downgrade, Command, serviceVars
<1>2. ~Downgrading /\ job # "upgrade" /\ Downgrading' /\ job' # "failed"
      /\ job' # "upgrade"
  BY <1>1 DEF Running, Downgrading
<1>3. version \in Nat /\ version \in 1 .. HeadRevision
  BY <1>1, RevisionLengths DEF TypeOK
<1>4. \A k, i \in Nat : Slot(k, i) => (Applied(k, i)' <=> Applied(k, i))
  BY <1>1, <1>2, <1>3, SlotIsPositive DEF Applied
<1>5. StatementInv'
  BY <1>1, <1>2, <1>3, RevisionsAreOneLong DEF StatementInv, Undowngraded
<1> QED
  BY <1>1, <1>2, <1>4, <1>5, NothingHappened

LEMMA StampStory ==
  ASSUME TypeOK, StoryInv, Stamp
  PROVE  StoryInv'
<1>1. /\ job = "upgrade" /\ job' = job /\ version' = version + 1 /\ step' = 0
      /\ version < HeadRevision /\ step = Len(Upgrades[version + 1])
      /\ UNCHANGED <<deployment, tables, api, missing, history>>
  BY DEF Stamp, serviceVars
<1>2. ~Downgrading /\ ~Downgrading'
  BY <1>1 DEF Downgrading
<1>3. version \in Nat /\ version + 1 \in 1 .. HeadRevision
  BY <1>1, RevisionLengths DEF TypeOK
<1>4. step >= 1
  BY <1>1, <1>3, RevisionsAreOneLong
<1>5. \A k, i \in Nat : Slot(k, i) => (Applied(k, i)' <=> Applied(k, i))
  <2> SUFFICES ASSUME NEW k \in Nat, NEW i \in Nat, Slot(k, i)
               PROVE  Applied(k, i)' <=> Applied(k, i)
    OBVIOUS
  <2>1. Applied(k, i)' <=> k <= version + 1
    BY <1>1, <1>2, <1>3, SlotIsPositive DEF Applied
  <2>2. Applied(k, i) <=> k <= version + 1
    BY <1>1, <1>2, <1>3, SlotIsPositive DEF Applied
  <2> QED
    BY <2>1, <2>2
<1>6. StatementInv'
  <2>1. version + 1 < HeadRevision => 0 <= Len(Upgrades[version + 1 + 1])
    <3> SUFFICES ASSUME version + 1 < HeadRevision
                 PROVE  0 <= Len(Upgrades[version + 1 + 1])
      OBVIOUS
    <3>1. version + 1 + 1 \in 1 .. HeadRevision
      BY <1>3, RevisionLengths
    <3> QED
      BY <3>1, RevisionsAreOneLong
  <2> QED
    BY <1>1, <1>2, <2>1 DEF StatementInv
<1> QED
  BY <1>1, <1>2, <1>4, <1>5, <1>6, NothingHappened

LEMMA UpgradedStory ==
  ASSUME TypeOK, StoryInv, Upgraded
  PROVE  StoryInv'
<1>1. /\ job = "upgrade" /\ job' = "ok" /\ version = HeadRevision
      /\ UNCHANGED <<deployment, tables, version, step, api, missing, history>>
  BY DEF Upgraded, serviceVars
<1>2. ~Downgrading /\ ~Downgrading'
  BY <1>1 DEF Downgrading
<1>3. \A k, i \in Nat : Slot(k, i) => (Applied(k, i)' <=> Applied(k, i))
  BY <1>1, <1>2, SlotIsPositive, RevisionLengths DEF Applied
<1>4. StatementInv' /\ version >= 1
  BY <1>1, <1>2, RevisionLengths DEF StatementInv
<1> QED
  BY <1>1, <1>2, <1>3, <1>4, NothingHappened

LEMMA DowngradedStory ==
  ASSUME TypeOK, StoryInv, Downgraded
  PROVE  StoryInv'
<1> DEFINE goesOn == job = "downgrade_base" /\ version > 1
<1>1. /\ Downgrading /\ version' = version - 1
      /\ step = Len(Downgrades[version])
      /\ IF goesOn THEN step' = 0 /\ job' = job ELSE job' = "ok" /\ step' = step
      /\ UNCHANGED <<deployment, tables, api, missing, history>>
  BY DEF Downgraded, serviceVars
<1>2. version \in 1 .. HeadRevision /\ ~Undowngraded
  BY <1>1, RevisionLengths DEF TypeOK, StoryInv, StatementInv
<1>3. step = Len(Upgrades[version]) /\ version \in Nat /\ version >= 1
  BY <1>1, <1>2, RevisionsAreOneLong, RevisionLengths
<1>4. goesOn => version - 1 \in 1 .. HeadRevision /\ Downgrading'
  BY <1>1, <1>2, RevisionLengths DEF Downgrading
<1>5. ~goesOn => job' = "ok" /\ ~Downgrading'
  BY <1>1 DEF Downgrading
<1>6. goesOn => step' = 0
  BY <1>1
<1> HIDE DEF goesOn
<1>7. \A k, i \in Nat : Slot(k, i) => (Applied(k, i)' <=> Applied(k, i))
  <2> SUFFICES ASSUME NEW k \in Nat, NEW i \in Nat, Slot(k, i)
               PROVE  Applied(k, i)' <=> Applied(k, i)
    OBVIOUS
  <2>1. k >= 1 /\ i >= 1 /\ i <= Len(Upgrades[k]) /\ Len(Upgrades[k]) \in Nat
    BY SlotIsPositive
  <2>2. Applied(k, i) <=> k <= version - 1
    BY <1>1, <1>3, <2>1 DEF Applied, Downgrading
  <2>3. CASE goesOn
    BY <1>1, <1>3, <1>4, <1>6, <2>1, <2>2, <2>3 DEF Applied, Downgrading
  <2>4. CASE ~goesOn
    BY <1>1, <1>3, <1>5, <2>1, <2>2, <2>4 DEF Applied
  <2> QED
    BY <2>3, <2>4
<1>8. job' # "upgrade" /\ job' # "failed"
  BY <1>1 DEF Downgrading
<1>9. StatementInv'
  <2>1. goesOn => 0 <= Len(Upgrades[version - 1])
    BY <1>4, RevisionsAreOneLong
  <2>2. goesOn => version - 1 >= 1
    BY <1>3, <1>4, RevisionLengths
  <2>3. Undowngraded' <=> Undowngraded
    BY <1>1 DEF Undowngraded
  <2>4. CASE goesOn
    BY <1>1, <1>2, <1>6, <1>8, <2>1, <2>2, <2>3, <2>4 DEF StatementInv
  <2>5. CASE ~goesOn
    BY <1>5, <1>8, <2>5 DEF StatementInv
  <2> QED
    BY <2>4, <2>5
<1>10. history \subseteq history'
  BY <1>1
<1>11. "downgraded" \in history' => "downgraded" \in history
  BY <1>1
<1> QED
  BY <1>1, <1>3, <1>7, <1>8, <1>9, <1>10, <1>11, NothingHappened

LEMMA InterruptStory ==
  ASSUME TypeOK, StoryInv, Interrupt
  PROVE  StoryInv'
<1>1. /\ Running /\ job' = "killed" /\ history' = history \cup {"cut"}
      /\ UNCHANGED <<deployment, tables, version, step, api, missing>>
  BY DEF Interrupt, serviceVars
<1>2. ~Downgrading' /\ ~Uncut' /\ ~Undisturbed'
  BY <1>1 DEF Downgrading, Uncut, Undisturbed
<1>3. Undowngraded' => Undowngraded
  BY <1>1 DEF Undowngraded
<1>4. StatementInv' /\ AppliedIsThere' /\ NothingElse'
  BY <1>1, <1>2 DEF StatementInv, AppliedIsThere, NothingElse
<1>5. DeploymentInv'
  BY <1>1 DEF StoryInv, DeploymentInv, Undowngraded
<1>6. MissingIsKnown'
  BY <1>1, <1>3, MissingStaysKnown DEF StoryInv, service
<1>7. TasksFirst'
  BY <1>1, <1>3 DEF StoryInv, TasksFirst, Resolved
<1> QED
  BY <1>4, <1>5, <1>6, <1>7 DEF StoryInv

-----------------------------------------------------------------------------
(* The statements themselves.                                               *)

(* An upgrade fails only on a table that no revision applied so far has     *)
(* made.                                                                    *)
LEMMA CreateTableFails ==
  ASSUME TypeOK, StoryInv, CreateTable,
         UNCHANGED tables, job' = "failed"
  PROVE  StoryInv'
<1> DEFINE t == Upgrades[version + 1][step + 1]
<1>1. /\ job = "upgrade" /\ version < HeadRevision
      /\ step < Len(Upgrades[version + 1])
      /\ UNCHANGED <<deployment, version, api, missing, history>>
  BY DEF CreateTable, serviceVars
<1>2. t.name \in Names(tables["file"])
  BY DEF CreateTable
<1>3. ~Downgrading /\ ~Downgrading' /\ version \in Nat /\ step \in Nat
  BY <1>1, RevisionLengths DEF Downgrading, TypeOK
<1>4. ~Undisturbed
  <2> SUFFICES ASSUME Undisturbed PROVE FALSE
    OBVIOUS
  <2>1. PICK u \in tables["file"] : u.name = t.name
    BY <1>2 DEF Names
  <2>2. PICK k \in Nat, i \in Nat :
          Slot(k, i) /\ Applied(k, i) /\ u = Upgrades[k][i]
    BY DEF StoryInv, NothingElse
  <2>3. Slot(version + 1, step + 1)
    BY <1>1, NextSlot DEF StoryInv
  <2>4. k = version + 1 /\ i = step + 1
    BY <1>3, <2>1, <2>2, <2>3, NamesDiffer
  <2> QED
    BY <1>3, <2>2, <2>4 DEF Applied
<1>5. \A k, i \in Nat : Applied(k, i)' => Applied(k, i)
  BY <1>1, <1>3 DEF Applied
<1>6. StatementInv' /\ DeploymentInv'
  BY <1>1, <1>3 DEF StoryInv, StatementInv, DeploymentInv, Undowngraded
<1>7. Uncut' = Uncut /\ Undisturbed' = Undisturbed
      /\ Undowngraded' = Undowngraded
  BY <1>1 DEF Uncut, Undisturbed, Undowngraded
<1>8. AppliedIsThere' /\ NothingElse'
  <2>1. AppliedIsThere'
    BY <1>5, <1>7 DEF StoryInv, AppliedIsThere
  <2> QED
    BY <1>4, <1>7, <2>1 DEF NothingElse
<1>9. MissingIsKnown'
  BY <1>1, <1>7, MissingStaysKnown DEF StoryInv, service
<1>10. TasksFirst'
  BY <1>1, <1>7 DEF StoryInv, TasksFirst, Resolved
<1> QED
  BY <1>6, <1>8, <1>9, <1>10 DEF StoryInv

LEMMA CreateTableSucceeds ==
  ASSUME TypeOK, StoryInv, CreateTable, TypeOK',
         NEW t, t = Upgrades[version + 1][step + 1],
         tables' = [tables EXCEPT !["file"] = @ \cup {t}],
         step' = step + 1, job' = job
  PROVE  StoryInv'
<1>1. /\ job = "upgrade" /\ version < HeadRevision
      /\ step < Len(Upgrades[version + 1])
      /\ UNCHANGED <<deployment, version, api, missing, history>>
  BY DEF CreateTable, serviceVars
<1>2. Slot(version + 1, step + 1)
  BY <1>1, NextSlot DEF StoryInv
<1>3. ~Downgrading /\ ~Downgrading' /\ version \in Nat /\ step \in Nat
  BY <1>1, RevisionLengths DEF Downgrading, TypeOK
<1>4. /\ tables'["file"] = tables["file"] \cup {t}
      /\ tables'["postgres"] = tables["postgres"]
  BY DEF TypeOK, Database
<1>5. /\ Uncut' = Uncut
      /\ Undisturbed' = Undisturbed
      /\ Undowngraded' = Undowngraded
  BY <1>1 DEF Uncut, Undisturbed, Undowngraded
<1>6. \A k, i \in Nat : Slot(k, i) =>
        (Applied(k, i)' <=> Applied(k, i) \/ (k = version + 1 /\ i = step + 1))
  BY <1>1, <1>3 DEF Applied
<1>7. StatementInv'
  <2>1. version + 1 \in 1 .. HeadRevision
    BY <1>1, <1>3, RevisionLengths
  <2>2. Len(Upgrades[version + 1]) \in Nat
    BY <2>1, RevisionsAreOneLong
  <2>3. step + 1 <= Len(Upgrades[version + 1])
    BY <1>1, <1>3, <2>2
  <2> QED
    BY <1>1, <1>3, <2>3 DEF StatementInv
<1>8. DeploymentInv'
  BY <1>1, <1>4, <1>5 DEF StoryInv, DeploymentInv
<1>9. AppliedIsThere'
  <2> SUFFICES ASSUME Uncut, NEW k \in Nat, NEW i \in Nat, Slot(k, i),
                      Applied(k, i)'
               PROVE  Upgrades[k][i] \in tables'["file"]
    BY <1>5 DEF AppliedIsThere
  <2>1. CASE Applied(k, i)
    BY <1>4, <2>1 DEF StoryInv, AppliedIsThere
  <2>2. CASE k = version + 1 /\ i = step + 1
    BY <1>4, <2>2
  <2> QED
    BY <1>6, <2>1, <2>2
<1>10. NothingElse'
  <2> SUFFICES ASSUME Undisturbed, NEW u \in tables'["file"]
               PROVE  \E k, i \in Nat :
                        Slot(k, i) /\ Applied(k, i)' /\ u = Upgrades[k][i]
    BY <1>1, <1>5 DEF NothingElse
  <2>1. CASE u \in tables["file"]
    <3>1. PICK k \in Nat, i \in Nat :
            Slot(k, i) /\ Applied(k, i) /\ u = Upgrades[k][i]
      BY <2>1 DEF StoryInv, NothingElse
    <3> QED
      BY <1>6, <3>1
  <2>2. CASE u = t
    <3>1. PICK k \in Nat, i \in Nat : k = version + 1 /\ i = step + 1
      BY <1>3
    <3>2. Slot(k, i)
      BY <1>2, <3>1
    <3>3. Applied(k, i)'
      BY <1>6, <3>1, <3>2
    <3>4. u = Upgrades[k][i]
      BY <2>2, <3>1
    <3> QED
      BY <3>2, <3>3, <3>4
  <2> QED
    BY <1>4, <2>1, <2>2
<1>11. Names(tables["file"]) \subseteq Names(tables'["file"])
  BY <1>4, NamesGrow
<1>12. MissingIsKnown'
  <2>1. service' = service
    BY <1>1 DEF service
  <2>2. Names(tables[service]) \subseteq Names(tables'[service])
    BY <1>4, <1>11, ServiceIsADatabase
  <2> QED
    BY <1>1, <1>5, <2>1, <2>2, MissingStaysKnown DEF StoryInv
<1>13. TasksFirst'
  <2> SUFFICES ASSUME Undowngraded
               PROVE  /\ "tasks" \in Names(tables'["file"])
                      /\ \A u \in tables'["file"] :
                           u.refs \subseteq Names(tables'["file"])
                      /\ \A u \in tables'["postgres"] :
                           u.refs \subseteq Names(tables'["postgres"])
    BY <1>5 DEF TasksFirst, Resolved, Database
  <2>1. tables'["file"] \in SUBSET Tables
    BY DEF TypeOK, Database
  <2>2. "tasks" \in Names(tables'["file"])
    <3>1. CASE version >= 1 \/ step >= 1
      BY <1>1, <1>11, <3>1 DEF StoryInv, TasksFirst
    <3>2. CASE version = 0 /\ step = 0
      <4>1. t.name = "tasks"
        BY <3>2, TableReferences
      <4>2. t \in tables'["file"]
        BY <1>4
      <4>3. t.name \in Names(tables'["file"])
        BY <4>2, NameIsThere
      <4> QED
        BY <4>1, <4>3
    <3> QED
      BY <1>3, <3>1, <3>2
  <2>3. \A u \in tables'["file"] : u.refs \subseteq Names(tables'["file"])
    BY <2>1, <2>2, ResolvedByTasks
  <2>4. \A u \in tables["postgres"] : u.refs \subseteq Names(tables["postgres"])
    BY DEF StoryInv, TasksFirst, Resolved, Database
  <2> QED
    BY <1>4, <2>2, <2>3, <2>4
<1> QED
  BY <1>7, <1>8, <1>9, <1>10, <1>12, <1>13 DEF StoryInv

LEMMA CreateTableStory ==
  ASSUME TypeOK, StoryInv, CreateTable, TypeOK'
  PROVE  StoryInv'
<1> DEFINE t == Upgrades[version + 1][step + 1]
<1>1. \/ UNCHANGED tables /\ job' = "failed"
      \/ /\ tables' = [tables EXCEPT !["file"] = @ \cup {t}]
         /\ step' = step + 1 /\ job' = job
  BY DEF CreateTable, Add
<1> QED
  BY <1>1, CreateTableFails, CreateTableSucceeds

(* A downgrade drops what the revision has made, unless a command that was  *)
(* cut has left it half done.                                               *)
LEMMA DropTableStory ==
  ASSUME TypeOK, StoryInv, DropTable, TypeOK'
  PROVE  StoryInv'
<1> DEFINE n == Len(Upgrades[version])
           name == Downgrades[version][step + 1]
<1>1. /\ Downgrading /\ step < Len(Downgrades[version])
      /\ UNCHANGED <<deployment, version, api, missing, history>>
  BY DEF DropTable, serviceVars
<1>2. /\ version \in 1 .. HeadRevision
      /\ n - step \in Nat
      /\ Slot(version, n - step)
      /\ name = Upgrades[version][n - step].name
  BY <1>1, LastSlot DEF StoryInv
<1>3. /\ version \in Nat /\ step \in Nat /\ n \in Nat
      /\ step < n
      /\ ~Undowngraded
  <2>1. ~Undowngraded
    BY <1>1 DEF StoryInv, StatementInv
  <2>2. n \in Nat /\ Len(Downgrades[version]) = n
    BY <1>2, RevisionsAreOneLong
  <2>3. version \in Nat /\ step \in Nat
    BY <1>2, RevisionLengths DEF TypeOK
  <2> HIDE DEF n
  <2> QED
    BY <1>1, <2>1, <2>2, <2>3
<1>4. Applied(version, n - step)
  BY <1>1, <1>3 DEF Applied
<1>5. /\ Uncut' = Uncut
      /\ Undisturbed' = Undisturbed
      /\ Undowngraded' = Undowngraded
      /\ Undisturbed => Uncut
  BY <1>1 DEF Uncut, Undisturbed, Undowngraded
<1>6. Uncut => name \in Names(tables["file"])
  <2> SUFFICES ASSUME Uncut PROVE name \in Names(tables["file"])
    OBVIOUS
  <2>1. Upgrades[version][n - step] \in tables["file"]
    BY <1>2, <1>3, <1>4 DEF StoryInv, AppliedIsThere
  <2>2. Upgrades[version][n - step].name \in Names(tables["file"])
    BY <2>1, NameIsThere
  <2> QED
    BY <1>2, <2>2
<1>7. \/ /\ name \notin Names(tables["file"])
         /\ job' = "failed" /\ UNCHANGED <<tables, step>>
      \/ /\ tables' = [tables EXCEPT !["file"] = {t \in @ : t.name # name}]
         /\ step' = step + 1 /\ job' = job
  BY DEF DropTable
<1>8. MissingIsKnown' /\ TasksFirst'
  BY <1>1, <1>3, <1>5 DEF StoryInv, MissingIsKnown, TasksFirst
<1>9. tables["postgres"]' = tables["postgres"]
  BY <1>7 DEF TypeOK, Database
<1>10. DeploymentInv'
  BY <1>1, <1>5, <1>9 DEF StoryInv, DeploymentInv
<1> HIDE DEF n, name
<1>11. CASE job' = "failed"
  <2>1. ~Uncut
    BY <1>1, <1>6, <1>7, <1>11 DEF Downgrading
  <2>2. ~Downgrading' /\ job' # "upgrade"
    BY <1>11 DEF Downgrading
  <2>3. StatementInv' /\ AppliedIsThere' /\ NothingElse'
    BY <1>5, <2>1, <2>2 DEF StatementInv, AppliedIsThere, NothingElse
  <2> QED
    BY <1>8, <1>10, <2>3 DEF StoryInv
<1>12. CASE /\ tables' = [tables EXCEPT !["file"] = {t \in @ : t.name # name}]
            /\ step' = step + 1 /\ job' = job
  <2>1. Downgrading' /\ job # "upgrade" /\ job # "failed"
    BY <1>1, <1>12 DEF Downgrading
  <2>2. tables'["file"] = {t \in tables["file"] : t.name # name}
    BY <1>12 DEF TypeOK, Database
  <2>3. StatementInv'
    <3>1. step' <= n
      BY <1>3, <1>12
    <3>2. version >= 1
      BY <1>2, RevisionLengths
    <3> QED
      BY <1>1, <1>3, <1>5, <1>12, <2>1, <3>1, <3>2 DEF StatementInv, n
  <2>4. \A k, i \in Nat : Slot(k, i) =>
          (Applied(k, i)' <=>
             Applied(k, i) /\ ~(k = version /\ i = n - step))
    <3> SUFFICES ASSUME NEW k \in Nat, NEW i \in Nat, Slot(k, i)
                 PROVE  Applied(k, i)' <=>
                          Applied(k, i) /\ ~(k = version /\ i = n - step)
      OBVIOUS
    <3>1. Applied(k, i) <=>
            k < version \/ (k = version /\ i <= Len(Upgrades[k]) - step)
      BY <1>1, <2>1 DEF Applied
    <3>2. Applied(k, i)' <=>
            k < version \/ (k = version /\ i <= Len(Upgrades[k]) - (step + 1))
      BY <1>1, <1>12, <2>1 DEF Applied
    <3>3. CASE k = version
      <4>1. Applied(k, i) <=> i <= n - step
        BY <1>3, <3>1, <3>3 DEF n
      <4>2. Applied(k, i)' <=> i <= n - (step + 1)
        BY <1>3, <3>2, <3>3 DEF n
      <4> QED
        BY <1>3, <3>3, <4>1, <4>2
    <3>4. CASE k # version
      BY <3>1, <3>2, <3>4
    <3> QED
      BY <3>3, <3>4
  <2>5. AppliedIsThere'
    <3> SUFFICES ASSUME Uncut, NEW k \in Nat, NEW i \in Nat, Slot(k, i),
                        Applied(k, i)'
                 PROVE  Upgrades[k][i] \in tables'["file"]
      BY <1>5 DEF AppliedIsThere
    <3>1. Applied(k, i) /\ ~(k = version /\ i = n - step)
      BY <2>4
    <3>2. Upgrades[k][i] \in tables["file"]
      BY <3>1 DEF StoryInv, AppliedIsThere
    <3>3. Upgrades[k][i].name # name
      BY <1>2, <1>3, <3>1, NamesDiffer
    <3> QED
      BY <2>2, <3>2, <3>3
  <2>6. NothingElse'
    <3> SUFFICES ASSUME Undisturbed, NEW u \in tables'["file"]
                 PROVE  \E k, i \in Nat :
                          Slot(k, i) /\ Applied(k, i)' /\ u = Upgrades[k][i]
      BY <1>5, <1>12, <2>1 DEF NothingElse
    <3>1. u \in tables["file"] /\ u.name # name
      BY <2>2
    <3>2. PICK k \in Nat, i \in Nat :
            Slot(k, i) /\ Applied(k, i) /\ u = Upgrades[k][i]
      BY <3>1 DEF StoryInv, NothingElse
    <3>3. ~(k = version /\ i = n - step)
      BY <1>2, <3>1, <3>2
    <3> QED
      BY <2>4, <3>2, <3>3
  <2> QED
    BY <1>8, <1>10, <2>3, <2>5, <2>6 DEF StoryInv
<1> QED
  BY <1>7, <1>11, <1>12

-----------------------------------------------------------------------------
(* The API and its create_all, and the rest.                                *)

(* Tables are added to a database that has tasks, or will have it with them.*)
LEMMA StillResolved ==
  ASSUME TypeOK, TypeOK', TasksFirst,
         UNCHANGED <<version, job, step>>,
         Undowngraded' => Undowngraded,
         NEW db \in Database, NEW T \in SUBSET Tables,
         tables' = [tables EXCEPT ![db] = @ \cup T],
         \/ Undowngraded' => "tasks" \in Names(tables'[db])
         \/ \A t \in T : t.refs = {}
  PROVE  TasksFirst'
<1>1. \A d \in Database : tables'[d] = IF d = db THEN tables[d] \cup T
                                                 ELSE tables[d]
  BY DEF TypeOK
<1>2. \A d \in Database : Names(tables[d]) \subseteq Names(tables'[d])
  BY <1>1, NamesGrow
<1> SUFFICES ASSUME Undowngraded'
             PROVE  \A d \in Database : Resolved(d)'
  BY <1>2 DEF TasksFirst, Database
<1> SUFFICES ASSUME NEW d \in Database, NEW t \in tables'[d]
             PROVE  t.refs \subseteq Names(tables'[d])
  BY DEF Resolved
<1>3. CASE t \in tables[d]
  BY <1>2, <1>3 DEF TasksFirst, Resolved
<1>4. CASE t \notin tables[d]
  <2>1. d = db /\ t \in T
    BY <1>1, <1>4
  <2>2. CASE t.refs = {}
    BY <2>2
  <2>3. CASE "tasks" \in Names(tables'[db])
    <3>1. tables'[d] \in SUBSET Tables
      BY DEF TypeOK
    <3> QED
      BY <2>1, <2>3, <3>1, ResolvedByTasks
  <2> QED
    BY <2>1, <2>2, <2>3
<1> QED
  BY <1>3, <1>4

(* The tables of an import that has nothing of tasks left to create.        *)
LEMMA TasksIsThere ==
  ASSUME TypeOK, MissingIsKnown, Undowngraded, api = "importing",
         "tasks" \notin Names(missing)
  PROVE  "tasks" \in Names(tables[service])
  BY TasksIsAModel, TableReferences, NameIsThere DEF MissingIsKnown

LEMMA CreateMissingStory ==
  ASSUME TypeOK, TypeOK', StoryInv, NEW m \in missing, CreateMissing(m)
  PROVE  StoryInv'
<1>1. /\ api = "importing" /\ service = "file"
      /\ m.refs \cap Names(missing) = {}
      /\ UNCHANGED <<deployment, version, job, step>>
  BY DEF CreateMissing, alembicVars, MayCreate
<1>2. \/ /\ api' = "down" /\ UNCHANGED <<tables, history>>
      \/ /\ tables' = [tables EXCEPT !["file"] = @ \cup {m}]
         /\ missing' = missing \ {m} /\ api' = api
         /\ history' = history \cup {"created"}
  BY DEF CreateMissing, Add
<1>3. /\ Uncut' = Uncut
      /\ Undisturbed' => Undisturbed
      /\ Undowngraded' = Undowngraded
  BY <1>2 DEF Uncut, Undisturbed, Undowngraded
<1>4. StatementInv'
  BY <1>1, <1>3 DEF StoryInv, StatementInv, Downgrading
<1>5. \A k, i \in Nat : Applied(k, i)' <=> Applied(k, i)
  BY <1>1 DEF Applied, Downgrading
<1>6. CASE api' = "down" /\ UNCHANGED <<tables, history>>
  <2>1. DeploymentInv' /\ TasksFirst'
    BY <1>1, <1>3, <1>6 DEF StoryInv, DeploymentInv, TasksFirst, Resolved
  <2>2. AppliedIsThere' /\ NothingElse'
    BY <1>1, <1>3, <1>5, <1>6 DEF StoryInv, AppliedIsThere, NothingElse
  <2>3. MissingIsKnown'
    BY <1>6 DEF MissingIsKnown
  <2> QED
    BY <1>4, <2>1, <2>2, <2>3 DEF StoryInv
<1>7. CASE /\ tables' = [tables EXCEPT !["file"] = @ \cup {m}]
           /\ missing' = missing \ {m} /\ api' = api
           /\ history' = history \cup {"created"}
  <2>1. /\ tables'["file"] = tables["file"] \cup {m}
        /\ tables'["postgres"] = tables["postgres"]
    BY <1>7 DEF TypeOK, Database
  <2>2. ~Undisturbed'
    BY <1>7 DEF Undisturbed
  <2>3. DeploymentInv' /\ AppliedIsThere' /\ NothingElse'
    BY <1>1, <1>3, <1>5, <2>1, <2>2
       DEF StoryInv, DeploymentInv, AppliedIsThere, NothingElse
  <2>4. service' = "file"
    BY <1>1 DEF service
  <2>5. /\ Names(tables["file"]) \subseteq Names(tables'["file"])
        /\ m.name \in Names(tables'["file"])
    BY <2>1, NamesGrow, NameIsThere
  <2>6. MissingIsKnown'
    <3> SUFFICES ASSUME Undowngraded, NEW u \in Models
                 PROVE  u \in missing' \/ u.name \in Names(tables'["file"])
      BY <1>1, <1>3, <1>7, <2>4 DEF MissingIsKnown
    <3>1. u \in missing \/ u.name \in Names(tables["file"])
      BY <1>1 DEF StoryInv, MissingIsKnown
    <3> QED
      BY <1>7, <2>5, <3>1
  <2>7. m \in Tables
    BY SlotsAreTables DEF TypeOK
  <2>8. \/ Undowngraded' => "tasks" \in Names(tables'["file"])
        \/ m.refs = {}
    <3> SUFFICES ASSUME Undowngraded, m.refs # {}
                 PROVE  "tasks" \in Names(tables'["file"])
      BY <1>3
    <3>1. "tasks" \in m.refs
      BY <2>7, TableReferences
    <3>2. "tasks" \notin Names(missing)
      BY <1>1, <3>1
    <3> QED
      BY <1>1, <2>5, <3>2, TasksIsThere DEF StoryInv
  <2>9. TasksFirst'
    <3>1. {m} \in SUBSET Tables /\ "file" \in Database
      BY <2>7 DEF Database
    <3>2. \/ Undowngraded' => "tasks" \in Names(tables'["file"])
          \/ \A t \in {m} : t.refs = {}
      BY <2>8
    <3> QED
      BY <1>1, <1>3, <1>7, <3>1, <3>2, StillResolved DEF StoryInv
  <2> QED
    BY <1>4, <2>3, <2>6, <2>9 DEF StoryInv
<1> QED
  BY <1>2, <1>6, <1>7

LEMMA CreateAllMissingStory ==
  ASSUME TypeOK, TypeOK', StoryInv, CreateAllMissing
  PROVE  StoryInv'
<1>1. /\ api = "importing" /\ service = "postgres" /\ missing' = {}
      /\ tables' = [tables EXCEPT !["postgres"] = @ \cup missing]
      /\ UNCHANGED <<deployment, version, job, step, api, history>>
  BY DEF CreateAllMissing, Add, alembicVars
<1>2. deployment.ordered /\ Undowngraded
  BY <1>1, ServiceIsADatabase DEF StoryInv, DeploymentInv
<1>3. /\ Uncut' = Uncut
      /\ Undisturbed' = Undisturbed
      /\ Undowngraded' = Undowngraded
  BY <1>1 DEF Uncut, Undisturbed, Undowngraded
<1>4. /\ tables'["postgres"] = tables["postgres"] \cup missing
      /\ tables'["file"] = tables["file"]
  BY <1>1 DEF TypeOK, Database
<1>5. \A k, i \in Nat : Applied(k, i)' <=> Applied(k, i)
  BY <1>1 DEF Applied, Downgrading
<1>6. StatementInv'
  BY <1>1, <1>3 DEF StoryInv, StatementInv, Downgrading
<1>7. AppliedIsThere' /\ NothingElse' /\ DeploymentInv'
  BY <1>1, <1>2, <1>3, <1>4, <1>5, TheDeployments
     DEF StoryInv, AppliedIsThere, NothingElse, DeploymentInv
<1>8. /\ Names(tables["postgres"]) \subseteq Names(tables'["postgres"])
      /\ Names(missing) \subseteq Names(tables'["postgres"])
  BY <1>4, NamesGrow
<1>9. service' = "postgres"
  BY <1>1 DEF service
<1>10. MissingIsKnown'
  <2> SUFFICES ASSUME NEW u \in Models
               PROVE  u.name \in Names(tables'["postgres"])
    BY <1>1, <1>9 DEF MissingIsKnown
  <2>1. u \in missing \/ u.name \in Names(tables["postgres"])
    BY <1>1, <1>2 DEF StoryInv, MissingIsKnown
  <2> QED
    BY <1>8, <2>1, NameIsThere
<1>11. TasksFirst'
  <2>1. "tasks" \in Names(tables'["postgres"])
    BY <1>1, <1>2, <1>8, TasksIsThere DEF StoryInv
  <2>2. missing \in SUBSET Tables /\ "postgres" \in Database
    BY SlotsAreTables DEF TypeOK, Database
  <2> QED
    BY <1>1, <1>3, <2>1, <2>2, StillResolved DEF StoryInv
<1> QED
  BY <1>6, <1>7, <1>10, <1>11 DEF StoryInv

(* The processes that come and go change no table.                          *)
LEMMA ServiceStory ==
  ASSUME TypeOK, StoryInv,
         ImportApi \/ ServeApi \/ StopApi \/ StartWorker \/ StopWorker
  PROVE  StoryInv'
<1>1. UNCHANGED <<deployment, tables, version, job, step>>
  BY DEF ImportApi, ServeApi, StopApi, StartWorker, StopWorker, alembicVars
<1>2. history' \in {history, history \cup {"stopped"}}
  BY DEF ImportApi, ServeApi, StopApi, StartWorker, StopWorker
<1>3. /\ Uncut' = Uncut
      /\ Undisturbed' = Undisturbed
      /\ Undowngraded' = Undowngraded
  BY <1>2 DEF Uncut, Undisturbed, Undowngraded
<1>4. \A k, i \in Nat : Applied(k, i)' <=> Applied(k, i)
  BY <1>1 DEF Applied, Downgrading
<1>5. StatementInv' /\ DeploymentInv'
  BY <1>1, <1>3 DEF StoryInv, StatementInv, DeploymentInv, Downgrading
<1>6. AppliedIsThere' /\ NothingElse'
  BY <1>1, <1>3, <1>4 DEF StoryInv, AppliedIsThere, NothingElse
<1>7. TasksFirst'
  BY <1>1, <1>3 DEF StoryInv, TasksFirst, Resolved
<1>8. service' = service
  BY <1>1 DEF service
<1>9. MissingIsKnown'
  <2>1. CASE ImportApi
    <3>1. /\ api' = "importing"
          /\ missing' = {m \in Models : m.name \notin Names(tables[service])}
      BY <2>1 DEF ImportApi, Absent
    <3> QED
      BY <1>1, <1>8, <3>1 DEF MissingIsKnown
  <2>2. CASE ServeApi
    <3>1. api = "importing" /\ missing = {} /\ missing' = {}
      BY <2>2 DEF ServeApi
    <3> QED
      BY <1>1, <1>3, <1>8, <3>1 DEF StoryInv, MissingIsKnown
  <2>3. CASE StopApi
    BY <2>3 DEF StopApi, MissingIsKnown
  <2>4. CASE StartWorker \/ StopWorker
    <3>1. UNCHANGED <<api, missing>>
      BY <2>4 DEF StartWorker, StopWorker
    <3> QED
      BY <1>1, <1>3, <1>8, <3>1 DEF StoryInv, MissingIsKnown
  <2> QED
    BY <2>1, <2>2, <2>3, <2>4
<1> QED
  BY <1>5, <1>6, <1>7, <1>9 DEF StoryInv

LEMMA RecreateStory ==
  ASSUME TypeOK, StoryInv, Recreate
  PROVE  StoryInv'
<1>1. /\ deployment.ordered /\ deployment' = deployment
      /\ tables' = [tables EXCEPT !["file"] = {}]
      /\ version' = 0 /\ job' = "none" /\ step' = 0 /\ api' = "down"
      /\ history' = history \cup {"stopped"}
  BY DEF Recreate
<1>2. tables'["file"] = {} /\ tables'["postgres"] = tables["postgres"]
  BY <1>1 DEF TypeOK, Database
<1>3. ~Downgrading' /\ job' # "upgrade"
  BY <1>1 DEF Downgrading
<1>4. Undowngraded' = Undowngraded
  BY <1>1 DEF Undowngraded
<1>5. \A k, i \in Nat : Slot(k, i) => ~Applied(k, i)'
  BY <1>1, <1>3, SlotIsPositive DEF Applied
<1>6. StatementInv' /\ DeploymentInv'
  BY <1>1, <1>3, <1>4, TheDeployments DEF StoryInv, StatementInv, DeploymentInv
<1>7. AppliedIsThere' /\ NothingElse'
  BY <1>1, <1>2, <1>5 DEF AppliedIsThere, NothingElse
<1>8. MissingIsKnown'
  BY <1>1 DEF MissingIsKnown
<1>9. TasksFirst'
  BY <1>1, <1>2, <1>4 DEF StoryInv, TasksFirst, Resolved, Database
<1> QED
  BY <1>6, <1>7, <1>8, <1>9 DEF StoryInv

LEMMA InitStartup ==
  Init => StartupInv
  BY InitTypes, InitStory DEF StartupInv, StoryInv

LEMMA NextStartup ==
  StartupInv /\ [Next]_vars => StartupInv'
<1> SUFFICES ASSUME TypeOK, StoryInv, [Next]_vars
             PROVE  TypeOK' /\ StoryInv'
  BY DEF StartupInv, StoryInv
<1>1. TypeOK'
  BY NextTypes DEF StoryInv
<1>2. CASE Upgrade \/ Downgrade
  BY <1>1, <1>2, UpgradeStory, DowngradeStory
<1>3. CASE AlembicStep
  BY <1>1, <1>3, CreateTableStory, StampStory, UpgradedStory, DropTableStory,
     DowngradedStory DEF AlembicStep
<1>4. CASE Interrupt
  BY <1>1, <1>4, InterruptStory
<1>5. CASE ApiStep
  BY <1>1, <1>5, ServiceStory, CreateMissingStory, CreateAllMissingStory
     DEF ApiStep
<1>6. CASE StopApi \/ StartWorker \/ StopWorker
  BY <1>1, <1>6, ServiceStory
<1>7. CASE Recreate
  BY <1>1, <1>7, RecreateStory
<1>8. CASE UNCHANGED vars
  <2>1. UNCHANGED <<deployment, tables, version, job, step, api, missing,
                    history>>
    BY <1>8 DEF vars
  <2>2. \A k, i \in Nat : Applied(k, i)' <=> Applied(k, i)
    BY <2>1 DEF Applied, Downgrading
  <2>3. StatementInv' /\ DeploymentInv' /\ MissingIsKnown' /\ TasksFirst'
    BY <2>1 DEF StoryInv, StatementInv, DeploymentInv, MissingIsKnown,
       TasksFirst, Downgrading, Undowngraded, Resolved, service
  <2>4. AppliedIsThere' /\ NothingElse'
    BY <2>1, <2>2 DEF StoryInv, AppliedIsThere, NothingElse, Uncut, Undisturbed
  <2> QED
    BY <1>1, <2>3, <2>4 DEF StoryInv
<1> QED
  BY <1>1, <1>2, <1>3, <1>4, <1>5, <1>6, <1>7, <1>8 DEF Next

(* The history of the two databases, after any number of commands.          *)
THEOREM StartupStory ==
  Spec => []StartupInv
  BY InitStartup, NextStartup, PTL DEF Spec

-----------------------------------------------------------------------------
(* What follows from it.                                                    *)

(* The two databases hold nothing but tables of the revisions and of the    *)
(* models, and every variable stays in its range.                           *)
THEOREM StartupTyped ==
  Spec => []TypeOK
<1>1. StartupInv => TypeOK
  BY DEF StartupInv
<1> QED
  BY <1>1, StartupStory, PTL

(* alembic upgrade and downgrade undo each other: only what a cut command   *)
(* or create_all has left can stop one, in whatever order they are given.   *)
THEOREM RevisionsUndoEachOther ==
  Spec => []BlockedOnlyByLeftovers
<1>1. StartupInv => BlockedOnlyByLeftovers
  BY DEF StartupInv, NothingElse, Undisturbed, BlockedOnlyByLeftovers
<1> QED
  BY <1>1, StartupStory, PTL

(* At the head, every table of models.py is in the migrated database with   *)
(* its unique constraints.                                                  *)
THEOREM MigratedHasModels ==
  Spec => []HeadMatchesModels
<1>1. StartupInv => HeadMatchesModels
  <2> SUFFICES ASSUME StartupInv, version = HeadRevision, ~Downgrading, Uncut,
                      NEW m \in Models
               PROVE  m \in tables["file"]
    BY DEF HeadMatchesModels, Uncut
  <2>1. PICK k \in Nat, i \in Nat : Slot(k, i) /\ m = Upgrades[k][i]
    BY ModelsAreMigrated
  <2>2. k <= version
    BY <2>1, SlotIsPositive, RevisionLengths
  <2>3. Applied(k, i)
    BY <2>2 DEF Applied
  <2> QED
    BY <2>1, <2>3 DEF StartupInv, AppliedIsThere
<1> QED
  BY <1>1, StartupStory, PTL

(* Without a leftover, the file has tasks whenever it has a table at all    *)
(* that a revision has made.                                                *)
LEMMA UndisturbedResolved ==
  ASSUME StartupInv, Undisturbed, NEW t \in tables["file"]
  PROVE  t.refs \subseteq Names(tables["file"])
<1>1. PICK k \in Nat, i \in Nat :
        Slot(k, i) /\ Applied(k, i) /\ t = Upgrades[k][i]
  BY DEF StartupInv, NothingElse
<1>2. /\ k >= 1 /\ i >= 1 /\ version \in Nat /\ step \in Nat
      /\ Len(Upgrades[k]) \in Nat
  BY <1>1, SlotIsPositive, RevisionLengths DEF StartupInv, TypeOK
<1>3. Applied(1, 1)
  <2>1. Len(Upgrades[1]) = 7 /\ HeadRevision = 3
    BY RevisionLengths
  <2>2. CASE ~Downgrading
    BY <1>1, <1>2, <2>2 DEF Applied
  <2>3. CASE Downgrading /\ k < version
    BY <1>2, <2>3 DEF Applied
  <2>4. CASE Downgrading /\ k = version /\ i <= Len(Upgrades[k]) - step
    <3>1. CASE k = 1
      BY <1>2, <2>4, <3>1 DEF Applied
    <3>2. CASE k # 1
      BY <1>2, <2>4, <3>2 DEF Applied
    <3> QED
      BY <3>1, <3>2
  <2> QED
    BY <1>1, <2>2, <2>3, <2>4 DEF Applied, Downgrading
<1>4. Upgrades[1][1] \in tables["file"]
  BY <1>3, SlotReferences DEF StartupInv, AppliedIsThere, Uncut, Undisturbed
<1>5. "tasks" \in Names(tables["file"])
  BY <1>4, NameIsThere, TableReferences
<1>6. tables["file"] \in SUBSET Tables
  BY DEF StartupInv, TypeOK, Database
<1> QED
  BY <1>5, <1>6, ResolvedByTasks

(* No table refers to one that is not there, between any two statements and *)
(* after any interruption, as long as nothing is downgraded; and whatever   *)
(* is downgraded, as long as nothing was cut or made by create_all.         *)
THEOREM NoReferenceDangles ==
  Spec => []ReferencesResolve
<1>1. StartupInv => ReferencesResolve
  <2> SUFFICES ASSUME StartupInv, Undowngraded \/ Undisturbed,
                      NEW db \in Database, NEW t \in tables[db]
               PROVE  t.refs \subseteq Names(tables[db])
    BY DEF ReferencesResolve, Undowngraded, Undisturbed
  <2>1. CASE Undowngraded
    BY <2>1 DEF StartupInv, TasksFirst, Resolved
  <2>2. CASE Undisturbed /\ ~Undowngraded
    <3>1. ~deployment.ordered
      BY <2>2, ServiceIsADatabase DEF StartupInv, DeploymentInv
    <3>2. tables["postgres"] = {}
      BY <3>1 DEF StartupInv, DeploymentInv
    <3> QED
      BY <2>2, <3>2, UndisturbedResolved DEF Database
  <2> QED
    BY <2>1, <2>2
<1> QED
  BY <1>1, StartupStory, PTL

(* An API that answers has every table of models.py in its database,        *)
(* whoever made it, as long as nothing is downgraded.                       *)
THEOREM ServingApiHasTables ==
  Spec => []ApiHasTables
<1>1. StartupInv => ApiHasTables
  <2> SUFFICES ASSUME StartupInv, api = "up", Undowngraded, NEW m \in Models
               PROVE  m.name \in Names(tables[service])
    BY DEF ApiHasTables, Undowngraded, Names
  <2> QED
    BY DEF StartupInv, MissingIsKnown
<1> QED
  BY <1>1, StartupStory, PTL
=============================================================================
