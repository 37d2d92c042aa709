\* The worker that compose starts after the migration of another database.
SPECIFICATION Spec
CONSTANTS
  Deployment <- ComposeOnly
  MaxCommands = 1
INVARIANT WorkerAfterMigration
CHECK_DEADLOCK FALSE
