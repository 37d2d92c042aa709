\* Alembic, create_all and the processes that are started around them.
SPECIFICATION FairSpec
CONSTANTS
  Deployment <- BothWays
  MaxCommands = 3
INVARIANTS
  TypeOK
  BlockedOnlyByLeftovers
  HeadMatchesModels
  ReferencesResolve
  ApiHasTables
PROPERTIES
  StackStartsOnceComplete
CHECK_DEADLOCK FALSE
