\* One run against the default limits, in units of ten seconds.
SPECIFICATION FairSpec
CONSTANTS
  Providers <- MCProviders
  Models <- MCModels
  HttpTimeout = 3
  ExecutionTimeout = 12
  SoftLimit = 9
  HardLimit = 12
  MaxProgress = 6
INVARIANTS
  TypeOK
  LostOnlyByLimit
  SilenceIsAFailure
PROPERTIES
  Ends
CHECK_DEADLOCK FALSE
