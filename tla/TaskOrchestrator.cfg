SPECIFICATION Spec
CONSTANTS
  Contracts <- MCContracts
  Answers <- MCAnswers
  Texts <- MCTexts
  Durations <- MCDurations
INVARIANTS
  TypeOK
  ElapsedBounded
  SuccessIsCheap
  SuccessHasContent
  InvalidAbstainsOnlyNearMiss
  CleanAnswerStands
CHECK_DEADLOCK FALSE
