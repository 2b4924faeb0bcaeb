CONSTANTS
  Plans <- MCPlans
  MaxIterations = 11
  MaxRetries = 2
  MaxReplans = 2
  PurgeAfter = 1
  NameFaults <- MCBoth
SPECIFICATION Spec
INVARIANTS
  TypeOK
  AttemptsBounded
  FailuresAccounted
  NoStepPassedOver
PROPERTIES
  SettledStaysSettled
