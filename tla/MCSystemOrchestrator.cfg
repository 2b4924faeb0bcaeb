CONSTANTS
  Decompositions <- MCLists
  Concurrency = 2
  MaxRounds = 4
  MaxFailures = 2
  MaxReviewFailures = 2
  MaxReplans = 1
  Scratchpads <- MCBoth
  Isolations <- MCBoth
SPECIFICATION Spec
INVARIANTS
  TypeOK
  DependenciesFirst
  ResultIsExact
  AttemptsBounded
PROPERTIES
  ImplementsTaskGraph
