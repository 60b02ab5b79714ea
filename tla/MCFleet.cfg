SPECIFICATION FairSpec
CONSTANTS
  s1 = s1
  s2 = s2
  s3 = s3
  Replicas <- ThreeReplicas
  Declarations <- FleetDeclarations
  Strategies <- FleetStrategies
  Tables <- FleetTables
  migrateMaxRetries = 1
CHECK_DEADLOCK FALSE
INVARIANTS
  RetryBudget
  SameDeclarationRetriesOnce
PROPERTY EveryStartEnds
