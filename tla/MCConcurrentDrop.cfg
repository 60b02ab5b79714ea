SPECIFICATION Spec
CONSTANTS
  s1 = s1
  s2 = s2
  s3 = s3
  Replicas <- TwoReplicas
  Declarations <- SyncDeclarations
  Strategies <- SyncStrategies
  Tables <- SyncTables
  migrateMaxRetries = 1
CHECK_DEADLOCK FALSE
INVARIANT ConcurrentDropCovered
