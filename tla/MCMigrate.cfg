SPECIFICATION Spec
CONSTANTS
  s1 = s1
  s2 = s2
  s3 = s3
  Replicas <- TwoReplicas
  Declarations <- AllDeclarations
  Strategies <- AllStrategies
  Tables <- AllTables
  migrateMaxRetries = 1
CHECK_DEADLOCK FALSE
SYMMETRY ReplicaSymmetry
INVARIANTS
  TypeOK
  StartedFits
  DropLeavesMore
PROPERTIES
  NoLostUpdate
  DropsOnlyUnmanaged
