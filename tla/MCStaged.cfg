CONSTANTS
  l1 = l1
  l2 = l2
  g1 = g1
  Loads <- TwoLoads
  Stagings <- OneStaging
  MaxClock = 1
  migrateMaxRetries = 1
CHECK_DEADLOCK FALSE
SPECIFICATION Spec
SYMMETRY Symmetry
INVARIANTS
  OwnRows
  Tidy
