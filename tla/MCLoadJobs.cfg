SPECIFICATION Spec
CONSTANTS
  c1 = c1
  c2 = c2
  c3 = c3
  r1 = r1
  r2 = r2
  r3 = r3
  r4 = r4
  Callers <- ThreeCallers
  Rows <- FourRows
  Unencodable <- OneBad
  FlushRowsSettings = {0, 2}
  migrateMaxRetries = 1
SYMMETRY Symmetry
CHECK_DEADLOCK FALSE
INVARIANTS
  TypeOK
  AccountedFor
  SettledAtClose
  HeldBounded
  DuplicatesBounded
PROPERTIES
  AddBeforeWait
  ImplementsRowsWriter
