CONSTANTS
  c1 = c1
  c2 = c2
  c3 = c3
  r1 = r1
  r2 = r2
  r3 = r3
  Callers <- ThreeCallers
  Rows <- ThreeRows
  Unencodable <- OneBad
  disableWriteRetries = FALSE
CHECK_DEADLOCK FALSE
SPECIFICATION Spec
SYMMETRY Symmetry
INVARIANTS
  TypeOK
  NoLeak
PROPERTIES
  ImplementsRowsWriter
  QuietAfterClose
