SPECIFICATION Spec
CONSTANTS
  c1 = c1
  c2 = c2
  c3 = c3
  r1 = r1
  r2 = r2
  r3 = r3
  r4 = r4
  Callers <- TwoCallers
  Rows <- TwoRows
  Unencodable <- OneBad
  FlushRowsSettings = {0}
  migrateMaxRetries = 1
CHECK_DEADLOCK FALSE
INVARIANT LostNeverLanded
