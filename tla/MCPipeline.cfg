SPECIFICATION FairPipelineSpec
CONSTANTS
  c1 = c1
  c2 = c2
  r1 = r1
  r2 = r2
  s1 = s1
  s2 = s2
  Callers <- TwoCallers
  Rows <- TwoRows
  Sinkers <- TwoSinkers
  Unencodable = {}
  Batches <- FewBatches
  Unpreparable = {}
  FlushRowsSettings = {0, 2}
  migrateMaxRetries = 0
CHECK_DEADLOCK FALSE
INVARIANTS
  SinkTruthful
  JobsUnderOwnSchema
PROPERTIES
  ClosedMeansSettled
  EveryCallEnds
