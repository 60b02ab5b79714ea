SPECIFICATION FairSpec
CONSTANTS
  c1 = c1
  c2 = c2
  s1 = s1
  s2 = s2
  Callers <- TwoCallers
  Sinkers <- TwoSinkers
  MaxRows = 2
INVARIANTS
  TypeOK
  OwnSchema
  StartedOnce
PROPERTIES
  StartFinal
  EveryCallReturns
