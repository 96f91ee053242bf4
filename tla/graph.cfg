SPECIFICATION Spec
CONSTANTS
  MaxSubgraphDepth = 3
  MaxLoopIterations = 3
  Catalogue <- MCCatalogue
  KnownTypes <- MCKnownTypes
  Workflows <- MCWorkflows
CHECK_DEADLOCK FALSE
INVARIANTS
  CompilationNeverRaises
  ExpansionKeepsMeaning
  CacheKeysAreSound
  PlanCanRun
  CriticalPathIsLongest
  BodiesAreNested
