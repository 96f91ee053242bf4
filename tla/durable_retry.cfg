SPECIFICATION FairSpec
CONSTANTS
  Jobs = {j1, j2, j3}
  MaxAttempts = 2
  MaxQueued = 2
  MaxConcurrency = 2
  Slots = 2
  Needs = {j1, j2, j3}
  Oversized = {j3}
  Keyed = {j2}
  Cancellable = {j1}
  Retriable = {j1}
  NoJob = NoJob
  Suspends = TRUE
INVARIANTS
  EveryJobHasItsPlace
PROPERTIES
  ImplementsRepository
  LoopDoesItsWork
CHECK_DEADLOCK FALSE
