SPECIFICATION Spec
CONSTANTS
  Jobs = {j1, j2, j3, j4}
  MaxAttempts = 2
  MaxQueued = 2
  MaxConcurrency = 2
  Slots = 1
  Needs = {j1, j2, j4}
  Oversized = {j4}
  Keyed = {j1, j2}
  Cancellable = {j1, j2}
  Retriable = {j1, j2}
  NoJob = NoJob
  Suspends = FALSE
INVARIANTS
  LimitsHold
  AttemptsAreAccountedFor
  JournalIsMonotone
PROPERTIES
  CancelledStaysCancelled
CHECK_DEADLOCK FALSE
