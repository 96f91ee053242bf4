SPECIFICATION Spec
CONSTANTS
  Jobs = {j1, j2}
  MaxAttempts = 2
  MaxQueued = 2
  MaxConcurrency = 2
  Slots = 2
  Needs = {j1}
  Oversized = {}
  Keyed = {}
  Cancellable = {}
  Retriable = {j1}
  NoJob = NoJob
  Suspends = TRUE
INVARIANTS
  ReservationsAreRegistered
CHECK_DEADLOCK FALSE
