SPECIFICATION SystemSpec
CONSTANTS
  offloadable = offloadable
  shrinkable = shrinkable
  small = small
  light = light
  Jobs <- MCJobs
  MaxAttempts = 2
  Limits <- MCLimits
  Sampled = {"ram"}
  Plans <- MCPlans
  QueueNames <- MCQueueNames
  QueueOf <- MCQueueOf
  Merit <- MCMerit
  AgeRate = 1
  MaxQueued = 3
  QueueLimits <- MCQueueLimits
  MaxConcurrency = 2
  Cacheable = {light}
  MaxTime = 1
INVARIANTS
  LoadIsBoundedAndTold
  BooksBalance
PROPERTIES
  NothingFeasibleIsRejected
  RecordsAdvance
  ServedInOrder
  JobsEnd
CHECK_DEADLOCK FALSE
