SPECIFICATION Spec
CONSTANTS
  jobA = jobA
  jobB = jobB
  system = system
  narrow = narrow
  wide = wide
  Publishers = {p1, p2}
  Subscribers = {narrow, wide}
  Kinds = {jobA, jobB, system}
  SystemKinds = {system}
  Wanted <- Filters
  Buffer = 2
  MaxEvents = 3
INVARIANTS
  ReceivedOnce
  ResumeLosesNothing
PROPERTIES
  BusImplementsLog
CHECK_DEADLOCK FALSE
