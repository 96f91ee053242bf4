SPECIFICATION FairSpec
CONSTANTS
  Commands = {c1, c2}
  RestartLimit = 1
  MaxGeneration = 2
  NoCommand = NoCommand
INVARIANTS
  ProcessesAreLimited
  EveryCallIsAnswerable
  AbandonedWorkIsKilled
PROPERTIES
  CommandsAreHonoured
  CallsReturn
  CrashesAreHandled
CHECK_DEADLOCK FALSE
