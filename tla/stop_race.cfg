SPECIFICATION Spec
CONSTANTS
  Commands = {c1}
  RestartLimit = 1
  MaxGeneration = 2
  NoCommand = NoCommand
INVARIANTS
  StoppedIsStopped
CHECK_DEADLOCK FALSE
