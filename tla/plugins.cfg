SPECIFICATION FairSpec
CONSTANTS
  alpha = alpha
  beta = beta
  gamma = gamma
  official = official
  Plugins = {alpha, beta, gamma}
  Groups = {official}
  GroupOf <- Trusted
  Permissions <- Granted
  Policy <- Policies
  Uses <- Requested
  Calls = {c1, c2}
  Objects = {o1, o2, o3, o4}
  Faulty = {alpha}
  Crashing = {official}
  Manager = Manager
  None = None
INVARIANTS
  NothingIsHalfDone
  UsableHaveWorkers
  GroupMembersMatch
PROPERTIES
  CallsReturn
CHECK_DEADLOCK FALSE
