SPECIFICATION Spec
CONSTANTS
  alpha = alpha
  beta = beta
  gamma = gamma
  official = official
  Plugins = {alpha, beta, gamma}
  Groups = {official}
  GroupOf <- Trusted
  Permissions <- Granted
  Policy <- Policies
  Uses <- Requested
  Calls = {c1, c2}
  Objects = {o1, o2, o3, o4}
  Faulty = {alpha}
  Crashing = {}
  Manager = Manager
  None = None
INVARIANTS
  LoadedPluginsAreServed
CHECK_DEADLOCK FALSE
