SPECIFICATION FairSpec
CONSTANTS
  sound = sound
  again = again
  observed = observed
  flawed = flawed
  demo = demo
  Nobody = Nobody
  Installs = {sound, again, observed, flawed}
  Package <- Packaged
  Version <- Versions
  Digest <- Digests
  Flaws <- Refused
  Observed <- Failed
  Stuck <- Open
INVARIANTS
  FailureLeavesNothing
PROPERTIES
  InstallsEnd
  InstallationIsAtomic
CHECK_DEADLOCK FALSE
