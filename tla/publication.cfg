SPECIFICATION FairSpec
CONSTANTS
  p1 = p1
  p2 = p2
  p3 = p3
  Publishers = {p1, p2, p3}
  Collectors = {k1}
  Digests <- Blobs
  Content <- Overlapping
  MaxRuns = 1
  Interruptible = {p3}
  Nobody = Nobody
INVARIANTS
  ReferencesResolve
  RowsAreSound
  FailuresAreUndone
PROPERTIES
  PublicationsEnd
  PublicationIsAtomic
CHECK_DEADLOCK FALSE
