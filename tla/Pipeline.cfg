\* Both engines, two hosts that may have left a device behind.
SPECIFICATION FairSpec
CONSTANTS
  Engines <- BothEngines
  Hosts = {h1, h2}
INVARIANTS
  NoSilentVms
  OkMeansClean
PROPERTIES
  NamesFreeAtApply
  CleanupUninterrupted
  AbortIsHeard
CHECK_DEADLOCK FALSE
