\* Three attempts, an ssh process, a network and a reader that may each fail.
SPECIFICATION FairSpec
CONSTANT MaxAttempts = 3
INVARIANTS
  SeriesIsPrefix
  QuietMeansValid
PROPERTIES
  FinalOnceStopped
  AgentEnds
CHECK_DEADLOCK FALSE
