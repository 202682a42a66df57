\* The probe as the agent runs it: two workers, three ticks, an output stream
\* that may break.
SPECIFICATION FairSpec
CONSTANTS
  NWorkers = 2
  MaxTicks = 3
  Emits = TRUE
INVARIANTS
  TypeOK
  PermitsConserved
  ServedIsCommitted
PROPERTIES
  SaturationIsHonest
  CleanStopIsFinal
  ImplementsLedger
  StopReturns
  DispatchedIsRecorded
CHECK_DEADLOCK FALSE
