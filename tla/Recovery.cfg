\* Nine intervals of a generator that starts up to two units late, two of whose
\* lines are late by one: pre-fault baseline, settling and three intervals after.
SPECIFICATION Spec
CONSTANTS
  MaxTicks = 9
  MaxStart = 2
  MaxLate = 1
  MaxDelays = 2
  MaxTail = 2
  InjectAt = 1
  Steady = 5
  Levels = {3, 4}
  BaseP50 = 10
  P50s = {10, 12}
  Baseline = 2
  TNum = 4
  TDen = 5
  Hold = 3
  Settle = 2
  CvNum = 1
  CvDen = 4
  ShNum = 3
  ShDen = 20
INVARIANTS
  RecoveryIsTrue
  BoundsHoldTruth
  SettledIsPostFault
  ClassificationIsFair
  ShiftIsSeen
\* the run ends when it is recorded
CHECK_DEADLOCK FALSE
