\* Series of nine units: long enough for two healthy gaps, jitter after the
\* fault, an outage over the floor and a write that closes it.
SPECIFICATION Spec
CONSTANTS
  MaxTime = 9
  MaxOutages = 1
  QNum = 3
  QDen = 4
  PeriodSlack = 2
  CadenceSlack = 1
  MinGaps = 2
INVARIANTS
  OutageIsFound
  InstrumentsAgree
  NoSilentOutage
PROPERTY FloorIsFixed
CHECK_DEADLOCK FALSE
