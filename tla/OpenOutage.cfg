\* An outage no write served after the fault separates from it.
SPECIFICATION Spec
CONSTANTS
  MaxTime = 9
  MaxOutages = 1
  QNum = 3
  QDen = 4
  PeriodSlack = 2
  CadenceSlack = 2
  MinGaps = 2
INVARIANT OpenOutageIsTruncated
CHECK_DEADLOCK FALSE
