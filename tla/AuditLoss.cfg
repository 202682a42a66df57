\* An acknowledgement that arrives between the SELECT and the comparison.
SPECIFICATION AuditSpec
CONSTANTS
  MaxWrites = 1
  StaleRows = {}
INVARIANT ReportedLossIsReal
CHECK_DEADLOCK FALSE
