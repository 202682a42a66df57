\* Both modes on PostgreSQL, whose dead fault also has the drop-in to leave
\* behind and else behaves as CockroachDB's; an audit writer of two writes.
SPECIFICATION FairSpec
CONSTANTS
  MaxWrites = 2
  StaleRows = {1}
  Modes = {"dead", "recover"}
  Engines = {"postgresql"}
INVARIANTS
  FaultAfterSample
  RecordIsTrue
  KilledTargetIsRestored
  RpoExact
PROPERTY RunEnds
CHECK_DEADLOCK FALSE
