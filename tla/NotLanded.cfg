\* A kill that lands and takes the ssh connection with it.
SPECIFICATION Spec
CONSTANTS
  MaxWrites = 1
  StaleRows = {}
  Modes = {"dead"}
  Engines = {"cockroachdb"}
INVARIANT NotLandedIsUnhit
CHECK_DEADLOCK FALSE
