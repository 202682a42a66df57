SPECIFICATION Spec
CONSTANTS
  Nodes = {gw, n2, n3}
  Gateway = gw
  MaxMoves = 1
  MaxSessions = 2
SYMMETRY Replicas
INVARIANTS
  TypeOK
  MeasuredUndisturbed
  MeasuredFromGateway
  FiguresAreFit
\* the script stops at the end of its last session
CHECK_DEADLOCK FALSE
