SPECIFICATION Spec
CONSTANTS
  f1 = f1
  Forwards = {f1, f2}
  PoolIDs = {a, b}
  Conns = {c1, c2}
  Pools = {p1, p2, p3}
  ConnIDs = {x1}
  Client <- MCClient
  None = None
  Failing = {c1, c2}
SYMMETRY MCSymmetry
INVARIANTS
  RepliesMoveToLiveLine
CHECK_DEADLOCK FALSE
